SPECIFICATION Spec
CONSTANTS
    Topics = {b, r}
    Builtin = {b}
    Steady = {r}
    Bridges = {w}
    NoTopic = NoTopic
    Refresh = 4
    Window = 2
    Margin = 2
    Expiry = 5
    MaxTopics = 2
PROPERTY
    BridgedNotSampled
