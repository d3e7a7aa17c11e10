SPECIFICATION Spec
CONSTANTS
    Topics = {b, r, q}
    Builtin = {b}
    Steady = {r, q}
    Bridges = {w}
    NoTopic = NoTopic
    Refresh = 4
    Window = 2
    Margin = 2
    Expiry = 5
    MaxTopics = 2
SYMMETRY Symmetry
INVARIANTS
    TypeOK
    StaysAvailable
    CoveredSoon
