SPECIFICATION MCSpec
CONSTANTS
    MaxMsgs = 4
    SubCap = 1
    StreamCap = 2
    MaxEvents = 3
    EventCap = 1
    Callers = {c1, c2, c3}
    Accounts = {a1, a2}
    Nobody = Nobody
    MaxPairs = 3
INVARIANTS
    TypesOK
    GoodbyeIsLast
    AnsweredInSession
    SavedPairServes
PROPERTIES
    StreamsSpec
    EndsTogether
    RequestsEnd
