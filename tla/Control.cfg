SPECIFICATION MCSpec
CONSTANTS
    Clients = {c1, c2}
    Pids = {p1, p2, p3}
    Nothing = Nothing
    MaxPolls = 1
    MaySleep = TRUE
    Editors = {"e1", "e2"}
    Worlds <- MCWorlds
    NoFile = NoFile
    InvalidNames <- MCInvalidNames
    ForbiddenNames <- MCForbiddenNames
    StorageNames <- MCStorageNames
    Special <- MCSpecial
    Stripped <- MCStripped
    Control <- MCControlChars
    WithEquals <- MCWithEquals
    Environment <- MCEnvironment
INVARIANTS
    TypesOK
    ChildrenOwned
    FileStaysWhole
    EditsKept
    ReportIsTrue
    RoundTrip
    StorageAgrees
    RestartedRunsLatest
PROPERTY
    StopEnds
