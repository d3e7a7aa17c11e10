CONSTANTS
    STEP_GAP_NS = 4
    MaxTime = 1000
    None = None
    Spans <- MCSpans
    Steps <- MCSteps
    MaxInputs = 6
    Channels = {1, 2}
    Styles <- MCStyles
    Interval = 1
    WriteLatency = 3
    StartTime = 100
    Files = {f1}
    Listers = {l1, l2}
    MaxVersion = 3
    Thread = Thread
    NoFile = NoFile
SPECIFICATION MCSpec
CHECK_DEADLOCK FALSE
INVARIANTS
    TypesOK
    TakenBackWasAdded
    StepsCounted
    DurationsAgree
    CountsExact
    SummarySaysAll
    ReadersAgree
    TrueDuration
    InFlightIsExact
    CacheIsCurrent
    ScannedOnce
PROPERTIES
    StrayLeavesNoTrace
    ScanningEnds
