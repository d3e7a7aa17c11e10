SPECIFICATION Spec
CONSTANTS
    Uploads = {u1}
    Paths = {p1}
    Modes = {"basic", "extended"}
    ChanCap = 1
    MaxCancels = 1
    MaxCrashes = 1
    MaxShutdowns = 1
    MaxFaults = 1
    UploadErrors = TRUE
    NoTask = NoTask
    NoJob = NoJob
    NoFile = NoFile
    Empty = Empty
    Garbled = Garbled
INVARIANTS
    TypeOK
    CompletedMeansStored
    RecoverableOnDisk
PROPERTIES
    LeftUnfinished
    OnlyCancelLeavesCompleted
    NothingLeftActive
VIEW UploadView
CONSTRAINT UploadBound
