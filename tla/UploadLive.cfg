SPECIFICATION FairSpec
CONSTANTS
    Uploads = {u1}
    Paths = {p1}
    Modes = {"basic", "extended"}
    ChanCap = 1
    MaxCancels = 0
    MaxCrashes = 1
    MaxShutdowns = 1
    MaxFaults = 0
    UploadErrors = FALSE
    NoTask = NoTask
    NoJob = NoJob
    NoFile = NoFile
    Empty = Empty
    Garbled = Garbled
PROPERTIES
    Settles
    LifecycleSpec
