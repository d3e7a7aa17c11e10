SPECIFICATION Spec
CONSTANTS
    Uploads = {u1}
    Paths = {p1}
    Modes = {"basic", "extended"}
    ChanCap = 1
    MaxCancels = 1
    MaxCrashes = 0
    MaxShutdowns = 0
    MaxFaults = 0
    UploadErrors = FALSE
    NoTask = NoTask
    NoJob = NoJob
    NoFile = NoFile
    Empty = Empty
    Garbled = Garbled
INVARIANT
    CancelledNeverCompletes
