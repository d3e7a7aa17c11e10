SPECIFICATION CertSpec
CONSTANTS
    MaxPairs = 3
INVARIANT
    OwnFilesServe
