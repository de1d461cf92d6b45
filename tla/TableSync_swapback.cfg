SPECIFICATION Spec
CONSTANTS
    NumKeys = 1
    MaxVersion = 0
    MaxExpired = 0
    MaxParts = 1
    BatchSize = 1
    Workers = {w1}
    MaxSnapshots = 9
    MaxRequests = 1
    MaxFaults = 3
    OrphansSurvive = FALSE
    SavesMayFail = TRUE
SYMMETRY WorkerSymmetry
PROPERTY NoSwapBack
