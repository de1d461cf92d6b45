SPECIFICATION Spec
CONSTANTS
    NumKeys = 1
    MaxVersion = 1
    MaxExpired = 0
    MaxParts = 1
    BatchSize = 1
    Workers = {w1, w2}
    MaxSnapshots = 7
    MaxRequests = 1
    MaxFaults = 1
    OrphansSurvive = TRUE
    SavesMayFail = FALSE
SYMMETRY WorkerSymmetry
INVARIANT NoGhostRow
