SPECIFICATION Spec
CONSTANTS
    NumKeys = 2
    MaxVersion = 2
    MaxExpired = 1
    MaxParts = 2
    BatchSize = 1
    Workers = {w1, w2}
    MaxSnapshots = 5
    MaxRequests = 0
    MaxFaults = 1
    OrphansSurvive = FALSE
    SavesMayFail = TRUE
SYMMETRY WorkerSymmetry
INVARIANTS
    TypeOK
    LiveTableWhole
    CheckpointCovered
    ProgressCovered
    IInv
