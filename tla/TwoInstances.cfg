SPECIFICATION Spec
CONSTANTS
    NumKeys = 1
    MaxVersion = 0
    MaxExpired = 0
    MaxParts = 1
    BatchSize = 1
    Workers = {w1}
    MaxSnapshots = 4
    MaxRequests = 0
    MaxFaults = 0
    OrphansSurvive = FALSE
    SavesMayFail = FALSE
INVARIANT ResultsStayCorrect
