SPECIFICATION FairSpec
CONSTANTS
    NumKeys = 1
    MaxVersion = 2
    MaxExpired = 1
    MaxParts = 1
    BatchSize = 1
    Workers = {w1, w2}
    MaxSnapshots = 8
    MaxRequests = 1
    MaxFaults = 1
    OrphansSurvive = FALSE
    SavesMayFail = FALSE
INVARIANT NoGhostRow
PROPERTIES
    NoReaderRegress
    ImplementsReplica
    Converges
    RequestServed
