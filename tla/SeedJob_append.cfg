SPECIFICATION FairSpec
CONSTANTS
    MaxJobs = 2
    NumTables = 3
    Parents <- ItemParents
    RowPlans <- Plans
    BatchSize = 1
    MayOverlap = FALSE
    MaxFaults = 2
INVARIANTS
    TypeOK
    NoKeyCollision
    SeedInv
PROPERTIES
    WritesExistingParents
    SucceededIsComplete
    JobsEnd
