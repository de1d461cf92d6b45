SPECIFICATION FairSpec
CONSTANTS
    MaxJobs = 2
    Modes = {"docker", "local"}
    MaxFaults = 3
INVARIANTS
    TypeOK
    NoStray
PROPERTIES
    OneChSync
    OwnResult
    JobsEnd
