SPECIFICATION MCSpec
CONSTANTS
    sick = sick
    big = big
    small = small
    Tables = {sick, big, small}
    Sick = {sick}
    Workers = 2
    MaxSnapshotWorkers = {}
    MaxParts = 1
    MaxEvents = 2
INVARIANTS
    TypeOK
    SlotsAccounted
    SnapshotsCapped
PROPERTIES
    HealthyPolled
    HealthyLoaded
