SPECIFICATION SupFairSpec
CONSTANTS
    Ceiling = 3
    HardCeiling = 2
    TripCeiling = 4
    GracePeriod = 1
    DefaultBackoff = 1
    MaxBackoff = 2
    HealthyRun = 1
    WorkerFaults = TRUE
    MaxLeaks = 1
INVARIANTS
    NoFalseAlarm
PROPERTIES
    HungIsReplaced
    Restarts
    ShutdownEnds
