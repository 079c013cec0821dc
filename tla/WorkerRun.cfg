\* A run with Redis, whatever its worker code is like.
SPECIFICATION FairSpec
CONSTANTS
    HasRedis = TRUE
    MaxRecords = 3
CHECK_DEADLOCK FALSE
INVARIANTS
    TypeOK
    PushedAgrees
    HandlerRestored
    PushNeverRaises
PROPERTIES
    KilledOnlyOutside
    StopEndsRun
