CONSTANTS
    Keys = {k1, k2}
    Workers = {w1, w2}
    ChanCap = 1
SPECIFICATION FairSpec
INVARIANTS
    TypeOK
    QueuedIsDirtyAndIdle
    QueuedOnce
    ProcessingIsHeld
    OneWorkerPerKey
PROPERTIES
    Promise
    EveryMarkIsServed
    FailuresAreRetried
    WorkersReturn
CHECK_DEADLOCK FALSE
