SPECIFICATION PoolSpec
CONSTANTS
    Threads = {t1, t2, t3}
    NoThread = NoThread
    NLanes = 2
    MaxFaults = 1
    MaxSubmitFaults = 1
    MaxCleanups = 2
INVARIANTS
    CleanupWaits
PROPERTIES
    CallsReturn
CHECK_DEADLOCK FALSE
