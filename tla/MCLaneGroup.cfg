SPECIFICATION GroupSpec
CONSTANTS
    Cases <- MCCases
    Scenarios <- MCScenarios
    Capacity = 2
    Requests = {short1, short2, long}
    LongPrompts = {long}
    None = None
INVARIANTS
    CaptureIsOneBarrier
    LanesAgree
    WarmedUpIsReady
    WarmedGroupServes
PROPERTIES
    WarmupEndsCaptured
    GroupIsOneBatch
CHECK_DEADLOCK FALSE
