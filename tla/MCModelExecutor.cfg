SPECIFICATION ExecSpec
CONSTANTS
    p1 = p1
    p2 = p2
    t = t
    f = f
    NoKey = NoKey
    NoId = NoId
    Programs <- MCPrograms
    Keys <- MCKeys
    Plans <- MCPlans
    Required <- MCPlans
    LeftBehind <- MCLeftBehind
    Ids = {i1}
    KVTensors = {k1, k2}
    MaxFaults = 1
    MaxOwnerFaults = 2
INVARIANTS
    ModelSeesAllocated
    CompleteUnlessStuck
    KVOutlivesTraces
    CleanedUpHoldsNothing
PROPERTIES
    SamplingBeforeTraces
    CleanupCompletesUnlessStuck
CHECK_DEADLOCK FALSE
