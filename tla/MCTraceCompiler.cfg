SPECIFICATION Spec
CONSTANTS
    p1 = p1
    p2 = p2
    p3 = p3
    t1 = t1
    t2 = t2
    f = f
    b = b
    NoKey = NoKey
    NoId = NoId
    Programs <- MCPrograms
    Keys <- MCKeys
    Plans <- MCPlans
    Ids = {i1}
    MaxFaults = 1
INVARIANTS
    OwnershipExact
    KeptInputsAreCurrent
PROPERTIES
    GateSpec
CHECK_DEADLOCK FALSE
