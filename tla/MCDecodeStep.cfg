SPECIFICATION StepSpec
CONSTANTS
    q1 = q1
    q2 = q2
    s1 = s1
    s2 = s2
    Slots <- MCSlots
    Requests <- MCRequests
    Asks <- MCAsks
    Greedy = "greedy"
    Blocks = {1, 2, 3}
    BlockSize = 2
    Width = 2
    MaxLength = 4
    None = None
SYMMETRY MCSymmetry
INVARIANTS
    CacheHoldsRequests
    SampledAsAsked
CHECK_DEADLOCK FALSE
