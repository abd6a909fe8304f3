SPECIFICATION OutputsSpec
CONSTANTS
    Traces = {a, b}
    MaxSteps = 4
    MaxReads = 4
    MaxFailures = 1
INVARIANTS
    HostValueOfItsStep
    AllocatedIsReachable
PROPERTIES
    DrainIsComplete
CHECK_DEADLOCK FALSE
