SPECIFICATION ReaderSpec
CONSTANTS
    Threads = {t1, t2}
    MaxReads = 2
    Ids = {i1, i2}
    NoId = NoId
    MaxFailures = 1
PROPERTIES
    DrainRetires
    CallsReturn
    HostReadSpec
CHECK_DEADLOCK FALSE
