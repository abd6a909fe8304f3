CONSTANTS
    hostA = hostA
    hostB = hostB
    pid = pid
    Processes = {1, 2}
    Hosts = {hostA, hostB}
    Pids = {pid}
    Jobs <- MCJobs
    ReadOnly <- MCReadOnly
    MaxLaunches = 3
    MaxFaults = 1
    MaxCrashes = 1
SPECIFICATION CacheSpec
INVARIANTS
    PublishedIsWhole
    ForeignIsWarned
PROPERTIES
    PublishedIsStable
CHECK_DEADLOCK FALSE
