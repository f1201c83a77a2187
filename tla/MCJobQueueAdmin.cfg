SPECIFICATION LiveQueueSpec
CONSTANTS
    h1 = h1
    Jobs = {j1}
    Procs = {p1, p2}
    Names = {h1}
    NoJob = NoJob
    NoName = NoName
    NameOf <- SameHost
    KeepsName = TRUE
    AdminOps = TRUE
    MaxAttempts = 2
    BackoffCap = 1
    Lease = 1
    HandlerTimeout = 1
    MaxFaults = 1
    MaxRuns = 3
INVARIANT NotGivenUpEarly
PROPERTY EveryJobEnds
CHECK_DEADLOCK FALSE
