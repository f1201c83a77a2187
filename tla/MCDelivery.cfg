SPECIFICATION LiveDeliverySpec
CONSTANTS
    h1 = h1
    Jobs = {j1, j2}
    Procs = {p1, p2}
    Names = {h1}
    NoJob = NoJob
    NoName = NoName
    NameOf <- SameHost
    KeepsName = TRUE
    AdminOps = FALSE
    MaxAttempts = 2
    BackoffCap = 1
    Lease = 1
    HandlerTimeout = 1
    MaxFaults = 1
    MaxRuns = 2
INVARIANTS OneRunnerPerJob RunnerHoldsLease DeliveryTypeOK SuccessMeansDelivered
PROPERTIES SuccessIsFinal SettledNotPostedAgain DeliveredOrGivenUp
CHECK_DEADLOCK FALSE
