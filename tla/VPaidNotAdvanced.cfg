SPECIFICATION LiveRenewalSpec
CONSTANTS
    Subs = {s1}
    Workers = {v1}
    PeriodLength = 2
    Grace = 1
    ExpiryDelay = 1
    Horizon = 6
    MaxPeriods = 2
    ManualHold = FALSE
    Failures = FALSE
PROPERTY PaidRenewalAdvances
CHECK_DEADLOCK FALSE
