SPECIFICATION LiveRenewalSpec
CONSTANTS
    Subs = {s1}
    Workers = {v1, v2}
    PeriodLength = 2
    Grace = 1
    ExpiryDelay = 1
    Horizon = 7
    MaxPeriods = 2
    ManualHold = TRUE
    Failures = TRUE
INVARIANTS RenewalTypeOK  NoEarlyExpiry  FlaggedIsNotBilled
PROPERTY OverdueIsResolved
CHECK_DEADLOCK FALSE
