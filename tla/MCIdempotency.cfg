SPECIFICATION IdemSpec
CONSTANTS
    Keys = {k1, k2}
    NoKey = NoKey
    Requests = {r1, r2, r3}
    Bodies = {b1, b2}
    NoBody = NoBody
    Nobody = Nobody
INVARIANT Owned
PROPERTY PromiseKept
CHECK_DEADLOCK FALSE
