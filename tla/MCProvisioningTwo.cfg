SPECIFICATION ProvSpec
CONSTANTS
    i1 = i1
    a = a
    b = b
    Insts = {i1, i2}
    Runs = {r1, r2}
    VMs = {v1, v2}
    Names = {a, b}
    NameOf <- OwnNames
    NoVM = NoVM
    NoInst = NoInst
    Free = Free
    Left = Left
    Ops = {"terminate", "request"}
    Reported = {"active"}
    DuplicateRuns = FALSE
    MaxCrashes = 0
CHECK_DEADLOCK FALSE
SYMMETRY VMSymmetry
INVARIANTS MappedToOwnVM
