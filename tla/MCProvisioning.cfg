SPECIFICATION ProvSpec
CONSTANTS
    i1 = i1
    a = a
    b = b
    Insts = {i1}
    Runs = {r1, r2}
    VMs = {v1, v2}
    Names = {a, b}
    NameOf <- OwnNames
    NoVM = NoVM
    NoInst = NoInst
    Free = Free
    Left = Left
    Ops = {"rename", "suspend"}
    Reported = {"active"}
    DuplicateRuns = TRUE
    MaxCrashes = 1
CHECK_DEADLOCK FALSE
SYMMETRY VMSymmetry
INVARIANT OneProvisioner
PROPERTY MappingIsStable
