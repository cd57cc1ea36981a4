SPECIFICATION Spec
CONSTANTS
    Pools = {p1, p2}
    Insts = {i1, i2}
    Reqs = {r1}
    MaxSize = 2
    Budget = 4
    Overhead = 1
    None = None
SYMMETRY Symmetry
INVARIANTS
    PooledVMsAreCapped
    MembersFit
    PromisesFitHost
