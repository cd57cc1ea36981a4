SPECIFICATION Spec
CONSTANTS
    Pools = {p1}
    Insts = {i1}
    Reqs = {r1}
    MaxSize = 2
    Budget = 4
    Overhead = 1
    None = None
INVARIANT
    GuestRAMStaysInPool
