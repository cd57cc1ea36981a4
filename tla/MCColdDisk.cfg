SPECIFICATION Spec
CONSTANTS
    Gens = {g1, g2}
    Base = base
    None = None
    Insts = {i1, i2}
    MaxDisks = 2
    MaxVer = 1
    MaxCalls = 1
    MaxWire = 1
SYMMETRY Symmetry
CHECK_DEADLOCK FALSE
INVARIANTS
    DeletedLeavesNoObject
    ParentsKept
    MarkerHasJournal
    RuntimeHasDisk
PROPERTIES
    ImplementsDisk
