SPECIFICATION Spec
CONSTANTS
    None = None
    MaxVer = 2
    MaxKernel = 2
    MaxSize = 2
    MaxCmds = 7
    MaxFaults = 2
INVARIANTS
    PathHoldsData
    PairMatches
    OriginalKept
    Recoverable
    SizeIsReal
CHECK_DEADLOCK FALSE
