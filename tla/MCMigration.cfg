SPECIFICATION FairSpec
CONSTANTS
    a = a
    b = b
    c = c
    None = None
    Removed = Removed
    Hosts <- ThreeHosts
    Origin = a
    MaxInsts = 3
    MaxTokens = 2
    MaxVer = 1
    MaxFaults = 2
CHECK_DEADLOCK FALSE
INVARIANTS
    OneLiveCopy
    StartableIsCurrent
    CopyAndDeviceKept
PROPERTIES
    NeverStranded
