SPECIFICATION FairSpec
CONSTANTS
    Attempts = {a1, a2}
    Procs = {a1, a2}
    None = None
INVARIANTS
    NetworkUnderVM
    StoppedMeansGone
    SupersededAreClosed
    StopHolds
PROPERTIES
    StopCompletes
    StartIsResolved
