SPECIFICATION Spec
CONSTANTS
    a1 = a1
    a2 = a2
    a3 = a3
    old = old
    new = new
    Attempts <- MCAttempts
    Instances <- MCInstances
    InstOf <- MCInstOf
    Legacy = Legacy
    None = None
    MaxBoot = 1
    MaxDisk = 1
SYMMETRY Symmetry
INVARIANTS
    AtMostOneVM
    LiveVMKeepsPaths
    DeletionProofIsFinal
    DrainedHostIsIdle
    ResumeOwnIncarnation
    ResumeFitsDisk
PROPERTIES
    AbsentMeansVacant
    ImplementsContract
