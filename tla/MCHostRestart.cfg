CONSTANTS
    Attempts = {a1, a2}
    Procs = {a1, a2}
    None = None
SYMMETRY Symmetry
SPECIFICATION Spec
INVARIANTS
    StillDueForRestart
