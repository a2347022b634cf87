CONSTANTS
    Item = {i1}
    Call = {k1, k2, k3}
    None = None
    Syncing = TRUE
    MaxClock = 3
SPECIFICATION Spec
INVARIANTS
    ReturnedIsSaved
    LockHeld
SYMMETRY CallSymmetry
CHECK_DEADLOCK FALSE
