CONSTANTS
    Item = {i1}
    Call = {k1, k2, k3}
    None = None
    Syncing = TRUE
    MaxClock = 2
SPECIFICATION Spec
INVARIANT EditIsKept
CHECK_DEADLOCK FALSE
