CONSTANTS
    None = None
    Missing = Missing
    Failed = Failed
    Call = {c1, c2}
    Req = {r1, r2}
    Mutation = {m1}
    Tick = {t1}
    Probing = TRUE
    MaxExternal = 0
    MaxLosses = 1
    MaxSuspends = 0
SPECIFICATION Spec
INVARIANTS
    PendingIsLive
    ReadYourWrites
PROPERTY WatcherGuarded
SYMMETRY Symmetry
CHECK_DEADLOCK FALSE
