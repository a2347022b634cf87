CONSTANTS
    None = None
    Missing = Missing
    Failed = Failed
    Call = {c1, c2}
    Req = {r1, r2, r3, r4}
    Mutation = {}
    Tick = {}
    Probing = TRUE
    MaxExternal = 1
    MaxLosses = 0
    MaxSuspends = 1
SPECIFICATION FairSpec
INVARIANTS
    OneListing
PROPERTY CallsEnd
CHECK_DEADLOCK FALSE
