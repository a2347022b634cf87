SPECIFICATION FairSpec
CONSTANTS
    Call = {c1, c2}
    MaxEvent = 3
INVARIANT NothingLeaks
PROPERTIES OneLife LossReported Settles
CHECK_DEADLOCK FALSE
