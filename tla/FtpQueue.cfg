CONSTANTS
    Op = {o1, o2, o3}
SPECIFICATION FairSpec
INVARIANTS
    NoStranded
    AfterMutations
PROPERTIES
    OneLife
    Serial
    AllSettle
CHECK_DEADLOCK FALSE
