CONSTANTS
    None = None
    root = root
    doc = doc
    Path = {root, doc}
    ParentOf <- MCParentOf
    Size = {1, 2, 4}
    Budget = {2, 3}
    Ttl = {0}
    MaxTime = 1
    MaxCounter = 4
    Handle = {h1, h2, h3}
    Entry = {e1, e2, e3}
    MaxRun = 2
    MaxResults = 2
    Window = {w1, w2}
    Keep <- MCKeep
    Mondays = {1, 3}
    MaxDay = 3
    MaxTask = 2
    c1 = c1
    f1 = f1
    f2 = f2
    Folder = {f1, f2}
    Secret = {"l", "r"}
    Mine <- MCMine
    Theirs <- MCTheirs
    Legacy = {1}
    MaxKey = 4
    MaxEdit = 2
    Place = {p1, p2}
    Caller = {a, b}
    Free = Free
    Conn = {c1}
    Button = {"save", "test"}
    New = New
    Nobody = Nobody
    MaxOpen = 2
    Count = 2
    MaxName = 3
    MaxCalls = 2
SPECIFICATION Spec
SYMMETRY Symmetry
INVARIANTS
    NobodyPolls
    OnlyLatest
    NoOrphan
    ListedWhole
    Forest
    Agree
    Recoverable
    EncryptionConsistent
    ModeComesBack
    BetweenOpsAtRoot
    NeverClobbers
    SavedAsEntered
    SavedUsable
    LabelsSettle
PROPERTIES
    CacheWithinBudget
    KeepsNewest
CHECK_DEADLOCK FALSE
