CONSTANTS
    Conn = {c1, c2}
    FtpConn = {c2}
    Call = {k1, k2}
    None = None
    MaxConn = 1
    IdleTimeout = 0
    MaxGen = 1
    MaxTime = 1
SPECIFICATION FairSpec
INVARIANTS
    NoLeak
    DisconnectWins
PROPERTIES
    OneFlight
    LiveStatusKept
    CallsEnd
CHECK_DEADLOCK FALSE
