CONSTANTS
    Device = {d1, d2}
    Item = {i1}
    Folder = {}
    None = None
    MaxClock = 2
    MaxRestart = 1
    Retries = 1
SPECIFICATION FairSpec
PROPERTIES
    Converging
    Quiesces
CHECK_DEADLOCK FALSE
