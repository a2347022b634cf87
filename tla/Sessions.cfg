SPECIFICATION Spec
CONSTANTS
    Conn = {c1, c2}
    Command = {k1, k2}
    Home = Home
    File = {f1}
    MaxStart = 2
    MaxRestart = 1
SYMMETRY Symmetry
INVARIANTS StaysDisconnected
