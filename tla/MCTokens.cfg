CONSTANTS
    Conn = {c1, c2, c3, c4}
    MaxSession = 2
    MaxRestart = 1
    TokenMod = 8
    WindowSize = 2
    Starts = {7}
SPECIFICATION Spec
SYMMETRY Symmetry
INVARIANTS
    AtMostOnce
    TokenOfSession
    NeverAhead
CHECK_DEADLOCK FALSE
