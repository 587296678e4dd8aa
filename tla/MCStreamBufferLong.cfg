CONSTANTS
    BufSize = 9
    Headroom = 5
    SizeMod = 4
    RequestLen = {1, 2, 3, 4, 5}
    MaxIn = 4
SPECIFICATION Spec
INVARIANTS
    RequestComesWhole
CHECK_DEADLOCK FALSE
