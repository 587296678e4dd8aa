CONSTANTS
    BufSize = 7
    Headroom = 3
    SizeMod = 4
    RequestLen = {1, 2, 3}
    MaxIn = 9
SPECIFICATION Spec
INVARIANTS
    TypeOK
    InBounds
    EmptyHasRoom
PROPERTIES
    ImplementsQueue
CHECK_DEADLOCK FALSE
