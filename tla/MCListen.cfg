CONSTANTS
    Client = {c1, c2, c3, c4}
    PerConn = 3
    Limit = 4
    MaxFaults = 2
SPECIFICATION Spec
PROPERTY Served
CHECK_DEADLOCK FALSE
