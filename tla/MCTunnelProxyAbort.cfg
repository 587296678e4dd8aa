CONSTANTS
    Roles = {"proxy"}
    BufSize = 2
    TxSize = 2
    RxSize = 3
    MaxBytes = 3
SPECIFICATION Spec
PROPERTIES
    AbortIsPassedOn
CHECK_DEADLOCK FALSE
