CONSTANTS
    Roles = {"proxy", "proxifier"}
    BufSize = 2
    TxSize = 2
    RxSize = 3
    MaxBytes = 3
SPECIFICATION Spec
INVARIANTS
    TypeOK
    Conservation
    ReceivesIntoEmpty
    FinMeansComplete
PROPERTIES
    EndIsPassedOn
    AllReleased
CHECK_DEADLOCK FALSE
