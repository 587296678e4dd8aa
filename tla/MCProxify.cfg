CONSTANTS
    Setups <- All
    MaxBytes = 2
    MaxFaults = 1
SPECIFICATION Spec
INVARIANTS
    TypeOK
    SentOnce
    RepliesStripped
PROPERTIES
    RefusalIsPassedOn
    ServerHeard
CHECK_DEADLOCK FALSE
