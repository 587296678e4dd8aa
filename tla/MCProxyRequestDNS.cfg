CONSTANTS
    Requests <- DNSRequests
    BufSize = 5
    MSS = 2
    TxSize = 1
    RxSize = 3
    MaxPayload = 3
    MaxFaults = 0
SPECIFICATION Spec
INVARIANTS
    DNSRedirected
CHECK_DEADLOCK FALSE
