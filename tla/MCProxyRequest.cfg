CONSTANTS
    Requests <- MCRequests
    BufSize = 5
    MSS = 2
    TxSize = 1
    RxSize = 3
    MaxPayload = 3
    MaxFaults = 1
SPECIFICATION Spec
INVARIANTS
    TypeOK
    OneAnswer
    NothingUnauthenticated
    OnlyPromised
    EndMeansAnswered
    HandsOver
PROPERTIES
    AnswersHaveCause
    Answered
CHECK_DEADLOCK FALSE
