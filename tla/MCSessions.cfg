CONSTANTS
    Conn = {c1, c2}
    Agent = Agent
    NoSession = NoSession
    MaxSession = 4
    MaxRestart = 2
    MaxFailure = 1
SPECIFICATION Spec
INVARIANTS
    TypeOK
    LockDiscipline
    AsksOnlyWithout
PROPERTIES
    DiscardsOnlyDead
    SessionRegained
