CONSTANTS
    r1 = r1
    r2 = r2
    r3 = r3
    d1 = d1
    Reactor = {r1, r2, r3, d1}
    Deferrer = {d1}
    FD = {fd1, fd2, fd3}
    File = {f1, f2}
    NoReactor = NoReactor
    NoFile = NoFile
    MaxDepth = 3
SPECIFICATION Spec
SYMMETRY Symmetry
INVARIANTS
    EpollMirror
    DispatchSafe
    LoopNeverReturns
    NoLostReactor
    EntriesArmed
    NoFDLeak
CHECK_DEADLOCK FALSE
