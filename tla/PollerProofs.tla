--------------------------- MODULE PollerProofs ----------------------------
(***************************************************************************)
(* Proofs that the invariants of Poller hold for any number of reactors,   *)
(* descriptors and files and any depth of nesting.  IInv is inductive; the *)
(* lemmas below show, action by action, that a step preserves it.          *)
(***************************************************************************)
EXTENDS Poller, TLAPS

\* A number that is closed has no registration and an empty entry, so that the
\* next socket, accept4 or dup that returns it starts clean.
LEMMA ClosedNumber ==
    ASSUME IInv, NEW fd \in FD, openFile[fd] = NoFile
    PROVE  /\ fd \notin registered
           /\ reactorAt[fd] = NoReactor
           /\ \A f \in File : <<fd, f>> \notin epoll
<1>1. <<fd, NoFile>> \notin epoll
  BY NullAssumption DEF IInv, TypeOK
<1> QED
  BY <1>1, NullAssumption DEF IInv, TypeOK, EpollMirror, EntriesArmed

\* A non-null entry belongs to an open, armed descriptor, and its reactor is
\* live, active and entitled to it.
LEMMA ArmedNumber ==
    ASSUME IInv, NEW fd \in FD, reactorAt[fd] # NoReactor
    PROVE  /\ fd \in registered
           /\ openFile[fd] \in File
           /\ <<fd, openFile[fd]>> \in armed
           /\ reactorAt[fd] \in alive \cap active
           /\ \/ owner[fd] = reactorAt[fd]
              \/ reactorAt[fd] \in Deferrer /\ owner[fd] \in holds[reactorAt[fd]]
<1>1. <<fd, openFile[fd]>> \in armed
  BY DEF IInv, EntriesArmed
<1>2. openFile[fd] \in File
  BY <1>1, ClosedNumber DEF IInv, TypeOK
<1> QED
  BY <1>1, <1>2 DEF IInv, TypeOK, EpollMirror, DispatchSafe

\* The innermost handler belongs to a live reactor.
LEMMA TopAlive ==
    ASSUME IInv, InHandler
    PROVE  /\ Top \in alive
           /\ Top \in Reactor
           /\ OnStack(Top)
           /\ Tail(stack) \in Seq(Reactor)
<1>1. stack \in Seq(Reactor) /\ stack # <<>>
  BY DEF IInv, TypeOK, InHandler
<1>2. Len(stack) >= 1 /\ Top = stack[1]
  BY <1>1 DEF Top
<1> QED
  BY <1>1, <1>2 DEF IInv, TypeOK, References, OnStack

\* Popping the stack puts nobody on it.
LEMMA PopStack ==
    ASSUME IInv, InHandler, stack' = Tail(stack)
    PROVE  /\ \A i \in 1..Len(stack') : stack'[i] \in alive
           /\ \A r \in Reactor : OnStack(r)' => OnStack(r)
<1>1. stack \in Seq(Reactor) /\ stack # <<>>
  BY DEF IInv, TypeOK, InHandler
<1>2. /\ Len(stack') = Len(stack) - 1
      /\ \A i \in 1..Len(stack') : stack'[i] = stack[i + 1] /\ i + 1 \in 1..Len(stack)
  BY <1>1
<1> QED
  BY <1>2 DEF IInv, References, OnStack

\* Pushing a reactor puts only that one on the stack.
LEMMA PushStack ==
    ASSUME IInv, NEW r \in Reactor, stack' = <<r>> \o stack
    PROVE  /\ stack' \in Seq(Reactor)
           /\ \A i \in 1..Len(stack') : stack'[i] = r \/ stack'[i] \in alive
           /\ \A x \in Reactor : OnStack(x)' => x = r \/ OnStack(x)
<1>1. stack \in Seq(Reactor)
  BY DEF IInv, TypeOK
<1>2. /\ stack' \in Seq(Reactor)
      /\ Len(stack') = Len(stack) + 1
      /\ stack'[1] = r
      /\ \A i \in 2..Len(stack') : stack'[i] = stack[i - 1] /\ i - 1 \in 1..Len(stack)
  BY <1>1
<1> QED
  BY <1>1, <1>2 DEF IInv, References, OnStack

\* A step that fills no entry and pushes nobody leaves the deferrers waiting.
LEMMA DeferrersKept ==
    ASSUME IInv,
           \A fd \in FD : reactorAt'[fd] # NoReactor => reactorAt'[fd] = reactorAt[fd],
           \A r \in Reactor : OnStack(r)' => OnStack(r)
    PROVE  DeferrerWaits'
<1> SUFFICES ASSUME NEW d \in Deferrer, NEW fd \in FD, reactorAt'[fd] = d
             PROVE  /\ ~OnStack(d)'
                    /\ \A g \in FD : reactorAt'[g] = d => g = fd
  BY DEF DeferrerWaits
<1>1. d \in Reactor /\ d # NoReactor
  BY DeferrerAssumption, NullAssumption
<1>2. \A g \in FD : reactorAt'[g] = d => reactorAt[g] = d
  BY <1>1
<1> QED
  BY <1>1, <1>2 DEF IInv, DeferrerWaits

-----------------------------------------------------------------------------

\* Poller::remove of a set of descriptors keeps entries, flags and the
\* interest list in step.
LEMMA RemoveSound ==
    ASSUME IInv, NEW S \in SUBSET FD, Remove(S)
    PROVE  /\ epoll' \subseteq epoll /\ armed' \subseteq armed /\ armed' \subseteq epoll'
           /\ \A fd \in FD : fd \in registered' <=> <<fd, openFile[fd]>> \in epoll'
           /\ \A fd \in FD, f \in File :
                 <<fd, f>> \in armed' => fd \notin S /\ reactorAt'[fd] = reactorAt[fd]
           /\ \A fd \in FD : reactorAt'[fd] # NoReactor =>
                 /\ reactorAt'[fd] = reactorAt[fd]
                 /\ <<fd, openFile[fd]>> \in armed'
           /\ reactorAt' \in [FD -> Reactor \cup {NoReactor}]
           /\ registered' \subseteq FD
<1>1. /\ armed' \subseteq epoll'
      /\ epoll' \subseteq epoll /\ armed' \subseteq armed
      /\ reactorAt' \in [FD -> Reactor \cup {NoReactor}]
      /\ registered' \subseteq FD
  BY DEF Remove, Cleared, IInv, TypeOK
<1>2. \A fd \in FD : fd \in registered' <=> <<fd, openFile[fd]>> \in epoll'
  BY DEF Remove, Deleted, IInv, EpollMirror
<1>3. \A fd \in FD, f \in File :
         <<fd, f>> \in armed' => fd \notin S /\ reactorAt'[fd] = reactorAt[fd]
  BY DEF Remove, Deleted, Cleared, IInv, TypeOK, EpollMirror
<1>4. \A fd \in FD : reactorAt'[fd] # NoReactor =>
         reactorAt'[fd] = reactorAt[fd] /\ <<fd, openFile[fd]>> \in armed'
  BY ArmedNumber DEF Remove, Deleted, Cleared
<1> QED
  BY <1>1, <1>2, <1>3, <1>4

\* The same for remove followed by close: what the other descriptors
\* registered survives, whatever files the closed ones shared with them.
LEMMA CloseSound ==
    ASSUME IInv, NEW S \in SUBSET FD, RemoveAndClose(S)
    PROVE  /\ epoll' \subseteq epoll /\ armed' \subseteq armed /\ armed' \subseteq epoll'
           /\ EpollMirror'
           /\ EntriesArmed'
           /\ \A fd \in FD, f \in File :
                 <<fd, f>> \in armed' => fd \notin S /\ reactorAt'[fd] = reactorAt[fd]
           /\ \A fd \in FD : reactorAt'[fd] # NoReactor => reactorAt'[fd] = reactorAt[fd]
           /\ reactorAt' \in [FD -> Reactor \cup {NoReactor}]
           /\ openFile' \in [FD -> File \cup {NoFile}]
           /\ owner' \in [FD -> Reactor \cup {NoReactor}]
           /\ registered' \subseteq FD
<1>1. /\ armed' \subseteq epoll'
      /\ epoll' \subseteq epoll /\ armed' \subseteq armed
      /\ reactorAt' \in [FD -> Reactor \cup {NoReactor}]
      /\ openFile' \in [FD -> File \cup {NoFile}]
      /\ owner' \in [FD -> Reactor \cup {NoReactor}]
      /\ registered' \subseteq FD
  BY DEF RemoveAndClose, Survive, Cleared, IInv, TypeOK
<1>2. \A fd \in FD, f \in File : <<fd, f>> \in epoll' => fd \notin S
  BY DEF RemoveAndClose, Survive, Deleted, IInv, EpollMirror
<1>3. EpollMirror'
  <2>1. ASSUME NEW fd \in FD, NEW f \in File, <<fd, f>> \in epoll'
        PROVE  openFile'[fd] = f
    <3>1. <<fd, f>> \in epoll /\ fd \notin S
      BY <1>1, <1>2, <2>1
    <3> QED
      BY <3>1 DEF RemoveAndClose, IInv, EpollMirror
  <2>2. \A fd \in S : fd \notin registered' /\ <<fd, openFile'[fd]>> \notin epoll'
    <3>1. epoll' \subseteq FD \X File
      BY <1>1 DEF IInv, TypeOK
    <3>2. \A fd \in S : openFile'[fd] = NoFile /\ fd \notin registered'
      BY DEF RemoveAndClose
    <3> QED
      BY <3>1, <3>2, NullAssumption
  <2>3. ASSUME NEW fd \in FD \ S
        PROVE  fd \in registered' <=> <<fd, openFile'[fd]>> \in epoll'
    BY DEF RemoveAndClose, Survive, Deleted, IInv, EpollMirror
  <2> QED
    BY <2>1, <2>2, <2>3 DEF EpollMirror
<1>4. ASSUME NEW fd \in FD, reactorAt'[fd] # NoReactor
      PROVE  /\ reactorAt'[fd] = reactorAt[fd]
             /\ <<fd, openFile'[fd]>> \in armed'
  <2>1. fd \notin S /\ reactorAt'[fd] = reactorAt[fd]
    BY <1>4, ArmedNumber DEF RemoveAndClose, Cleared
  <2>2. <<fd, openFile[fd]>> \in armed \ Deleted(S)
    BY <1>4, <2>1, ArmedNumber DEF Deleted
  <2> QED
    BY <2>1, <2>2 DEF RemoveAndClose, Survive
<1>5. \A fd \in FD, f \in File :
         <<fd, f>> \in armed' => fd \notin S /\ reactorAt'[fd] = reactorAt[fd]
  BY <1>1, <1>2 DEF RemoveAndClose, Cleared
<1> QED
  BY <1>1, <1>3, <1>4, <1>5 DEF EntriesArmed

-----------------------------------------------------------------------------
(***************************************************************************)
(* One lemma per action.  Each states the conjuncts of IInv that the       *)
(* action can disturb as steps of their own.                               *)
(***************************************************************************)

\* Assigning a listener: a new reactor with one new descriptor starts to run.
LEMMA AssignListenerStep ==
    ASSUME IInv, NEW r \in Reactor, NEW fd \in FD, NEW f \in File,
           AssignListener(r, fd, f)
    PROVE  IInv'
<1>1. TypeOK' /\ LoopNeverReturns'
  BY DEF AssignListener, entries, IInv, TypeOK, LoopNeverReturns
<1>2. EpollMirror' /\ EntriesArmed'
  BY ClosedNumber DEF AssignListener, entries, IInv, TypeOK, EpollMirror, EntriesArmed
<1>3. DispatchSafe'
  <2>1. \A g \in File : <<fd, g>> \notin armed
    BY ClosedNumber DEF AssignListener, IInv, TypeOK
  <2> QED
    BY <2>1 DEF AssignListener, entries, IInv, TypeOK, DispatchSafe
<1>4. NoFDLeak'
  BY NullAssumption DEF AssignListener, IInv, TypeOK, NoFDLeak
<1>5. References'
  BY DEF AssignListener, IInv, TypeOK, References
<1>6. DeferrerWaits'
  BY DEF AssignListener, entries, OnStack, IInv, DeferrerWaits
<1> QED
  BY <1>1, <1>2, <1>3, <1>4, <1>5, <1>6 DEF IInv

\* socket, accept and dup: a new number has no entry and no registration yet.
LEMMA OpenFDStep ==
    ASSUME IInv, NEW fd \in FD, NEW f \in File, OpenFD(fd, f)
    PROVE  IInv'
<1>0. Top \in alive /\ Top \in Reactor
  BY TopAlive DEF OpenFD
<1>1. TypeOK' /\ LoopNeverReturns'
  BY <1>0 DEF OpenFD, entries, IInv, TypeOK, LoopNeverReturns
<1>2. EpollMirror' /\ EntriesArmed'
  BY ClosedNumber DEF OpenFD, entries, IInv, TypeOK, EpollMirror, EntriesArmed
<1>3. DispatchSafe'
  <2>1. \A g \in File : <<fd, g>> \notin armed
    BY ClosedNumber DEF OpenFD, IInv, TypeOK
  <2> QED
    BY <2>1 DEF OpenFD, entries, IInv, TypeOK, DispatchSafe
<1>4. NoFDLeak'
  BY <1>0, NullAssumption DEF OpenFD, IInv, TypeOK, NoFDLeak
<1>5. References' /\ DeferrerWaits'
  BY DEF OpenFD, entries, OnStack, IInv, TypeOK, References, DeferrerWaits
<1> QED
  BY <1>1, <1>2, <1>3, <1>4, <1>5 DEF IInv

\* A handler closes a number of its own reactor: entry and registration go with it.
LEMMA CloseFDStep ==
    ASSUME IInv, NEW fd \in FD, CloseFD(fd)
    PROVE  IInv'
<1>0. RemoveAndClose({fd})
  BY DEF CloseFD
<1>1. TypeOK'
  BY <1>0, CloseSound DEF CloseFD, IInv, TypeOK
<1>2. EpollMirror' /\ EntriesArmed' /\ LoopNeverReturns'
  BY <1>0, CloseSound DEF CloseFD, IInv, LoopNeverReturns
<1>3. DispatchSafe'
  <2>1. \A g \in FD \ {fd} : owner'[g] = owner[g]
    BY <1>0 DEF RemoveAndClose
  <2> QED
    BY <1>0, <2>1, CloseSound DEF CloseFD, IInv, DispatchSafe
<1>4. NoFDLeak'
  BY <1>0 DEF CloseFD, RemoveAndClose, IInv, NoFDLeak
<1>5. References'
  BY <1>0, NullAssumption, DeferrerAssumption DEF CloseFD, RemoveAndClose, IInv, References
<1>6. DeferrerWaits'
  BY <1>0, CloseSound, DeferrersKept DEF CloseFD, OnStack
<1> QED
  BY <1>1, <1>2, <1>3, <1>4, <1>5, <1>6 DEF IInv

\* Registering a descriptor arms its event and gives the entry a reactor.
LEMMA AddStep ==
    ASSUME IInv, NEW fd \in FD, Add(fd)
    PROVE  IInv'
<1>0. Top \in alive /\ Top \in Reactor /\ Top \in active /\ owner[fd] = Top
  BY TopAlive DEF Add
<1>1. openFile[fd] \in File /\ Top \notin Deferrer
  BY <1>0, NullAssumption DEF IInv, TypeOK, NoFDLeak, References
<1>2. TypeOK' /\ LoopNeverReturns'
  BY <1>0, <1>1 DEF Add, Register, objects, IInv, TypeOK, LoopNeverReturns
<1>3. EpollMirror' /\ EntriesArmed'
  BY <1>1 DEF Add, Register, IInv, TypeOK, EpollMirror, EntriesArmed
<1>4. DispatchSafe'
  BY <1>0 DEF Add, Register, objects, IInv, TypeOK, DispatchSafe
<1>5. NoFDLeak' /\ References'
  BY DEF Add, objects, IInv, NoFDLeak, References
<1>6. DeferrerWaits'
  BY <1>1 DEF Add, Register, OnStack, IInv, TypeOK, DeferrerWaits
<1> QED
  BY <1>2, <1>3, <1>4, <1>5, <1>6 DEF IInv

\* What Return, Escape and EnterLoop share: only the stack and the loop change.
LEMMA ReturnStep ==
    ASSUME IInv, Return \/ Escape
    PROVE  IInv'
<1>0. /\ InHandler /\ stack' = Tail(stack)
      /\ UNCHANGED <<kernel, entries, objects>>
      /\ loop' \in {"starting", "running", "exited"}
  BY DEF Return, Escape, InHandler
<1>1. TypeOK' /\ LoopNeverReturns'
  BY <1>0, TopAlive DEF kernel, entries, objects, IInv, TypeOK, LoopNeverReturns
<1>2. EpollMirror' /\ EntriesArmed' /\ DispatchSafe' /\ NoFDLeak'
  BY <1>0 DEF kernel, entries, objects, IInv, EpollMirror, EntriesArmed,
     DispatchSafe, NoFDLeak
<1>3. References'
  BY <1>0, PopStack DEF objects, IInv, References
<1>4. DeferrerWaits'
  BY <1>0, PopStack, DeferrersKept DEF entries
<1> QED
  BY <1>1, <1>2, <1>3, <1>4 DEF IInv

\* Entering the loop changes nothing but the loop.
LEMMA EnterLoopStep ==
    ASSUME IInv, EnterLoop
    PROVE  IInv'
BY DEF EnterLoop, kernel, entries, objects, OnStack, IInv, TypeOK, EpollMirror,
   EntriesArmed, DispatchSafe, NoFDLeak, References, DeferrerWaits, LoopNeverReturns

(***************************************************************************)
(* deactivate(): a non-deferrer loses the registrations of all its         *)
(* descriptors together with its flag; a deferrer that runs has none.      *)
(***************************************************************************)
LEMMA DeactivateSafe ==
    ASSUME IInv, NEW r \in alive, r \in Deferrer => OnStack(r),
           active' = active \ {r}, Remove(Owned(r)),
           UNCHANGED <<alive, owner, holds>>
    PROVE  EpollMirror' /\ EntriesArmed' /\ DispatchSafe' /\ NoFDLeak'
<1>0. Owned(r) \in SUBSET FD /\ openFile' = openFile
  BY DEF Owned, Remove
<1>1. EpollMirror' /\ EntriesArmed'
  BY <1>0, RemoveSound DEF IInv, EpollMirror, EntriesArmed
<1>2. NoFDLeak'
  BY <1>0 DEF IInv, NoFDLeak
<1>3. ASSUME NEW fd \in FD, NEW f \in File, <<fd, f>> \in armed'
      PROVE  /\ reactorAt'[fd] \in alive' \cap active'
             /\ \/ owner'[fd] = reactorAt'[fd]
                \/ reactorAt'[fd] \in Deferrer /\ owner'[fd] \in holds'[reactorAt'[fd]]
  <2>1. /\ reactorAt'[fd] = reactorAt[fd]
        /\ fd \notin Owned(r)
        /\ <<fd, f>> \in armed
    BY <1>0, <1>3, RemoveSound
  <2>2. reactorAt[fd] # r
    BY <2>1 DEF Owned, IInv, DispatchSafe, DeferrerWaits
  <2> QED
    BY <2>1, <2>2 DEF IInv, DispatchSafe
<1> QED
  BY <1>1, <1>2, <1>3 DEF DispatchSafe

\* deactivate: the entries of a reactor's descriptors go, its registrations with them.
LEMMA DeactivateStep ==
    ASSUME IInv, NEW r \in Reactor, Deactivate(r)
    PROVE  IInv'
<1>0. /\ r \in alive
      /\ r \in Deferrer => OnStack(r)
      /\ Owned(r) \in SUBSET FD
      /\ Remove(Owned(r)) /\ openFile' = openFile
  BY TopAlive DEF Deactivate, Remove, Owned, IInv, References
<1>1. EpollMirror' /\ EntriesArmed' /\ DispatchSafe' /\ NoFDLeak'
  BY <1>0, DeactivateSafe DEF Deactivate
<1>2. TypeOK' /\ LoopNeverReturns'
  BY <1>0, RemoveSound DEF Deactivate, IInv, TypeOK, LoopNeverReturns
<1>3. References'
  BY DEF Deactivate, IInv, References
<1>4. DeferrerWaits'
  BY <1>0, RemoveSound, DeferrersKept DEF Deactivate, OnStack
<1> QED
  BY <1>1, <1>2, <1>3, <1>4 DEF IInv

\* A handler that throws is over, and its reactor deactivated.
LEMMA ThrowStep ==
    ASSUME IInv, Throw
    PROVE  IInv'
<1>0. /\ InHandler /\ Top \in alive /\ OnStack(Top)
      /\ Owned(Top) \in SUBSET FD
      /\ Remove(Owned(Top)) /\ openFile' = openFile
  BY TopAlive DEF Throw, Remove, Owned
<1>1. EpollMirror' /\ EntriesArmed' /\ DispatchSafe' /\ NoFDLeak'
  BY <1>0, DeactivateSafe DEF Throw
<1>2. TypeOK' /\ LoopNeverReturns'
  BY <1>0, RemoveSound, TopAlive DEF Throw, IInv, TypeOK, LoopNeverReturns
<1>3. References'
  BY <1>0, PopStack DEF Throw, IInv, References
<1>4. DeferrerWaits'
  BY <1>0, RemoveSound, PopStack, DeferrersKept DEF Throw
<1> QED
  BY <1>1, <1>2, <1>3, <1>4 DEF IInv

\* A new reactor references its creator or what the creator references.
LEMMA SpawnStep ==
    ASSUME IInv, NEW r \in Reactor, NEW h \in SUBSET Reactor, Spawn(r, h)
    PROVE  IInv'
<1>0. /\ Top \in alive /\ r \notin alive /\ r \notin Deferrer
      /\ h \subseteq alive \ Deferrer
      /\ stack' = <<r>> \o stack
  BY TopAlive DEF Spawn, IInv, References
<1>1. TypeOK' /\ LoopNeverReturns'
  BY <1>0, PushStack DEF Spawn, kernel, entries, IInv, TypeOK, LoopNeverReturns
<1>2. EpollMirror' /\ EntriesArmed' /\ NoFDLeak'
  BY DEF Spawn, kernel, entries, IInv, EpollMirror, EntriesArmed, NoFDLeak
<1>3. DispatchSafe'
  BY <1>0 DEF Spawn, kernel, entries, IInv, TypeOK, DispatchSafe
<1>4. References'
  BY <1>0, PushStack DEF Spawn, IInv, TypeOK, References
<1>5. DeferrerWaits'
  BY <1>0, PushStack, DeferrerAssumption DEF Spawn, entries, IInv, DeferrerWaits
<1> QED
  BY <1>1, <1>2, <1>3, <1>4, <1>5 DEF IInv

\* A deferrer is armed for a descriptor of the reactor it references.
LEMMA SpawnDeferredStep ==
    ASSUME IInv, NEW u \in Reactor, NEW d \in Reactor, NEW fd \in FD, NEW f \in File,
           SpawnDeferred(u, d, fd, f)
    PROVE  IInv'
<1>0. /\ Top \in alive /\ Top \in Reactor /\ Top \notin Deferrer
      /\ u \notin alive /\ u \notin Deferrer
      /\ d \notin alive /\ d \in Deferrer
      /\ \A g \in FD : reactorAt[g] # d /\ owner[g] # u
      /\ ~OnStack(d)
  <2>1. /\ InHandler /\ Top \notin Deferrer
        /\ u \notin alive /\ u \notin Deferrer
        /\ d \notin alive /\ d \in Deferrer
    BY DEF SpawnDeferred
  <2>2. \A g \in FD : reactorAt[g] # d
    BY <2>1, ArmedNumber, NullAssumption
  <2>3. \A g \in FD : owner[g] # u
    BY <2>1, NullAssumption DEF IInv, NoFDLeak
  <2>4. ~OnStack(d)
    BY <2>1 DEF OnStack, IInv, References
  <2> QED
    BY <2>1, <2>2, <2>3, <2>4, TopAlive
<1>1. TypeOK' /\ LoopNeverReturns'
  <2>1. holds' \in [Reactor -> SUBSET Reactor]
    BY <1>0 DEF SpawnDeferred, IInv, TypeOK
  <2>2. epoll' \subseteq FD \X File /\ armed' \subseteq epoll'
    BY DEF SpawnDeferred, Register, IInv, TypeOK
  <2> QED
    BY <2>1, <2>2 DEF SpawnDeferred, Register, IInv, TypeOK, LoopNeverReturns
<1>2. EpollMirror' /\ EntriesArmed'
  BY ClosedNumber DEF SpawnDeferred, Register, IInv, TypeOK, EpollMirror, EntriesArmed
<1>3. DispatchSafe'
  <2>1. \A g \in File : <<fd, g>> \notin armed
    BY ClosedNumber DEF SpawnDeferred, IInv, TypeOK
  <2>2. ASSUME NEW x \in FD, NEW g \in File, <<x, g>> \in armed', x # fd
        PROVE  /\ <<x, g>> \in armed
               /\ reactorAt'[x] = reactorAt[x]
               /\ owner'[x] = owner[x]
               /\ reactorAt[x] \in alive => holds'[reactorAt[x]] = holds[reactorAt[x]]
    BY <1>0, <2>2 DEF SpawnDeferred, Register, IInv, TypeOK
  <2>3. /\ reactorAt'[fd] = d /\ d \in alive' \cap active'
        /\ owner'[fd] \in holds'[d]
    BY <1>0 DEF SpawnDeferred, Register, IInv, TypeOK
  <2>4. alive \subseteq alive' /\ active \subseteq active'
    BY DEF SpawnDeferred
  <2> QED
    BY <1>0, <2>2, <2>3, <2>4 DEF IInv, DispatchSafe
<1>4. NoFDLeak'
  BY <1>0, NullAssumption DEF SpawnDeferred, IInv, TypeOK, NoFDLeak
<1>5. References'
  BY <1>0 DEF SpawnDeferred, IInv, TypeOK, References
<1>6. DeferrerWaits'
  BY <1>0 DEF SpawnDeferred, Register, OnStack, IInv, TypeOK, DeferrerWaits
<1> QED
  BY <1>1, <1>2, <1>3, <1>4, <1>5, <1>6 DEF IInv

\* A nested handler runs as a reactor that its caller references.
LEMMA RunAsStep ==
    ASSUME IInv, NEW r \in Reactor, RunAs(r)
    PROVE  IInv'
<1>0. /\ r \in alive /\ r \notin Deferrer
      /\ stack' = <<r>> \o stack
      /\ UNCHANGED <<kernel, entries, objects, loop>>
  BY TopAlive DEF RunAs, IInv, References
<1>1. TypeOK' /\ LoopNeverReturns'
  BY <1>0, PushStack DEF kernel, entries, objects, IInv, TypeOK, LoopNeverReturns
<1>2. EpollMirror' /\ EntriesArmed' /\ DispatchSafe' /\ NoFDLeak'
  BY <1>0 DEF kernel, entries, objects, IInv, EpollMirror, EntriesArmed,
     DispatchSafe, NoFDLeak
<1>3. References'
  BY <1>0, PushStack DEF objects, IInv, References
<1>4. DeferrerWaits'
  BY <1>0, PushStack, DeferrerAssumption DEF entries, IInv, DeferrerWaits
<1> QED
  BY <1>1, <1>2, <1>3, <1>4 DEF IInv

\* Dropping a reference leaves all others alone.
LEMMA DropRefStep ==
    ASSUME IInv, NEW r \in Reactor, DropRef(r)
    PROVE  IInv'
<1>0. Top \in alive /\ Top \in Reactor /\ Top \notin Deferrer
  BY TopAlive DEF DropRef
<1>1. TypeOK' /\ LoopNeverReturns'
  BY <1>0 DEF DropRef, kernel, entries, IInv, TypeOK, LoopNeverReturns
<1>2. EpollMirror' /\ EntriesArmed' /\ NoFDLeak'
  BY DEF DropRef, kernel, entries, IInv, EpollMirror, EntriesArmed, NoFDLeak
<1>3. DispatchSafe'
  BY <1>0 DEF DropRef, kernel, entries, IInv, TypeOK, DispatchSafe
<1>4. References' /\ DeferrerWaits'
  BY <1>0 DEF DropRef, entries, OnStack, IInv, TypeOK, References, DeferrerWaits
<1> QED
  BY <1>1, <1>2, <1>3, <1>4 DEF IInv

\* The event loop: by DispatchSafe the branch that leaves the loop is dead.
LEMMA DispatchStep ==
    ASSUME IInv, NEW fd \in FD, NEW f \in File, Dispatch(fd, f)
    PROVE  IInv'
<1>0. /\ reactorAt[fd] \in alive \cap active
      /\ reactorAt[fd] \in Reactor
      /\ openFile[fd] = f
  BY DEF Dispatch, IInv, TypeOK, DispatchSafe, EpollMirror
<1>1. /\ stack' = <<reactorAt[fd]>>
      /\ loop' = loop
      /\ armed' = armed \ {<<fd, f>>}
      /\ reactorAt' = [reactorAt EXCEPT ![fd] = NoReactor]
      /\ UNCHANGED <<openFile, epoll, registered, objects>>
  BY <1>0 DEF Dispatch
<1>2. TypeOK' /\ LoopNeverReturns'
  <2>1. stack' \in Seq(Reactor)
    BY <1>0, <1>1
  <2> QED
    BY <1>1, <2>1 DEF objects, IInv, TypeOK, LoopNeverReturns
<1>3. EpollMirror' /\ NoFDLeak'
  BY <1>1 DEF objects, IInv, EpollMirror, NoFDLeak
<1>4. EntriesArmed'
  BY <1>1 DEF IInv, TypeOK, EntriesArmed
<1>5. DispatchSafe'
  <2>1. \A g \in File : <<fd, g>> \notin armed'
    BY <1>0, <1>1 DEF IInv, TypeOK, EpollMirror
  <2> QED
    BY <1>1, <2>1 DEF objects, IInv, TypeOK, DispatchSafe
<1>6. References'
  BY <1>0, <1>1 DEF objects, IInv, References
<1>7. DeferrerWaits'
  <2>1. \A d \in Deferrer, g \in FD : reactorAt'[g] = d => reactorAt[g] = d /\ g # fd
    BY <1>1, DeferrerAssumption, NullAssumption DEF IInv, TypeOK
  <2>2. \A d \in Deferrer : OnStack(d)' => d = reactorAt[fd]
    BY <1>1 DEF OnStack
  <2> QED
    BY <2>1, <2>2 DEF IInv, DeferrerWaits
<1> QED
  BY <1>2, <1>3, <1>4, <1>5, <1>6, <1>7 DEF IInv

\* A reactor that nothing references takes its descriptors and references along.
LEMMA DestroyStep ==
    ASSUME IInv, NEW r \in Reactor, Destroy(r)
    PROVE  IInv'
<1>0. /\ RemoveAndClose(Owned(r)) /\ Owned(r) \in SUBSET FD
      /\ r \in alive /\ ~OnStack(r)
      /\ \A fd \in FD : reactorAt[fd] # r
      /\ \A q \in alive : r \notin holds[q]
  BY DEF Destroy, Unreferenced, Owned
<1>1. TypeOK' /\ LoopNeverReturns'
  BY <1>0, CloseSound DEF Destroy, IInv, TypeOK, LoopNeverReturns
<1>2. EpollMirror' /\ EntriesArmed'
  BY <1>0, CloseSound
<1>3. DispatchSafe'
  <2>1. \A fd \in FD \ Owned(r) : owner'[fd] = owner[fd]
    BY <1>0 DEF RemoveAndClose
  <2>2. \A q \in Reactor \ {r} : holds'[q] = holds[q]
    BY DEF Destroy, IInv, TypeOK
  <2>3. ASSUME NEW fd \in FD, NEW f \in File, <<fd, f>> \in armed'
        PROVE  /\ reactorAt'[fd] = reactorAt[fd]
               /\ <<fd, f>> \in armed
               /\ owner'[fd] = owner[fd]
               /\ reactorAt[fd] # r
    BY <1>0, <2>1, <2>3, CloseSound
  <2>4. alive' = alive \ {r} /\ active' = active
    BY DEF Destroy
  <2> QED
    BY <2>2, <2>3, <2>4 DEF IInv, TypeOK, DispatchSafe
<1>4. NoFDLeak'
  BY <1>0, NullAssumption DEF Destroy, RemoveAndClose, Owned, IInv, TypeOK, NoFDLeak
<1>5. References'
  BY <1>0, NullAssumption, DeferrerAssumption
  DEF Destroy, RemoveAndClose, OnStack, IInv, TypeOK, References
<1>6. DeferrerWaits'
  BY <1>0, CloseSound, DeferrersKept DEF Destroy, OnStack
<1> QED
  BY <1>1, <1>2, <1>3, <1>4, <1>5, <1>6 DEF IInv

-----------------------------------------------------------------------------

\* The inductive invariant of the event core.
THEOREM PollerInvariant == Spec => []IInv
<1>1. Init => IInv
  <2> SUFFICES ASSUME Init PROVE IInv
    OBVIOUS
  <2>1. TypeOK /\ LoopNeverReturns /\ NoFDLeak /\ References
    BY NullAssumption, DeferrerAssumption
    DEF Init, TypeOK, LoopNeverReturns, NoFDLeak, References
  <2>2. EpollMirror /\ DispatchSafe /\ EntriesArmed
    BY DEF Init, EpollMirror, DispatchSafe, EntriesArmed
  <2>3. DeferrerWaits
    BY NullAssumption, DeferrerAssumption DEF Init, DeferrerWaits
  <2> QED
    BY <2>1, <2>2, <2>3 DEF IInv
<1>2. IInv /\ [Next]_vars => IInv'
  <2>1. CASE UNCHANGED vars
    BY <2>1 DEF vars, kernel, entries, objects, OnStack, IInv, TypeOK, EpollMirror,
       DispatchSafe, LoopNeverReturns, NoFDLeak, EntriesArmed, References, DeferrerWaits
  <2>2. CASE Next
    BY <2>2, AssignListenerStep, EnterLoopStep, OpenFDStep, CloseFDStep, AddStep,
       ReturnStep, DeactivateStep, ThrowStep, SpawnStep, SpawnDeferredStep, RunAsStep,
       DropRefStep, DispatchStep, DestroyStep
    DEF Next
  <2> QED
    BY <2>1, <2>2
<1> QED
  BY <1>1, <1>2, PTL DEF Spec

\* Type correctness of the event core.
THEOREM PollerTypeCorrect == Spec => []TypeOK
BY PollerInvariant, PTL DEF IInv

\* An entry of fdEntries references a reactor only while its event is pending
\* (poller.cc:57, 71, 107-108): no reactor is kept by an entry that never fires.
THEOREM PollerEntriesArmed == Spec => []EntriesArmed
BY PollerInvariant, PTL DEF IInv

\* fdEntries and the kernel's interest list agree (poller.cc:45-48, 68-71).
THEOREM PollerMirrorsEpoll == Spec => []EpollMirror
BY PollerInvariant, PTL DEF IInv

\* Every event that can be delivered finds a live and active reactor entitled
\* to the descriptor (poller.cc:107-113).
THEOREM PollerDispatchSafe == Spec => []DispatchSafe
BY PollerInvariant, PTL DEF IInv

\* The "return" of threadFun is never taken (poller.cc:110-111).
THEOREM PollerLoopNeverReturns == Spec => []LoopNeverReturns
BY PollerInvariant, PTL DEF IInv

\* Descriptors are open exactly while a live reactor owns them.
THEOREM PollerNoFDLeak == Spec => []NoFDLeak
BY PollerInvariant, PTL DEF IInv

-----------------------------------------------------------------------------
(***************************************************************************)
(* Reference counts reclaim everything that is not in a cycle.  A set of   *)
(* live reactors always has a member that no member of it references: a    *)
(* reactor gets its references from its constructor, when nobody can       *)
(* reference it yet, and loses them only.                                  *)
(***************************************************************************)
Acyclic == \A S \in SUBSET alive : S # {} => \E r \in S : \A q \in S : r \notin holds[q]

\* References that existed before the step form no cycle after it.
LEMMA AcyclicOld ==
    ASSUME Acyclic, NEW S \in SUBSET alive, S # {},
           \A q \in S : holds'[q] \subseteq holds[q]
    PROVE  \E r \in S : \A q \in S : r \notin holds'[q]
BY DEF Acyclic

\* Steps that construct nothing add no reference.
LEMMA AcyclicKept ==
    ASSUME Acyclic, alive' \subseteq alive, \A q \in alive' : holds'[q] \subseteq holds[q]
    PROVE  Acyclic'
<1> SUFFICES ASSUME NEW S \in SUBSET alive', S # {}
             PROVE  \E r \in S : \A q \in S : r \notin holds'[q]
  BY DEF Acyclic
<1>1. S \in SUBSET alive /\ \A q \in S : holds'[q] \subseteq holds[q]
  OBVIOUS
<1> QED
  BY <1>1, AcyclicOld

\* A new reactor closes no cycle: nobody references it.
LEMMA AcyclicSpawn ==
    ASSUME IInv, Acyclic, NEW r \in Reactor \ alive, NEW h \in SUBSET alive,
           alive' = alive \cup {r},
           \A q \in alive : holds'[q] = holds[q], holds'[r] = h
    PROVE  Acyclic'
<1> SUFFICES ASSUME NEW S \in SUBSET (alive \cup {r}), S # {}
             PROVE  \E x \in S : \A q \in S : x \notin holds'[q]
  BY DEF Acyclic
<1>1. CASE r \in S
  BY <1>1 DEF IInv, References
<1>2. CASE r \notin S
  <2>1. S \in SUBSET alive /\ \A q \in S : holds'[q] \subseteq holds[q]
    BY <1>2
  <2> QED
    BY <2>1, AcyclicOld
<1> QED
  BY <1>1, <1>2

\* The pair of an upstreamer and its deferrer closes no cycle either.
LEMMA AcyclicSpawnDeferred ==
    ASSUME IInv, Acyclic, NEW u \in Reactor, NEW d \in Reactor, NEW fd \in FD, NEW f \in File,
           SpawnDeferred(u, d, fd, f)
    PROVE  Acyclic'
<1>1. /\ Top \in alive /\ u \notin alive /\ d \notin alive /\ u # d
      /\ alive' = alive \cup {u, d}
      /\ holds' = [holds EXCEPT ![u] = {Top}, ![d] = {u}]
  BY TopAlive DEF SpawnDeferred
<1>2. holds \in [Reactor -> SUBSET Reactor] /\ alive \subseteq Reactor
  BY DEF IInv, TypeOK
<1>3. /\ \A q \in alive : holds'[q] = holds[q] /\ u \notin holds[q] /\ d \notin holds[q]
      /\ holds'[u] = {Top} /\ holds'[d] = {u}
  BY <1>1, <1>2 DEF IInv, References
<1> SUFFICES ASSUME NEW S \in SUBSET (alive \cup {u, d}), S # {}
             PROVE  \E x \in S : \A q \in S : x \notin holds'[q]
  BY <1>1 DEF Acyclic
<1>4. CASE d \in S
  BY <1>1, <1>3, <1>4
<1>5. CASE d \notin S /\ u \in S
  BY <1>1, <1>3, <1>5
<1>6. CASE d \notin S /\ u \notin S
  <2>1. S \in SUBSET alive /\ \A q \in S : holds'[q] \subseteq holds[q]
    BY <1>3, <1>6
  <2> QED
    BY <2>1, AcyclicOld
<1> QED
  BY <1>4, <1>5, <1>6

\* Every step keeps the references free of cycles.
LEMMA AcyclicStep == IInv /\ Acyclic /\ [Next]_vars => Acyclic'
<1> SUFFICES ASSUME IInv, Acyclic, [Next]_vars PROVE Acyclic'
  OBVIOUS
<1>1. holds \in [Reactor -> SUBSET Reactor] /\ alive \subseteq Reactor
  BY DEF IInv, TypeOK
<1>2. ASSUME alive' = alive, holds' = holds PROVE Acyclic'
  BY <1>2, AcyclicKept
<1>3. CASE UNCHANGED vars
  BY <1>2, <1>3 DEF vars, objects
<1>4. ASSUME NEW r \in Reactor, NEW fd \in FD, NEW f \in File, AssignListener(r, fd, f)
      PROVE  Acyclic'
  <2>1. /\ r \in Reactor \ alive /\ alive' = alive \cup {r} /\ holds' = holds
        /\ holds[r] = {}
    BY <1>4 DEF AssignListener, IInv, References
  <2> QED
    BY <2>1, AcyclicSpawn
<1>5. ASSUME NEW r \in Reactor, NEW h \in SUBSET Reactor, Spawn(r, h) PROVE Acyclic'
  <2>1. r \in Reactor \ alive /\ alive' = alive \cup {r} /\ holds' = [holds EXCEPT ![r] = h]
    BY <1>5 DEF Spawn
  <2>2. h \in SUBSET alive
    BY <1>5, TopAlive DEF Spawn, IInv, References
  <2>3. (\A q \in alive : holds'[q] = holds[q]) /\ holds'[r] = h
    BY <1>1, <2>1
  <2> QED
    BY <2>1, <2>2, <2>3, AcyclicSpawn
<1>6. ASSUME NEW r \in Reactor, DropRef(r) PROVE Acyclic'
  <2>1. alive' = alive /\ holds' = [holds EXCEPT ![Top] = holds[Top] \ {r}]
    BY <1>6 DEF DropRef
  <2>2. \A q \in alive' : holds'[q] \subseteq holds[q]
    BY <1>1, <2>1
  <2> QED
    BY <2>1, <2>2, AcyclicKept
<1>7. ASSUME NEW r \in Reactor, Destroy(r) PROVE Acyclic'
  <2>1. alive' = alive \ {r} /\ holds' = [holds EXCEPT ![r] = {}]
    BY <1>7 DEF Destroy
  <2>2. \A q \in alive' : holds'[q] \subseteq holds[q]
    BY <1>1, <2>1
  <2> QED
    BY <2>1, <2>2, AcyclicKept
<1>8. ASSUME \/ EnterLoop \/ Return \/ Throw \/ Escape
             \/ \E fd \in FD, f \in File : OpenFD(fd, f) \/ Dispatch(fd, f)
             \/ \E fd \in FD : CloseFD(fd) \/ Add(fd)
             \/ \E r \in Reactor : Deactivate(r) \/ RunAs(r)
      PROVE  alive' = alive /\ holds' = holds
  BY <1>8 DEF EnterLoop, Return, Throw, Escape, OpenFD, Dispatch, CloseFD, Add, Deactivate,
     RunAs, objects
<1>9. CASE Next
  BY <1>2, <1>4, <1>5, <1>6, <1>7, <1>8, <1>9, AcyclicSpawnDeferred DEF Next
<1> QED
  BY <1>3, <1>9

\* Whenever the loop waits, every live reactor is reachable from an armed entry:
\* those that are not would each be referenced by another one of them, so they
\* would contain a cycle (reactor.hh:20, poller.cc:107-113).
THEOREM PollerNoLostReactor == Spec => []NoLostReactor
<1>1. Init => Acyclic
  BY DEF Init, Acyclic
<1>2. IInv /\ Acyclic => NoLostReactor
  <2> SUFFICES ASSUME IInv, Acyclic, stack = <<>>, Unreferenced = {},
                      NEW S \in SUBSET alive,
                      \A fd \in FD : reactorAt[fd] # NoReactor => reactorAt[fd] \in S,
                      \A r \in S : holds[r] \subseteq S,
                      alive \ S # {}
               PROVE  FALSE
    BY DEF NoLostReactor
  <2>1. PICK r \in alive \ S : \A q \in alive \ S : r \notin holds[q]
    BY DEF Acyclic
  <2>2. ~OnStack(r)
    BY DEF OnStack
  <2>3. ASSUME NEW q \in alive PROVE r \notin holds[q]
    BY <2>1
  <2>4. ASSUME NEW fd \in FD PROVE reactorAt[fd] # r
    <3>1. r # NoReactor
      BY NullAssumption DEF IInv, TypeOK
    <3> QED
      BY <3>1
  <2> QED
    BY <2>1, <2>2, <2>3, <2>4 DEF Unreferenced
<1> QED
  BY <1>1, <1>2, AcyclicStep, PollerInvariant, PTL DEF Spec

=============================================================================
