------------------------------- MODULE Poller -------------------------------
(***************************************************************************)
(* The event core of sixtysocks: the poller (core/poller.cc, poller.hh),   *)
(* the life cycle of its reactors (core/reactor.hh, stickreactor.cc,       *)
(* streamreactor.cc, listenreactor.cc) and the descriptors they own        *)
(* (core/uniqfd.hh), over the kernel's epoll.                              *)
(*                                                                         *)
(* One thread runs everything: main() calls threadFun itself               *)
(* (sixtysocks.cc:233).  A handler is a frame of "stack"; the frame on top *)
(* takes steps, each of which is one call that the reactors of the program *)
(* make on the poller, on a descriptor or on another reactor.  Which calls *)
(* a handler makes, in which order, is left open.                          *)
(*                                                                         *)
(* The kernel keys an epoll registration by the pair of a descriptor       *)
(* number and an open file, and drops it by itself only when the last      *)
(* descriptor of the file is closed.  As the reactors of a connection dup  *)
(* each other's sockets, a number that is closed without a call of remove  *)
(* would keep its registration, and could be handed out again.             *)
(***************************************************************************)
EXTENDS Naturals, Sequences, FiniteSets

CONSTANTS
    Reactor,      \* identities of reactor objects, reused after destruction
    Deferrer,     \* the reactors that are ReadableDeferReactors
    FD,           \* descriptor numbers below expectedFDs
    File,         \* open files (sockets), reused when no descriptor is left
    NoReactor,    \* a null intrusive_ptr
    NoFile,       \* what a closed descriptor number refers to
    MaxDepth      \* bound: handlers nested through assign and runAs

ASSUME DeferrerAssumption == Deferrer \subseteq Reactor
ASSUME NullAssumption == NoReactor \notin Reactor /\ NoFile \notin File
ASSUME DepthAssumption == MaxDepth \in Nat \ {0}

VARIABLES
    openFile,     \* kernel: the file of each descriptor number
    epoll,        \* kernel: the interest list, pairs <<number, file>>
    armed,        \* kernel: the pairs whose EPOLLONESHOT event is pending
    reactorAt,    \* fdEntries[fd].reactor
    registered,   \* the numbers fd with fdEntries[fd].registered
    alive,        \* constructed and not destroyed
    active,       \* Reactor::active
    owner,        \* the reactor whose UniqFD member holds the number
    holds,        \* the intrusive_ptr members of a reactor
    stack,        \* the handlers that are running, innermost first
    loop          \* where main() is

kernel  == <<openFile, epoll, armed>>
entries == <<reactorAt, registered>>
objects == <<alive, active, owner, holds>>
vars    == <<kernel, entries, objects, stack, loop>>

-----------------------------------------------------------------------------

OnStack(r) == \E i \in 1..Len(stack) : stack[i] = r

Top == Head(stack)

Owned(r) == {fd \in FD : owner[fd] = r}

(***************************************************************************)
(* A reactor whose reference count is 0.  Its destructor runs at once:     *)
(* every other step waits until there is none.                             *)
(***************************************************************************)
Unreferenced == {r \in alive : /\ ~OnStack(r)
                               /\ \A fd \in FD : reactorAt[fd] # r
                               /\ \A q \in alive : r \notin holds[q]}

InHandler == /\ stack # <<>>
             /\ Unreferenced = {}
             /\ loop \in {"starting", "running"}

(***************************************************************************)
(* Poller::add for an active reactor: epoll_ctl MOD when the entry says    *)
(* "registered", ADD otherwise.  The kernel refuses an ADD of a pair that  *)
(* is in the interest list and a MOD of one that is not; add then throws.  *)
(***************************************************************************)
Register(r, fd, f) ==
    /\ (fd \in registered) <=> (<<fd, f>> \in epoll)
    /\ epoll' = epoll \cup {<<fd, f>>}
    /\ armed' = armed \cup {<<fd, f>>}
    /\ reactorAt' = [reactorAt EXCEPT ![fd] = r]
    /\ registered' = registered \cup {fd}

\* The interest-list pairs that Poller::remove deletes for the numbers S.
Deleted(S) == {<<fd, openFile[fd]>> : fd \in S \cap registered}

\* Poller::remove leaves a null entry behind.
Cleared(S) ==
    [fd \in FD |-> IF fd \in S \cap registered THEN NoReactor ELSE reactorAt[fd]]

\* A deactivate that forgets its call of remove.
RemoveNothing(S) == UNCHANGED <<kernel, entries>>

\* Poller::remove of every number in S; the descriptors stay open.
Remove(S) ==
    /\ epoll' = epoll \ Deleted(S)
    /\ armed' = armed \ Deleted(S)
    /\ reactorAt' = Cleared(S)
    /\ registered' = registered \ S
    /\ UNCHANGED openFile

\* The pairs the kernel keeps when the numbers S are closed: those of files
\* that some other number still refers to.
Survive(pairs, S) == {p \in pairs : \E fd \in FD \ S : openFile[fd] = p[2]}

\* A close that relies on the kernel to drop the registration.
CloseOnly(S) ==
    /\ openFile' = [fd \in FD |-> IF fd \in S THEN NoFile ELSE openFile[fd]]
    /\ owner' = [fd \in FD |-> IF fd \in S THEN NoReactor ELSE owner[fd]]
    /\ epoll' = Survive(epoll, S)
    /\ armed' = Survive(armed, S)
    /\ UNCHANGED entries

\* close(2) of the numbers in S after a remove of each (the destructors, and
\* the reset() calls of StreamReactor::process).
RemoveAndClose(S) ==
    /\ openFile' = [fd \in FD |-> IF fd \in S THEN NoFile ELSE openFile[fd]]
    /\ owner' = [fd \in FD |-> IF fd \in S THEN NoReactor ELSE owner[fd]]
    /\ epoll' = Survive(epoll \ Deleted(S), S)
    /\ armed' = Survive(armed \ Deleted(S), S)
    /\ reactorAt' = Cleared(S)
    /\ registered' = registered \ S

-----------------------------------------------------------------------------

Init == /\ openFile = [fd \in FD |-> NoFile]
        /\ epoll = {}
        /\ armed = {}
        /\ reactorAt = [fd \in FD |-> NoReactor]
        /\ registered = {}
        /\ alive = {}
        /\ active = {}
        /\ owner = [fd \in FD |-> NoReactor]
        /\ holds = [r \in Reactor |-> {}]
        /\ stack = <<>>
        /\ loop = "starting"

(***************************************************************************)
(* main() constructs a listener (its socket included) and assigns it; two  *)
(* of them when the proxy listens for TLS too.                             *)
(***************************************************************************)
AssignListener(r, fd, f) ==
    /\ loop = "starting"
    /\ stack = <<>>
    /\ Unreferenced = {}
    /\ r \notin alive /\ r \notin Deferrer
    /\ openFile[fd] = NoFile
    /\ \A g \in FD : openFile[g] # f
    /\ openFile' = [openFile EXCEPT ![fd] = f]
    /\ owner' = [owner EXCEPT ![fd] = r]
    /\ alive' = alive \cup {r}
    /\ active' = active \cup {r}
    /\ stack' = <<r>>
    /\ UNCHANGED <<epoll, armed, entries, holds, loop>>

\* main() calls threadFun.
EnterLoop ==
    /\ loop = "starting"
    /\ stack = <<>>
    /\ Unreferenced = {}
    /\ loop' = "running"
    /\ UNCHANGED <<kernel, entries, objects, stack>>

\* socket, accept4 (a fresh file) or dup (a file that is open already).
OpenFD(fd, f) ==
    /\ InHandler
    /\ Top \notin Deferrer
    /\ openFile[fd] = NoFile
    /\ openFile' = [openFile EXCEPT ![fd] = f]
    /\ owner' = [owner EXCEPT ![fd] = Top]
    /\ UNCHANGED <<epoll, armed, entries, alive, active, holds, stack, loop>>

\* poller->remove(fd); fd.reset() in a handler.
CloseFD(fd) ==
    /\ InHandler
    /\ owner[fd] = Top
    /\ RemoveAndClose({fd})
    /\ UNCHANGED <<alive, active, holds, stack, loop>>

\* A call of add that does not ask whether the reactor is active.
AddAlways(fd) ==
    /\ InHandler
    /\ owner[fd] = Top
    /\ Register(Top, fd, openFile[fd])
    /\ UNCHANGED <<openFile, objects, stack, loop>>

(***************************************************************************)
(* poller->add(this, fd, events), from a handler or for the                *)
(* RescheduleException that runAs catches.  For an inactive reactor        *)
(* runIfActive makes it a no-op.                                           *)
(***************************************************************************)
Add(fd) ==
    /\ InHandler
    /\ owner[fd] = Top
    /\ Top \in active
    /\ Register(Top, fd, openFile[fd])
    /\ UNCHANGED <<openFile, objects, stack, loop>>

\* The innermost handler returns.
Return ==
    /\ InHandler
    /\ stack' = Tail(stack)
    /\ UNCHANGED <<kernel, entries, objects, loop>>

\* deactivate() of the running reactor or of one it holds (AuthServer and its
\* upstreamer): the flag, then remove for every descriptor it owns.
Deactivate(r) ==
    /\ InHandler
    /\ r \in {Top} \cup (IF Top \in Deferrer THEN {} ELSE holds[Top])
    /\ active' = active \ {r}
    /\ Remove(Owned(r))
    /\ UNCHANGED <<alive, owner, holds, stack, loop>>

\* runAs catches a std::exception of the innermost handler.
Throw ==
    /\ InHandler
    /\ active' = active \ {Top}
    /\ Remove(Owned(Top))
    /\ stack' = Tail(stack)
    /\ UNCHANGED <<alive, owner, holds, loop>>

(***************************************************************************)
(* add throws (epoll_ctl fails) inside the catch block of runAs, on behalf *)
(* of a RescheduleException: the new exception leaves runAs and is thrown  *)
(* in the handler that called it, or ends the program when it was the last *)
(* one.                                                                    *)
(***************************************************************************)
Escape ==
    /\ InHandler
    /\ stack' = Tail(stack)
    /\ loop' = IF Tail(stack) = <<>> THEN "exited" ELSE loop
    /\ UNCHANGED <<kernel, entries, objects>>

\* A constructor that also gives its creator a reference to the new reactor.
SpawnHeldBack(r, h) ==
    /\ InHandler
    /\ Len(stack) < MaxDepth
    /\ Top \notin Deferrer
    /\ r \notin alive /\ r \notin Deferrer
    /\ h \subseteq {Top} \cup holds[Top]
    /\ alive' = alive \cup {r}
    /\ active' = active \cup {r}
    /\ holds' = [holds EXCEPT ![r] = h, ![Top] = @ \cup {r}]
    /\ stack' = <<r>> \o stack
    /\ UNCHANGED <<kernel, entries, owner, loop>>

(***************************************************************************)
(* poller->assign(new ...): the new reactor references its creator or what *)
(* the creator references (the listener, the upstreamer), and is started.  *)
(* The descriptors that its constructor opens are OpenFD steps.            *)
(***************************************************************************)
Spawn(r, h) ==
    /\ InHandler
    /\ Len(stack) < MaxDepth
    /\ Top \notin Deferrer
    /\ r \notin alive /\ r \notin Deferrer
    /\ h \subseteq {Top} \cup holds[Top]
    /\ alive' = alive \cup {r}
    /\ active' = active \cup {r}
    /\ holds' = [holds EXCEPT ![r] = h]
    /\ stack' = <<r>> \o stack
    /\ UNCHANGED <<kernel, entries, owner, loop>>

(***************************************************************************)
(* Proxifier::handleNewConnection with -D: an upstreamer u that owns the   *)
(* accepted descriptor, and a ReadableDeferReactor d that references u and *)
(* whose start() registers u's descriptor for itself.  When that add fails *)
(* both objects and the descriptor are gone again.                         *)
(***************************************************************************)
SpawnDeferred(u, d, fd, f) ==
    /\ InHandler
    /\ Top \notin Deferrer
    /\ u \notin alive /\ u \notin Deferrer
    /\ d \notin alive /\ d \in Deferrer
    /\ openFile[fd] = NoFile
    /\ \A g \in FD : openFile[g] # f
    /\ openFile' = [openFile EXCEPT ![fd] = f]
    /\ owner' = [owner EXCEPT ![fd] = u]
    /\ alive' = alive \cup {u, d}
    /\ active' = active \cup {u, d}
    /\ holds' = [holds EXCEPT ![u] = {Top}, ![d] = {u}]
    /\ Register(d, fd, f)
    /\ UNCHANGED <<stack, loop>>

\* poller->runAs(upstreamer, ...) of AuthServer, poller->assign(reactor) of
\* ReadableDeferReactor::process.
RunAs(r) ==
    /\ InHandler
    /\ Len(stack) < MaxDepth
    /\ r \in holds[Top]
    /\ stack' = <<r>> \o stack
    /\ UNCHANGED <<kernel, entries, objects, loop>>

\* upstreamer = nullptr in ProxifierDownstreamer::process.
DropRef(r) ==
    /\ InHandler
    /\ Top \notin Deferrer
    /\ r \in holds[Top]
    /\ holds' = [holds EXCEPT ![Top] = @ \ {r}]
    /\ UNCHANGED <<kernel, entries, alive, active, owner, stack, loop>>

\* The loop copies the entry's reactor and leaves the entry as it is.
DispatchKeepsEntry(fd, f) ==
    /\ loop = "running"
    /\ stack = <<>>
    /\ Unreferenced = {}
    /\ <<fd, f>> \in armed
    /\ armed' = armed \ {<<fd, f>>}
    /\ \/ /\ reactorAt[fd] \in active
          /\ stack' = <<reactorAt[fd]>>
          /\ UNCHANGED loop
       \/ /\ reactorAt[fd] \notin active
          /\ loop' = IF reactorAt[fd] = NoReactor THEN "crashed" ELSE "returned"
          /\ UNCHANGED stack
    /\ UNCHANGED <<openFile, epoll, entries, objects>>

(***************************************************************************)
(* threadFun: epoll_wait delivers a one-shot event with the descriptor     *)
(* number it was registered under; the loop takes the entry's reactor out  *)
(* of the entry.  A null reactor would be dereferenced; an inactive one    *)
(* makes threadFun return and so ends the program.                         *)
(***************************************************************************)
Dispatch(fd, f) ==
    /\ loop = "running"
    /\ stack = <<>>
    /\ Unreferenced = {}
    /\ <<fd, f>> \in armed
    /\ armed' = armed \ {<<fd, f>>}
    /\ reactorAt' = [reactorAt EXCEPT ![fd] = NoReactor]
    /\ \/ /\ reactorAt[fd] \in active
          /\ stack' = <<reactorAt[fd]>>
          /\ UNCHANGED loop
       \/ /\ reactorAt[fd] \notin active
          /\ loop' = IF reactorAt[fd] = NoReactor THEN "crashed" ELSE "returned"
          /\ UNCHANGED stack
    /\ UNCHANGED <<openFile, epoll, registered, objects>>

\* A destructor that keeps the descriptors open.
DestroyKeepsFDs(r) ==
    /\ r \in Unreferenced
    /\ Remove(Owned(r))
    /\ alive' = alive \ {r}
    /\ holds' = [holds EXCEPT ![r] = {}]
    /\ UNCHANGED <<active, owner, stack, loop>>

(***************************************************************************)
(* The destructor of a reactor: remove for its descriptors (~StreamReactor,*)
(* ~StickReactor, ~ListenReactor), then its members close them and drop    *)
(* their references.  The flag is not touched.                             *)
(***************************************************************************)
Destroy(r) ==
    /\ r \in Unreferenced
    /\ RemoveAndClose(Owned(r))
    /\ alive' = alive \ {r}
    /\ holds' = [holds EXCEPT ![r] = {}]
    /\ UNCHANGED <<active, stack, loop>>

Next ==
    \/ \E r \in Reactor, fd \in FD, f \in File : AssignListener(r, fd, f)
    \/ EnterLoop
    \/ \E fd \in FD, f \in File : OpenFD(fd, f)
    \/ \E fd \in FD : CloseFD(fd)
    \/ \E fd \in FD : Add(fd)
    \/ Return
    \/ \E r \in Reactor : Deactivate(r)
    \/ Throw
    \/ Escape
    \/ \E r \in Reactor, h \in SUBSET Reactor : Spawn(r, h)
    \/ \E u, d \in Reactor, fd \in FD, f \in File : SpawnDeferred(u, d, fd, f)
    \/ \E r \in Reactor : RunAs(r)
    \/ \E r \in Reactor : DropRef(r)
    \/ \E fd \in FD, f \in File : Dispatch(fd, f)
    \/ \E r \in Reactor : Destroy(r)

Spec == Init /\ [][Next]_vars

-----------------------------------------------------------------------------

\* The types of the variables.
TypeOK ==
    /\ openFile \in [FD -> File \cup {NoFile}]
    /\ epoll \subseteq FD \X File
    /\ armed \subseteq epoll
    /\ reactorAt \in [FD -> Reactor \cup {NoReactor}]
    /\ registered \subseteq FD
    /\ alive \subseteq Reactor
    /\ active \subseteq Reactor
    /\ owner \in [FD -> Reactor \cup {NoReactor}]
    /\ holds \in [Reactor -> SUBSET Reactor]
    /\ stack \in Seq(Reactor)
    /\ loop \in {"starting", "running", "exited", "returned", "crashed"}

(***************************************************************************)
(* poller.cc:45-48: the "registered" flags of fdEntries and the kernel's   *)
(* interest list agree at every moment, so the ADD or MOD that add chooses *)
(* never fails with EEXIST or ENOENT, and no registration of a closed      *)
(* descriptor is left to fire for the next owner of its number.            *)
(***************************************************************************)
EpollMirror ==
    /\ \A fd \in FD : fd \in registered <=> <<fd, openFile[fd]>> \in epoll
    /\ \A fd \in FD, f \in File : <<fd, f>> \in epoll => openFile[fd] = f

(***************************************************************************)
(* poller.cc:107-113: whatever event epoll_wait may deliver finds in its   *)
(* entry a live, active reactor that owns the descriptor (a deferrer: that *)
(* references the one that does).  Nobody is woken for a socket it gave    *)
(* up.                                                                     *)
(***************************************************************************)
DispatchSafe ==
    \A fd \in FD, f \in File :
        <<fd, f>> \in armed =>
            /\ reactorAt[fd] \in alive \cap active
            /\ \/ owner[fd] = reactorAt[fd]
               \/ /\ reactorAt[fd] \in Deferrer
                  /\ owner[fd] \in holds[reactorAt[fd]]

(***************************************************************************)
(* poller.cc:110-111: the "return" that would end the whole event loop for *)
(* one inactive reactor, and the null dereference before it, are never     *)
(* reached: the loop ends only by an exception that leaves runAs.          *)
(***************************************************************************)
LoopNeverReturns == loop \notin {"returned", "crashed"}

(***************************************************************************)
(* reactor.hh:20 (intrusive_ref_counter): whenever the loop waits, every   *)
(* live reactor is reachable from an armed entry through intrusive_ptr     *)
(* members.  A reactor that gave up its registration is destroyed with     *)
(* its descriptors; none stays behind in a cycle of references.            *)
(***************************************************************************)
NoLostReactor ==
    (stack = <<>> /\ Unreferenced = {} /\ loop = "running")
        => \A S \in SUBSET alive :
              (/\ \A fd \in FD : reactorAt[fd] # NoReactor => reactorAt[fd] \in S
               /\ \A r \in S : holds[r] \subseteq S)
              => S = alive

(***************************************************************************)
(* poller.cc:57, 71, 107-108: an entry holds a reference to a reactor only *)
(* while the one-shot event of its descriptor is pending, whatever is      *)
(* deactivated, closed, reused or thrown in between.  A reference left in  *)
(* an entry that never fires again would keep the reactor, its descriptors *)
(* and whatever it references for as long as the program runs.             *)
(***************************************************************************)
EntriesArmed ==
    \A fd \in FD : reactorAt[fd] # NoReactor => <<fd, openFile[fd]>> \in armed

(***************************************************************************)
(* uniqfd.hh:55-59: a descriptor is open exactly as long as one live       *)
(* reactor owns it.                                                        *)
(***************************************************************************)
NoFDLeak ==
    \A fd \in FD : /\ openFile[fd] # NoFile <=> owner[fd] # NoReactor
                   /\ owner[fd] # NoReactor => owner[fd] \in alive

-----------------------------------------------------------------------------
(***************************************************************************)
(* What makes these facts inductive.                                       *)
(***************************************************************************)

\* References lead to live reactors; nothing references a deferrer but its
\* entry and the stack, and a deferrer owns no descriptor.
References ==
    /\ \A r \in alive : holds[r] \subseteq alive \ Deferrer
    /\ \A r \in Reactor \ alive : holds[r] = {}
    /\ \A i \in 1..Len(stack) : stack[i] \in alive
    /\ \A fd \in FD : owner[fd] \notin Deferrer

\* A deferrer waits for one descriptor, and has not been run yet.
DeferrerWaits ==
    \A d \in Deferrer, fd \in FD :
        reactorAt[fd] = d => /\ ~OnStack(d)
                             /\ \A g \in FD : reactorAt[g] = d => g = fd

IInv == /\ TypeOK
        /\ EpollMirror
        /\ DispatchSafe
        /\ LoopNeverReturns
        /\ NoFDLeak
        /\ EntriesArmed
        /\ References
        /\ DeferrerWaits

=============================================================================
