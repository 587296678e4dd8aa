------------------------------- MODULE Listen -------------------------------
(***************************************************************************)
(* Accepting connections: ListenReactor::process (core/listenreactor.cc)   *)
(* with the handleNewConnection of Proxy (proxy/proxy.cc) or Proxifier     *)
(* (proxifier/proxifier.cc), on the program's only thread (the worker      *)
(* threads of Poller's constructor are commented out), under the limit of  *)
(* open descriptors.  What a connection does with its descriptors is left  *)
(* open: it opens some, and ends.                                          *)
(*                                                                         *)
(* An error that process throws ends the listener for good: runAs calls    *)
(* deactivate.  The reactors of the connections reference the listener, so *)
(* that its destructor closes the socket, and resets who is in its queue,  *)
(* only when the last of them is gone.  The program runs on.               *)
(***************************************************************************)
EXTENDS Naturals, FiniteSets, FiniteSetsExt

CONSTANTS
    Client,     \* clients, each of which connects once
    PerConn,    \* descriptors that one connection may hold
    Limit,      \* descriptors the process may have open for connections
    MaxFaults   \* bound: passing errors of accept4 (EINTR, ECONNABORTED ...)

ASSUME ListenAssumption ==
    PerConn \in Nat \ {0} /\ Limit \in Nat \ {0} /\ MaxFaults \in Nat /\ IsFiniteSet(Client)

VARIABLES
    status,     \* of a client: "away", "queued", "open", "gone", "reset"
    held,       \* descriptors held for it
    listener,   \* "starting"; "waiting" (registered); "running" (the thread is in
                \* process); "inactive" (deactivated, listenFD open); "closed"
    fatal,      \* whether accept4 or epoll_ctl has failed for good
    faults      \* passing errors so far

vars == <<status, held, listener, fatal, faults>>

Opened == MapThenSumSet(LAMBDA c : held[c], Client)
Queued == {c \in Client : status[c] = "queued"}

\* The thread is in the handler of a connection, or waits in epoll_wait.
InLoop == listener \in {"waiting", "inactive", "closed"}

-----------------------------------------------------------------------------

Init ==
    /\ status = [c \in Client |-> "away"]
    /\ held = [c \in Client |-> 0]
    /\ listener = "starting"   \* constructed: the socket listens already
    /\ fatal = FALSE
    /\ faults = 0

\* A client connects, or gives up while it is in the queue.
Arrives(c) ==
    /\ status[c] = "away" /\ listener # "closed"
    /\ status' = [status EXCEPT ![c] = "queued"]
    /\ UNCHANGED <<held, listener, fatal, faults>>

GivesUp(c) ==
    /\ status[c] = "queued"
    /\ status' = [status EXCEPT ![c] = "gone"]
    /\ UNCHANGED <<held, listener, fatal, faults>>

\* An exception of start or process: runAs deactivates the listener, and nothing
\* starts it again.
Killed == listener' = "inactive" /\ fatal' = TRUE

\* poller->add of the listening socket, or its exception when epoll_ctl fails.
Resched ==
    \/ listener' = "waiting" /\ UNCHANGED fatal
    \/ Killed

\* ListenReactor::start, through assign.
Start ==
    /\ listener = "starting"
    /\ Resched
    /\ UNCHANGED <<status, held, faults>>

\* threadFun: the event of the listening socket, one-shot.
Dispatch ==
    /\ listener = "waiting" /\ Queued # {}
    /\ listener' = "running"
    /\ UNCHANGED <<status, held, fatal, faults>>

\* An exception of handleNewConnection kills the listener.
AcceptUncaught(c) ==
    /\ listener = "running" /\ c \in Queued /\ Opened < Limit
    /\ \/ /\ \E n \in 1..PerConn : /\ Opened + n <= Limit
                                   /\ held' = [held EXCEPT ![c] = n]
          /\ status' = [status EXCEPT ![c] = "open"]
          /\ Resched
       \/ /\ status' = [status EXCEPT ![c] = "gone"]
          /\ listener' = "inactive"
          /\ UNCHANGED <<held, fatal>>
    /\ UNCHANGED faults

\* accept4 succeeds.  handleNewConnection makes the upstreamer and starts it; what
\* it throws, it catches, and the connection is closed.
Accept(c) ==
    /\ listener = "running" /\ c \in Queued /\ Opened < Limit
    /\ \/ /\ \E n \in 1..PerConn : /\ Opened + n <= Limit
                                   /\ held' = [held EXCEPT ![c] = n]
          /\ status' = [status EXCEPT ![c] = "open"]
       \/ /\ status' = [status EXCEPT ![c] = "gone"]
          /\ UNCHANGED held
    /\ Resched
    /\ UNCHANGED faults

\* Nothing in the queue: EWOULDBLOCK.
AcceptNothing ==
    /\ listener = "running" /\ Queued = {} /\ Opened < Limit
    /\ Resched
    /\ UNCHANGED <<status, held, faults>>

\* A passing error: tried again at once, in the same handler.  EMFILE and ENFILE
\* are treated the same, but nothing that the thread does not do itself ends them:
\* while Opened = Limit, the loop takes no other step.
AcceptError ==
    /\ listener = "running" /\ faults < MaxFaults
    /\ faults' = faults + 1
    /\ UNCHANGED <<status, held, listener, fatal>>

\* Any other error (EPERM, ETIMEDOUT ...) is thrown.
AcceptThrows ==
    /\ listener = "running" /\ Opened < Limit
    /\ Killed
    /\ UNCHANGED <<status, held, faults>>

\* The last reference to a deactivated listener goes: ~ListenReactor, and the
\* kernel resets the connections that were never accepted.
Destroy ==
    /\ listener = "inactive" /\ \A c \in Client : status[c] # "open"
    /\ listener' = "closed"
    /\ status' = [c \in Client |-> IF c \in Queued THEN "reset" ELSE status[c]]
    /\ UNCHANGED <<held, fatal, faults>>

\* The thread serves a connection, which opens another descriptor.
Grow(c) ==
    /\ InLoop /\ status[c] = "open"
    /\ held[c] < PerConn /\ Opened < Limit
    /\ held' = [held EXCEPT ![c] = @ + 1]
    /\ UNCHANGED <<status, listener, fatal, faults>>

\* The thread serves a connection that ends, or is killed for want of a
\* descriptor; what it held is closed.
End(c) ==
    /\ InLoop /\ status[c] = "open"
    /\ status' = [status EXCEPT ![c] = "gone"]
    /\ held' = [held EXCEPT ![c] = 0]
    /\ UNCHANGED <<listener, fatal, faults>>

Next ==
    \/ \E c \in Client : Arrives(c) \/ GivesUp(c) \/ Accept(c) \/ Grow(c) \/ End(c)
    \/ Start \/ Dispatch \/ AcceptNothing \/ AcceptError \/ AcceptThrows \/ Destroy

(***************************************************************************)
(* epoll hands out the event of the listening socket in the end; start and *)
(* the handler run on, and a destructor runs; connections end, and the     *)
(* poller hands out the events by which the thread learns of it.  Nobody   *)
(* is obliged to connect, to give up or to open more descriptors, and      *)
(* nothing has to fail.                                                    *)
(***************************************************************************)
Fairness ==
    /\ WF_vars(Start) /\ WF_vars(Dispatch) /\ WF_vars(Destroy)
    /\ WF_vars(AcceptNothing \/ \E c \in Client : Accept(c))
    /\ \A c \in Client : SF_vars(End(c))

Spec == Init /\ [][Next]_vars /\ Fairness

-----------------------------------------------------------------------------

(***************************************************************************)
(* listenreactor.cc:36-99: a client in the queue is accepted in the end,   *)
(* though connections are made and fail, other clients give up and accept4 *)
(* fails now and then.  There are two exceptions.  An error of accept4     *)
(* that line 70 throws, or of epoll_ctl in lines 80 and 93, ends the       *)
(* listener; then the client is reset, when the last connection is over.   *)
(* Nothing else ends the listener, an exception of handleNewConnection in  *)
(* particular.  Or the process is at the limit of descriptors for ever,    *)
(* inside accept4's loop (line 63): only another thread could free one,    *)
(* and there is none.                                                      *)
(***************************************************************************)
Served ==
    \/ \A c \in Client :
          status[c] = "queued" ~> (status[c] \in {"open", "gone"} \/ (status[c] = "reset" /\ fatal))
    \/ <>[](listener = "running" /\ Opened = Limit)

=============================================================================
