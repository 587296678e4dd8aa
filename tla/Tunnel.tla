------------------------------- MODULE Tunnel -------------------------------
(***************************************************************************)
(* The streaming phase of a connection: two StreamReactors                 *)
(* (core/streamreactor.cc) that carry bytes between two TCP connections,   *)
(* over the socket calls of core/socket.hh and the descriptors of          *)
(* core/uniqfd.hh.  "up" reads from the client and writes to the server,   *)
(* "down" the other way; each has a descriptor of its own for either       *)
(* socket, made with dup.                                                  *)
(*                                                                         *)
(* The proxy runs a ProxyUpstreamer and a ConnectProxyDownstreamer, which  *)
(* keeps a reference to the upstreamer (HoldsPeer)        and starts with  *)
(* the operation reply in its buffer.  The proxifier runs a                *)
(* ProxifierUpstreamer and a ProxifierDownstreamer, which drops its        *)
(* reference before it streams (proxifierdownstreamer.cc:89).              *)
(***************************************************************************)
EXTENDS Naturals, Sequences

CONSTANTS
    Roles,        \* what the program may be run as: "proxy", "proxifier"
    BufSize,      \* bytes of a reactor's buffer
    TxSize,       \* bytes of a socket's send buffer
    RxSize,       \* bytes of a socket's receive buffer
    MaxBytes      \* bound: bytes that each peer writes

ASSUME TunnelAssumption ==
    /\ Roles \subseteq {"proxy", "proxifier"}
    /\ BufSize \in Nat \ {0} /\ TxSize \in Nat \ {0}
    /\ RxSize \in Nat \ {0} /\ MaxBytes \in Nat

Dir  == {"up", "down"}
Sock == {"client", "server"}

Src(d) == IF d = "up" THEN "client" ELSE "server"
Dst(d) == IF d = "up" THEN "server" ELSE "client"

\* The direction that reads from a socket.
Reader(s) == IF s = "client" THEN "up" ELSE "down"

VARIABLES
    role,         \* the mode of the program
    streamState,  \* StreamReactor::streamState, "receiving" or "sending"
    buf,          \* StreamReactor::buf
    obj,          \* "running", "inert" (deactivated, still referenced), "gone"
    busy,         \* the reactor whose process() is between recv and send
    rd, wr,       \* whether the descriptor for reading (writing) s is open
    rx, tx,       \* the bytes in the receive (send) buffer of s
    peer,         \* the other end of s: "open", "fin" (closed), "aborted"
    wrote,        \* how many bytes that end has written
    got,          \* the bytes it has read
    told          \* what it knows of our closing: "no", "fin", "reset"

reactors == <<role, streamState, buf, obj, busy>>
sockets  == <<rd, wr, rx, tx>>
peers    == <<peer, wrote, got, told>>
vars     == <<reactors, sockets, peers>>

\* Whether the downstreamer references the upstreamer.
HoldsPeer == role = "proxy"

\* Byte i of a peer is i; the operation reply is 0.
Greeting(d) == IF d = "down" /\ HoldsPeer THEN <<0>> ELSE <<>>

\* Everything that is to come out at the end of direction d.
Stream(d) == Greeting(d) \o [i \in 1..wrote[Src(d)] |-> i]

-----------------------------------------------------------------------------

(***************************************************************************)
(* Streaming starts with what the client has sent behind its request: in   *)
(* the upstreamer's buffer, in front of it what fast open has given to the *)
(* server's socket already, behind it what has still to be received.  The  *)
(* downstreamer's buffer holds the reply.  The client may have closed or   *)
(* aborted meanwhile.                                                      *)
(***************************************************************************)
Init == /\ role \in Roles
        /\ \E n \in 0..MaxBytes, k \in 0..TxSize, m \in 0..RxSize :
              /\ k + m <= n /\ n - k - m <= BufSize
              /\ wrote = [s \in Sock |-> IF s = "client" THEN n ELSE 0]
              /\ tx = [s \in Sock |-> IF s = "server" THEN [i \in 1..k |-> i] ELSE <<>>]
              /\ buf = [d \in Dir |-> IF d = "up" THEN [i \in 1..(n - k - m) |-> k + i]
                                                  ELSE Greeting(d)]
              /\ rx = [s \in Sock |-> IF s = "client" THEN [i \in 1..m |-> n - m + i] ELSE <<>>]
        /\ streamState = [d \in Dir |-> IF buf[d] = <<>> THEN "receiving" ELSE "sending"]
        /\ obj = [d \in Dir |-> "running"]
        /\ busy = "none"
        /\ rd = [s \in Sock |-> TRUE]
        /\ wr = [s \in Sock |-> TRUE]
        /\ peer \in {[s \in Sock |-> IF s = "client" THEN p ELSE "open"] :
                         p \in {"open", "fin", "aborted"}}
        /\ got = [s \in Sock |-> <<>>]
        /\ told = [s \in Sock |-> "no"]

(***************************************************************************)
(* Closing descriptors: the ones for reading the sockets R and for writing *)
(* the sockets W.  A write descriptor is shut down first, so the peer gets *)
(* a FIN behind the bytes in the send buffer, even if the dup for reading  *)
(* stays open.  When the last descriptor of a socket goes while bytes wait *)
(* unread, the kernel resets the connection instead.                       *)
(***************************************************************************)
Close(R, W) ==
    LET open(s) == (rd[s] /\ s \notin R) \/ (wr[s] /\ s \notin W)
        reset(s) == ~open(s) /\ (rd[s] \/ wr[s]) /\ rx[s] # <<>> /\ peer[s] # "aborted"
    IN  /\ rd' = [s \in Sock |-> rd[s] /\ s \notin R]
        /\ wr' = [s \in Sock |-> wr[s] /\ s \notin W]
        /\ tx' = [s \in Sock |-> IF reset(s) THEN <<>> ELSE tx[s]]
        /\ told' = [s \in Sock |-> IF reset(s) THEN "reset" ELSE told[s]]
        /\ UNCHANGED rx

\* A downstreamer that is destroyed without dropping its reference.
ReleasedAlone(d) == {d}

\* The reactors destroyed when d loses its last reference: a downstreamer takes
\* an upstreamer with it that only it kept alive.
Released(d) == IF d = "down" /\ obj["up"] = "inert" THEN Dir ELSE {d}

\* Both descriptors of d are closed and d is destroyed.
Gone(d) ==
    /\ Close({Src(e) : e \in Released(d)}, {Dst(e) : e \in Released(d)})
    /\ obj' = [e \in Dir |-> IF e \in Released(d) THEN "gone" ELSE obj[e]]
    /\ busy' = "none"
    /\ UNCHANGED <<role, streamState, buf, peer, wrote, got>>

\* An upstreamer that stays referenced whatever the downstreamer does.
FailAlwaysHeld(d) ==
    \/ /\ d = "up" /\ obj["down"] = "running"
       /\ obj' = [obj EXCEPT !["up"] = "inert"]
       /\ busy' = "none"
       /\ UNCHANGED <<role, streamState, buf, sockets, peers>>
    \/ /\ ~(d = "up" /\ obj["down"] = "running")
       /\ Gone(d)

(***************************************************************************)
(* An exception in process(): runAs deactivates the reactor, which removes *)
(* its registrations.  Nothing references it any more, so it is destroyed, *)
(* unless the downstreamer does.                                           *)
(***************************************************************************)
Fail(d) ==
    \/ /\ d = "up" /\ HoldsPeer /\ obj["down"] = "running"
       /\ obj' = [obj EXCEPT !["up"] = "inert"]
       /\ busy' = "none"
       /\ UNCHANGED <<role, streamState, buf, sockets, peers>>
    \/ /\ ~(d = "up" /\ HoldsPeer /\ obj["down"] = "running")
       /\ Gone(d)

-----------------------------------------------------------------------------

\* process() has been entered for d, in the given state.
InProcess(d, state) ==
    /\ obj[d] = "running"
    /\ busy = "none"
    /\ streamState[d] = state

\* An event for the descriptor that d waits on, or process() going on from its
\* SS_RECEIVING case.
InSend(d) == /\ obj[d] = "running"
             /\ busy \in {"none", d}
             /\ streamState[d] = "sending"

\* A recv that is not limited to availSize().
ReceiveUnbounded(d, n) ==
    /\ InProcess(d, "receiving")
    /\ n <= Len(rx[Src(d)])
    /\ buf' = [buf EXCEPT ![d] = @ \o SubSeq(rx[Src(d)], 1, n)]
    /\ rx' = [rx EXCEPT ![Src(d)] = SubSeq(@, n + 1, Len(@))]
    /\ streamState' = [streamState EXCEPT ![d] = "sending"]
    /\ busy' = d
    /\ UNCHANGED <<role, obj, rd, wr, tx, peers>>

\* sockRecv returns n > 0 bytes; process() falls through to SS_SENDING.
Receive(d, n) ==
    /\ InProcess(d, "receiving")
    /\ n <= Len(rx[Src(d)]) /\ Len(buf[d]) + n <= BufSize
    /\ buf' = [buf EXCEPT ![d] = @ \o SubSeq(rx[Src(d)], 1, n)]
    /\ rx' = [rx EXCEPT ![Src(d)] = SubSeq(@, n + 1, Len(@))]
    /\ streamState' = [streamState EXCEPT ![d] = "sending"]
    /\ busy' = d
    /\ UNCHANGED <<role, obj, rd, wr, tx, peers>>

\* End of stream taken from the FIN, whatever waits in front of it.
EarlyEndOfStream(d) ==
    /\ InProcess(d, "receiving")
    /\ peer[Src(d)] # "open"
    /\ Gone(d)

(***************************************************************************)
(* sockRecv returns 0: the peer has closed and every byte has been read;   *)
(* or it has aborted and the error has been reported already.  Both        *)
(* descriptors are closed; with nothing in the buffer process() returns.   *)
(***************************************************************************)
EndOfStream(d) ==
    /\ InProcess(d, "receiving")
    /\ rx[Src(d)] = <<>>
    /\ peer[Src(d)] # "open"
    /\ Gone(d)

\* sockRecv throws system_error (ECONNRESET).
RecvFails(d) ==
    /\ InProcess(d, "receiving")
    /\ rx[Src(d)] = <<>>
    /\ peer[Src(d)] = "aborted"
    /\ Fail(d)

\* A partial send taken for a complete one.
SendForgets(d, n) ==
    /\ InSend(d)
    /\ peer[Dst(d)] # "aborted"
    /\ n <= Len(buf[d]) /\ Len(tx[Dst(d)]) + n <= TxSize
    /\ tx' = [tx EXCEPT ![Dst(d)] = @ \o SubSeq(buf[d], 1, n)]
    /\ buf' = [buf EXCEPT ![d] = <<>>]
    /\ streamState' = [streamState EXCEPT ![d] = "receiving"]
    /\ busy' = "none"
    /\ UNCHANGED <<role, obj, rd, wr, rx, peers>>

\* Receiving again before the buffer is empty.
SendTurnsEarly(d, n) ==
    /\ InSend(d)
    /\ peer[Dst(d)] # "aborted"
    /\ n <= Len(buf[d]) /\ Len(tx[Dst(d)]) + n <= TxSize
    /\ tx' = [tx EXCEPT ![Dst(d)] = @ \o SubSeq(buf[d], 1, n)]
    /\ buf' = [buf EXCEPT ![d] = SubSeq(@, n + 1, Len(@))]
    /\ streamState' = [streamState EXCEPT ![d] = "receiving"]
    /\ busy' = "none"
    /\ UNCHANGED <<role, obj, rd, wr, rx, peers>>

\* sockSend takes n > 0 bytes; with an empty buffer d waits for its source
\* again, otherwise for room.
Send(d, n) ==
    /\ InSend(d)
    /\ peer[Dst(d)] # "aborted"
    /\ n <= Len(buf[d]) /\ Len(tx[Dst(d)]) + n <= TxSize
    /\ tx' = [tx EXCEPT ![Dst(d)] = @ \o SubSeq(buf[d], 1, n)]
    /\ buf' = [buf EXCEPT ![d] = SubSeq(@, n + 1, Len(@))]
    /\ streamState' = [streamState EXCEPT ![d] =
                          IF n = Len(buf[d]) THEN "receiving" ELSE "sending"]
    /\ busy' = "none"
    /\ UNCHANGED <<role, obj, rd, wr, rx, peers>>

\* EAGAIN: sockSend throws RescheduleException, runAs registers dst.
SendBlocks(d) ==
    /\ busy = d
    /\ InSend(d)
    /\ peer[Dst(d)] # "aborted"
    /\ Len(tx[Dst(d)]) = TxSize
    /\ busy' = "none"
    /\ UNCHANGED <<role, streamState, buf, obj, sockets, peers>>

\* sockSend on a reset connection: EPIPE is returned as 0, and both descriptors
\* are closed; ECONNRESET is thrown.
SendFails(d) ==
    /\ InSend(d)
    /\ peer[Dst(d)] = "aborted"
    /\ Gone(d) \/ Fail(d)

-----------------------------------------------------------------------------
(* The two peers and the network. *)

Connected(s) == rd[s] \/ wr[s]

PeerWrites(s) ==
    /\ peer[s] = "open"
    /\ Connected(s)
    /\ wrote[s] < MaxBytes
    /\ Len(rx[s]) < RxSize
    /\ wrote' = [wrote EXCEPT ![s] = @ + 1]
    /\ rx' = [rx EXCEPT ![s] = Append(@, wrote[s] + 1)]
    /\ UNCHANGED <<reactors, rd, wr, tx, peer, got, told>>

\* The peer closes its sending side; it goes on reading.
PeerCloses(s) ==
    /\ peer[s] = "open"
    /\ peer' = [peer EXCEPT ![s] = "fin"]
    /\ UNCHANGED <<reactors, sockets, wrote, got, told>>

\* A reset from the peer: what waits in the send buffer is lost.
PeerAborts(s) ==
    /\ peer[s] # "aborted"
    /\ Connected(s)
    /\ peer' = [peer EXCEPT ![s] = "aborted"]
    /\ tx' = [tx EXCEPT ![s] = <<>>]
    /\ UNCHANGED <<reactors, rd, wr, rx, wrote, got, told>>

PeerReads(s) ==
    /\ peer[s] # "aborted"
    /\ tx[s] # <<>>
    /\ got' = [got EXCEPT ![s] = Append(@, Head(tx[s]))]
    /\ tx' = [tx EXCEPT ![s] = Tail(@)]
    /\ UNCHANGED <<reactors, rd, wr, rx, peer, wrote, told>>

PeerReadsFin(s) ==
    /\ peer[s] # "aborted"
    /\ tx[s] = <<>>
    /\ ~wr[s]
    /\ told[s] = "no"
    /\ told' = [told EXCEPT ![s] = "fin"]
    /\ UNCHANGED <<reactors, sockets, peer, wrote, got>>

-----------------------------------------------------------------------------

\* What process() of d does next.
Step(d) ==
    \/ \E n \in 1..RxSize : Receive(d, n)
    \/ EndOfStream(d)
    \/ RecvFails(d)
    \/ \E n \in 1..TxSize : Send(d, n)
    \/ SendBlocks(d)
    \/ SendFails(d)

Next ==
    \/ \E d \in Dir : Step(d)
    \/ \E s \in Sock : \/ PeerWrites(s)
                       \/ PeerCloses(s)
                       \/ PeerAborts(s)
                       \/ PeerReads(s)
                       \/ PeerReadsFin(s)

(***************************************************************************)
(* The poller serves every descriptor that stays ready (epoll hands out    *)
(* ready descriptors in turn), and a live peer goes on reading.  Peers are *)
(* never obliged to write, close or abort.                                 *)
(***************************************************************************)
Fairness ==
    /\ \A d \in Dir : WF_vars(Step(d))
    /\ \A s \in Sock : WF_vars(PeerReads(s)) /\ WF_vars(PeerReadsFin(s))

Spec == Init /\ [][Next]_vars /\ Fairness

-----------------------------------------------------------------------------

\* The types of the variables.
TypeOK ==
    /\ role \in Roles
    /\ streamState \in [Dir -> {"receiving", "sending"}]
    /\ obj \in [Dir -> {"running", "inert", "gone"}]
    /\ busy \in Dir \cup {"none"}
    /\ rd \in [Sock -> BOOLEAN] /\ wr \in [Sock -> BOOLEAN]
    /\ peer \in [Sock -> {"open", "fin", "aborted"}]
    /\ told \in [Sock -> {"no", "fin", "reset"}]
    /\ wrote \in [Sock -> 0..MaxBytes]
    /\ \A d \in Dir : buf[d] \in Seq(0..MaxBytes) /\ Len(buf[d]) <= BufSize
    /\ \A s \in Sock : /\ rx[s] \in Seq(0..MaxBytes) /\ Len(rx[s]) <= RxSize
                       /\ tx[s] \in Seq(0..MaxBytes) /\ Len(tx[s]) <= TxSize
                       /\ got[s] \in Seq(0..MaxBytes)

\* The bytes on the way in direction d that are not lost yet, oldest first.
InTransit(d) == got[Dst(d)] \o tx[Dst(d)] \o buf[d] \o rx[Src(d)]

(***************************************************************************)
(* streamreactor.cc:8-57: nothing is lost, duplicated or reordered on the  *)
(* way: as long as neither the reactor of a direction nor the peer that    *)
(* reads from it is gone, what was read, what is buffered anywhere and     *)
(* what waits to be received is exactly what the other peer wrote.         *)
(***************************************************************************)
Conservation ==
    \A d \in Dir :
        (obj[d] # "gone" /\ peer[Dst(d)] # "aborted") => InTransit(d) = Stream(d)

(***************************************************************************)
(* streamreactor.cc:14-26: recv is called with an empty buffer only, so    *)
(* that it always has room: a recv into a full buffer would return 0 and   *)
(* be taken for the end of the stream.                                     *)
(***************************************************************************)
ReceivesIntoEmpty ==
    \A d \in Dir : (obj[d] = "running" /\ streamState[d] = "receiving") => buf[d] = <<>>

(***************************************************************************)
(* streamreactor.cc:15-25 with uniqfd.hh: half-closing is transparent.     *)
(* While no peer aborts, a peer is told of the end of the stream only when *)
(* the other one has closed and everything it wrote has been delivered,    *)
(* and no peer ever sees a reset.                                          *)
(***************************************************************************)
FinMeansComplete ==
    (\A s \in Sock : peer[s] # "aborted") =>
        \A d \in Dir : /\ told[Dst(d)] # "reset"
                       /\ told[Dst(d)] = "fin" => /\ peer[Src(d)] = "fin"
                                                  /\ got[Dst(d)] = Stream(d)

(***************************************************************************)
(* streamreactor.cc:17-25, 35-41, poller.hh:46-50: when a peer closes or   *)
(* aborts, the other one eventually learns that its stream is over.  The   *)
(* exception is a client that aborts at a proxy: the downstreamer keeps    *)
(* the dead upstreamer, and with it the descriptor to the server.          *)
(***************************************************************************)
EndIsPassedOn ==
    \A d \in Dir : peer[Src(d)] # "open" ~>
        \/ told[Dst(d)] # "no" \/ peer[Dst(d)] = "aborted"
        \/ HoldsPeer /\ d = "up" /\ peer["client"] = "aborted"

(***************************************************************************)
(* timeouts.hh:6 (an idle connection lasts 4 minutes): when a peer aborts, *)
(* the other one eventually learns that the connection is over, without    *)
(* exception.  Not so in the proxy, where the timer is commented out.      *)
(***************************************************************************)
AbortIsPassedOn ==
    \A d \in Dir : peer[Src(d)] = "aborted" ~>
        (told[Dst(d)] # "no" \/ peer[Dst(d)] = "aborted")

(***************************************************************************)
(* uniqfd.hh:55-59: once both peers have closed or aborted, every          *)
(* descriptor is eventually closed, whichever reactor noticed first.       *)
(***************************************************************************)
AllReleased ==
    (\A s \in Sock : peer[s] # "open") ~> (\A s \in Sock : ~rd[s] /\ ~wr[s])

=============================================================================
