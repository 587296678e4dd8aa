---------------------------- MODULE ProxyRequest ----------------------------
(***************************************************************************)
(* The request phase of the proxy, from an accepted connection to the      *)
(* streaming that module Tunnel describes: ProxyUpstreamer                 *)
(* (proxy/proxyupstreamer.cc), AuthServer (proxy/authserver.cc) and the    *)
(* two downstreamers, over the calls of core/socket.hh without TLS.        *)
(*                                                                         *)
(* One thread runs every handler, but the client acts between two system   *)
(* calls of a handler.  The variable "at" says where the running handler   *)
(* is: "poll" (none runs), "auth" (AuthServer::start has been called) or   *)
(* "honor" (ProxyUpstreamer::authDone has been called).                    *)
(*                                                                         *)
(* The client writes req.len cells of request (0) and then payload bytes   *)
(* (1, 2, ...).  Replies are sequences of two cells, so that a send may    *)
(* stop in the middle of one.                                              *)
(***************************************************************************)
EXTENDS Naturals, Sequences

CONSTANTS
    Requests,     \* the requests a client may send
    BufSize,      \* StreamBuffer::BUF_SIZE
    MSS,          \* ProxyUpstreamer::MSS
    TxSize,       \* bytes of the client socket's send buffer
    RxSize,       \* bytes of the client socket's receive buffer
    MaxPayload,   \* bound: payload bytes that the client writes
    MaxFaults     \* bound: system calls that fail for lack of resources

Kinds == {"connect", "noop", "other", "domain", "badVersion", "malformed"}

ASSUME ProxyRequestAssumption ==
    /\ \A r \in Requests : /\ r.kind \in Kinds
                           /\ r.ok \in BOOLEAN
                           /\ r.len \in Nat \ {0}
                           /\ r.tfo \in 0..MaxPayload
                           /\ r.addr \in [1..4 -> 0..255]
    /\ BufSize \in Nat \ {0} /\ TxSize \in Nat \ {0} /\ RxSize \in Nat \ {0}
    /\ MSS \in Nat /\ MaxPayload \in Nat /\ MaxFaults \in Nat

VARIABLES
    req,          \* what the client sends: kind, ok (credentials), len, tfo, addr, port
    up,           \* ProxyUpstreamer::state: "reading", "auth", "payload", "connecting",
                  \* "stream"; "gone" once it is destroyed
    at,           \* where the running handler is
    authBuf,      \* AuthServer::buf
    down,         \* the downstreamer: "none", "simple", "connect", "gone"
    reply,        \* its buffer
    streamState,  \* StreamReactor::streamState of the upstreamer
    buf, head,    \* the upstreamer's StreamBuffer: bytes in use, offset of the first
    tfoPayload,   \* ProxyUpstreamer::tfoPayload
    addr,         \* ProxyUpstreamer::addr, in network byte order
    rx, tx,       \* receive and send buffer of the client's socket
    peer,         \* the client: "open", "fin" (has closed), "aborted"
    wrote, got,   \* how many cells it has written, the cells it has read
    told,         \* what it knows of our closing: "no", "fin", "reset"
    server,       \* our connection to the server: "none", "syn", "up", "refused"
    sent,         \* bytes handed to the kernel for the server
    faults        \* failed system calls so far

objects == <<up, at, authBuf, down, reply, streamState>>
queue   == <<buf, head, tfoPayload, addr>>
client  == <<rx, tx, peer, wrote, got, told>>
remote  == <<server, sent>>
vars    == <<req, objects, queue, client, remote, faults>>

Least(m, n) == IF m <= n THEN m ELSE n

VersionReply    == <<[msg |-> "version", code |-> "mismatch"]>>
AuthReply(ok)   == [i \in 1..2 |-> [msg |-> "auth", code |-> IF ok THEN "success" ELSE "failure"]]
OpReply(code)   == [i \in 1..2 |-> [msg |-> "op", code |-> code]]

-----------------------------------------------------------------------------
(* Addresses.  An in_addr is four bytes of memory in network order. *)

ZeroAddr  == <<0, 0, 0, 0>>
LocalHost == <<127, 0, 0, 1>>

INADDR_LOOPBACK == 127 * 256 * 256 * 256 + 1

\* The bytes of an unsigned 32-bit integer in the memory of a little-endian host.
MemoryBytes(w) == <<w % 256, (w \div 256) % 256, (w \div 65536) % 256, w \div 16777216>>

DEFAULT_SERVICES == {53}

\* addrFixupAndHonorRequest: the address that is connected to.
FixedUp(r) == IF r.addr = ZeroAddr /\ r.port \in DEFAULT_SERVICES
              THEN MemoryBytes(INADDR_LOOPBACK)
              ELSE r.addr

-----------------------------------------------------------------------------

Init ==
    /\ req \in Requests
    /\ up = "reading" /\ at = "poll" /\ authBuf = <<>>
    /\ down = "none" /\ reply = <<>> /\ streamState = "receiving"
    /\ buf = <<>> /\ head = 0 /\ tfoPayload = 0 /\ addr = ZeroAddr
    /\ rx = <<>> /\ tx = <<>> /\ peer = "open" /\ wrote = 0 /\ got = <<>> /\ told = "no"
    /\ server = "none" /\ sent = <<>>
    /\ faults = 0

Fault   == faults < MaxFaults /\ faults' = faults + 1
NoFault == UNCHANGED faults

\* The last descriptor of the client's socket is closed while r waits to be
\* received and t to be sent: unread bytes make the kernel reset the connection.
LastClose(r, t) ==
    LET reset == r # <<>> /\ peer # "aborted"
    IN  /\ tx' = IF reset THEN <<>> ELSE t
        /\ told' = IF reset THEN "reset" ELSE told

\* No reference to the upstreamer is left: it and its AuthServer are destroyed.
Drop(r, t) ==
    /\ up' = "gone" /\ at' = "poll" /\ authBuf' = <<>>
    /\ LastClose(r, t)
    /\ UNCHANGED <<down, reply, streamState>>

\* A SimpleProxyDownstreamer gets a dup of the client's socket and the reply,
\* and waits for room; the upstreamer is destroyed when the handler returns.
AssignSimple(msg) ==
    /\ up' = "gone" /\ at' = "poll"
    /\ down' = "simple" /\ reply' = msg
    /\ UNCHANGED <<authBuf, streamState, tx, told>>

Answer(code) == AssignSimple(OpReply(code))

\* The bytes that are left when unuse(n) has been called on used, and the offset.
Unused(used, n) ==
    /\ buf' = SubSeq(used, n + 1, Len(used))
    /\ head' = IF n = Len(used) THEN 0 ELSE head + n

-----------------------------------------------------------------------------
(* S_READING_REQ *)

\* recv returns what has arrived, as far as there is room.
Received == LET n == Least(Len(rx), BufSize - head - Len(buf)) IN SubSeq(rx, 1, n)
Rest     == SubSeq(rx, Len(Received) + 1, Len(rx))

(***************************************************************************)
(* The parser wants more bytes (the upstreamer registers again), objects   *)
(* to the version, or throws something else (runAs deactivates the         *)
(* upstreamer), or the request is taken out of the buffer and an           *)
(* AuthServer is made and started.                                         *)
(***************************************************************************)
ReadRequest ==
    /\ up = "reading" /\ at = "poll" /\ Received # <<>>
    /\ LET used == buf \o Received
       IN  \/ /\ req.kind = "badVersion"
              /\ AssignSimple(VersionReply)
              /\ buf' = used /\ UNCHANGED head
           \/ /\ req.kind # "badVersion" /\ Len(used) < req.len
              /\ buf' = used
              /\ UNCHANGED <<objects, tx, told, head>>
           \/ /\ req.kind = "malformed" /\ Len(used) >= req.len
              /\ Drop(Rest, tx)
              /\ buf' = used /\ UNCHANGED head
           \/ /\ req.kind \notin {"badVersion", "malformed"} /\ Len(used) >= req.len
              /\ Unused(used, req.len)
              /\ up' = "auth" /\ at' = "auth" /\ authBuf' = AuthReply(req.ok)
              /\ UNCHANGED <<down, reply, streamState, tx, told>>
    /\ rx' = Rest
    /\ NoFault
    /\ UNCHANGED <<req, tfoPayload, addr, peer, wrote, got, remote>>

\* recv returns 0 (the client has closed, or the buffer is full) or fails:
\* process() returns without registering, or runAs deactivates.
ReadEnds ==
    /\ up = "reading" /\ at = "poll"
    /\ \/ rx = <<>> /\ peer # "open"
       \/ rx # <<>> /\ Received = <<>>
    /\ Drop(rx, tx)
    /\ NoFault
    /\ UNCHANGED <<req, queue, rx, peer, wrote, got, remote>>

\* SO_KEEPALIVE, dup or epoll_ctl fails on the way to the AuthServer.
ReadFails ==
    /\ up = "reading" /\ at = "poll" /\ rx # <<>>
    /\ Fault
    /\ Drop(Rest, tx)
    /\ rx' = Rest
    /\ UNCHANGED <<req, queue, peer, wrote, got, remote>>

-----------------------------------------------------------------------------
(* AuthServer::sendReply, from start() or from an event.  The reply is the   *)
(* first thing sent over the connection: in start() there is always room.   *)

Room == TxSize - Len(tx)

\* authDone() as soon as something has been sent.
AuthSendEager ==
    /\ up = "auth" /\ at \in {"auth", "poll"} /\ peer # "aborted" /\ Room > 0
    /\ LET n == Least(Room, Len(authBuf))
           t == tx \o SubSeq(authBuf, 1, n)
       IN  \/ /\ req.ok
              /\ at' = "honor" /\ authBuf' = SubSeq(authBuf, n + 1, Len(authBuf))
              /\ tx' = t
              /\ UNCHANGED <<up, down, reply, streamState, told>>
           \/ ~req.ok /\ Drop(rx, t)
    /\ NoFault
    /\ UNCHANGED <<req, queue, rx, peer, wrote, got, remote>>

\* authDone() whatever the code of the reply.
AuthSendUnchecked ==
    /\ up = "auth" /\ at \in {"auth", "poll"} /\ peer # "aborted" /\ Room > 0
    /\ LET n == Least(Room, Len(authBuf))
           t == tx \o SubSeq(authBuf, 1, n)
       IN  /\ at' = IF n < Len(authBuf) THEN "poll" ELSE "honor"
           /\ authBuf' = SubSeq(authBuf, n + 1, Len(authBuf))
           /\ tx' = t
           /\ UNCHANGED <<up, down, reply, streamState, told>>
    /\ NoFault
    /\ UNCHANGED <<req, queue, rx, peer, wrote, got, remote>>

\* The reply leaves the buffer; when all of it has, a success goes on with
\* authDone() and a failure deactivates the upstreamer.
AuthSend ==
    /\ up = "auth" /\ at \in {"auth", "poll"} /\ peer # "aborted" /\ Room > 0
    /\ LET n == Least(Room, Len(authBuf))
           t == tx \o SubSeq(authBuf, 1, n)
       IN  \/ /\ n < Len(authBuf) \/ req.ok
              /\ at' = IF n < Len(authBuf) THEN "poll" ELSE "honor"
              /\ authBuf' = SubSeq(authBuf, n + 1, Len(authBuf))
              /\ tx' = t
              /\ UNCHANGED <<up, down, reply, streamState, told>>
           \/ n = Len(authBuf) /\ ~req.ok /\ Drop(rx, t)
    /\ NoFault
    /\ UNCHANGED <<req, queue, rx, peer, wrote, got, remote>>

\* EPIPE or ECONNRESET: AuthServer::deactivate takes the upstreamer along.
AuthFails ==
    /\ up = "auth" /\ at \in {"auth", "poll"} /\ peer = "aborted"
    /\ Drop(rx, tx)
    /\ NoFault
    /\ UNCHANGED <<req, queue, rx, peer, wrote, got, remote>>

-----------------------------------------------------------------------------
(* S_READING_TFO_PAYLOAD, from honorConnect or from an event *)

\* An exception out of process(): honorRequest answers every std::exception;
\* in an event runAs deactivates the upstreamer.
Thrown(honoring, r) == IF honoring THEN Answer("failure") ELSE Drop(r, tx)

\* A fast open that sends whatever is in the buffer.
ConnectGreedy(used, p, honoring, r) ==
    \E k \in 0..(IF p > 0 THEN Len(used) ELSE 0) :
        /\ server' = "syn"
        /\ sent' = SubSeq(used, 1, k)
        /\ Unused(used, k)
        /\ up' = "connecting" /\ at' = "poll"
        /\ UNCHANGED <<authBuf, down, reply, streamState, tx, told>>
        /\ NoFault

\* A fast open that leaves in the buffer what it has sent.
ConnectKeeps(used, p, honoring, r) ==
    \E k \in 0..Least(Len(used), p) :
        /\ server' = "syn"
        /\ sent' = SubSeq(used, 1, k)
        /\ buf' = used /\ UNCHANGED head
        /\ up' = "connecting" /\ at' = "poll"
        /\ UNCHANGED <<authBuf, down, reply, streamState, tx, told>>
        /\ NoFault

(***************************************************************************)
(* sockConnect with the bytes in use and at most p of them in the SYN.     *)
(* Without payload it is a plain connect.  With payload the kernel takes   *)
(* some of it, or none (EINPROGRESS).  Any other error is answered.  Then  *)
(* the upstreamer waits for the connection; registering may fail.          *)
(***************************************************************************)
Connect(used, p, honoring, r) ==
    \/ /\ server' = "refused"
       /\ Answer("failure")
       /\ buf' = used
       /\ NoFault
       /\ UNCHANGED <<head, sent>>
    \/ \E k \in 0..Least(Len(used), p) :
          /\ server' = "syn"
          /\ sent' = SubSeq(used, 1, k)
          /\ Unused(used, k)
          /\ \/ /\ up' = "connecting" /\ at' = "poll"
                /\ UNCHANGED <<authBuf, down, reply, streamState, tx, told>>
                /\ NoFault
             \/ Fault /\ Thrown(honoring, r)

\* Waiting for one byte more than was promised.
PayloadWaits(p, honoring) ==
    /\ Received # <<>>
    /\ LET used == buf \o Received
       IN  \/ Len(used) > p /\ Connect(used, p, honoring, Rest)
           \/ /\ Len(used) <= p
              /\ buf' = used
              /\ up' = "payload" /\ at' = "poll"
              /\ NoFault
              /\ UNCHANGED <<head, remote, authBuf, down, reply, streamState, tx, told>>
    /\ rx' = Rest

(***************************************************************************)
(* The promised payload p is read, in several events if need be, and the   *)
(* connection started.  recv returns 0 at the end of the stream and when   *)
(* the buffer has no room behind the payload; process() then returns       *)
(* without registering.  A recv that would block throws                    *)
(* RescheduleException, which is a std::exception as well.                 *)
(***************************************************************************)
Payload(p, honoring) ==
    \/ /\ Len(buf) >= p
       /\ Connect(buf, p, honoring, rx)
       /\ UNCHANGED rx
    \/ /\ Len(buf) < p /\ Received # <<>>
       /\ LET used == buf \o Received
          IN  \/ Len(used) >= p /\ Connect(used, p, honoring, Rest)
              \/ /\ Len(used) < p
                 /\ buf' = used
                 /\ UNCHANGED <<head, remote>>
                 /\ \/ /\ up' = "payload" /\ at' = "poll"
                       /\ UNCHANGED <<authBuf, down, reply, streamState, tx, told>>
                       /\ NoFault
                    \/ Fault /\ Thrown(honoring, Rest)
       /\ rx' = Rest
    \/ /\ Len(buf) < p /\ Received = <<>>
       /\ \/ (rx # <<>> \/ peer = "fin") /\ Drop(rx, tx)
          \/ rx = <<>> /\ peer = "aborted" /\ Thrown(honoring, rx)
          \/ rx = <<>> /\ peer = "open" /\ honoring /\ Answer("failure")
       /\ NoFault
       /\ UNCHANGED <<buf, head, rx, remote>>

PayloadArrives ==
    /\ up = "payload" /\ at = "poll"
    /\ Payload(tfoPayload, FALSE)
    /\ UNCHANGED <<req, tfoPayload, addr, peer, wrote, got>>

-----------------------------------------------------------------------------
(* addrFixupAndHonorRequest and honorRequest *)

\* A request whose command needs no connection, with the code of its answer.
SimpleAnswer(kind) ==
    CASE kind = "domain" -> "addr_not_supported"
      [] kind = "noop"   -> "success"
      [] kind = "other"  -> "cmd_not_supported"

\* Answering; a failed dup in honorRequest is answered with FAILURE, one in
\* addrFixupAndHonorRequest is not.
HonorSimple ==
    /\ at = "honor" /\ req.kind # "connect"
    /\ \/ Answer(SimpleAnswer(req.kind)) /\ NoFault
       \/ Fault /\ req.kind # "domain" /\ Answer("failure")
    /\ addr' = IF req.kind = "domain" THEN addr ELSE FixedUp(req)
    /\ UNCHANGED <<req, buf, head, tfoPayload, rx, peer, wrote, got, remote>>

\* The promise as the client states it.
StackOptionsUncapped(r) == r.tfo

\* honorConnectStackOptions
StackOptions(r) == Least(r.tfo, MSS)

\* honorConnect: socket(), the options, and process() in its new state.
HonorConnect ==
    /\ at = "honor" /\ req.kind = "connect"
    /\ addr' = FixedUp(req)
    /\ \/ /\ tfoPayload' = StackOptions(req)
          /\ Payload(tfoPayload', TRUE)
       \/ /\ Fault /\ Answer("failure")
          /\ UNCHANGED <<tfoPayload, buf, head, rx, remote>>
    /\ UNCHANGED <<req, peer, wrote, got>>

\* The reply cannot be handed to a downstreamer either: the exception leaves
\* authDone and runAs deactivates the upstreamer.
HonorFails ==
    /\ at = "honor"
    /\ Fault
    /\ Drop(rx, tx)
    /\ addr' = IF req.kind = "domain" THEN addr ELSE FixedUp(req)
    /\ UNCHANGED <<req, buf, head, tfoPayload, rx, peer, wrote, got, remote>>

-----------------------------------------------------------------------------
(* S_CONNECTING *)

\* Reporting success without a look at the connection.
ConnectEndsUnchecked ==
    /\ up = "connecting" /\ at = "poll" /\ server # "syn"
    /\ up' = "stream" /\ down' = "connect" /\ reply' = OpReply("success")
    /\ streamState' = IF buf = <<>> THEN "receiving" ELSE "sending"
    /\ NoFault
    /\ UNCHANGED <<req, at, authBuf, queue, client, remote>>

(***************************************************************************)
(* The connection is there or has failed.  After a success the             *)
(* downstreamer is made and both reactors stream.  Failing calls:          *)
(* getsockopt (answered), getsockname, SO_KEEPALIVE or dup (the upstreamer *)
(* is dropped), and registering the downstreamer, which only kills the     *)
(* downstreamer.                                                           *)
(***************************************************************************)
ConnectEnds ==
    /\ up = "connecting" /\ at = "poll" /\ server \in {"up", "refused"}
    /\ \/ server = "refused" /\ NoFault /\ Answer("refused")
       \/ Fault /\ Answer("failure")
       \/ Fault /\ Drop(rx, tx)
       \/ /\ server = "up"
          /\ up' = "stream"
          /\ streamState' = IF buf = <<>> THEN "receiving" ELSE "sending"
          /\ \/ NoFault /\ down' = "connect" /\ reply' = OpReply("success")
             \/ Fault /\ down' = "gone" /\ UNCHANGED reply
          /\ UNCHANGED <<at, authBuf, tx, told>>
    /\ UNCHANGED <<req, queue, rx, peer, wrote, got, remote>>

-----------------------------------------------------------------------------
(* SimpleProxyDownstreamer: SS_SENDING of StreamReactor::process.  When the *)
(* reply is sent it waits for its source, which does not exist: it is       *)
(* destroyed, and with it the last descriptor.                              *)

\* Closing after the first send.
SimpleSendOnce ==
    /\ down = "simple" /\ at = "poll" /\ peer # "aborted" /\ Room > 0
    /\ LET n == Least(Room, Len(reply))
       IN  /\ reply' = <<>> /\ down' = "gone"
           /\ LastClose(rx, tx \o SubSeq(reply, 1, n))
    /\ UNCHANGED <<req, up, at, authBuf, streamState, queue, rx, peer, wrote, got, remote, faults>>

SimpleSend ==
    /\ down = "simple" /\ at = "poll" /\ peer # "aborted" /\ Room > 0
    /\ LET n == Least(Room, Len(reply))
           t == tx \o SubSeq(reply, 1, n)
       IN  /\ reply' = SubSeq(reply, n + 1, Len(reply))
           /\ \/ n < Len(reply) /\ tx' = t /\ UNCHANGED <<down, told>>
              \/ n = Len(reply) /\ down' = "gone" /\ LastClose(rx, t)
    /\ UNCHANGED <<req, up, at, authBuf, streamState, queue, rx, peer, wrote, got, remote, faults>>

SimpleFails ==
    /\ down = "simple" /\ at = "poll" /\ peer = "aborted"
    /\ down' = "gone"
    /\ UNCHANGED <<req, up, at, authBuf, reply, streamState, queue, client, remote, faults>>

-----------------------------------------------------------------------------
(* The client, the network and the server. *)

Closed == up = "gone" /\ down \in {"none", "gone"}

ClientWrites ==
    /\ peer = "open" /\ told # "reset" /\ ~Closed
    /\ wrote < req.len + MaxPayload
    /\ Len(rx) < RxSize
    /\ wrote' = wrote + 1
    /\ rx' = Append(rx, IF wrote < req.len THEN 0 ELSE wrote + 1 - req.len)
    /\ UNCHANGED <<req, objects, queue, tx, peer, got, told, remote, faults>>

\* Data for a socket that is closed is answered with a reset.
ClientWritesLate ==
    /\ peer = "open" /\ told # "reset" /\ Closed
    /\ wrote < req.len + MaxPayload
    /\ wrote' = wrote + 1
    /\ tx' = <<>> /\ told' = "reset"
    /\ UNCHANGED <<req, objects, queue, rx, peer, got, remote, faults>>

ClientCloses ==
    /\ peer = "open"
    /\ peer' = "fin"
    /\ UNCHANGED <<req, objects, queue, rx, tx, wrote, got, told, remote, faults>>

ClientAborts ==
    /\ peer # "aborted" /\ ~Closed
    /\ peer' = "aborted" /\ tx' = <<>>
    /\ UNCHANGED <<req, objects, queue, rx, wrote, got, told, remote, faults>>

ClientReads ==
    /\ peer # "aborted" /\ tx # <<>>
    /\ got' = Append(got, Head(tx)) /\ tx' = Tail(tx)
    /\ UNCHANGED <<req, objects, queue, rx, peer, wrote, told, remote, faults>>

ClientReadsFin ==
    /\ peer # "aborted" /\ tx = <<>> /\ told = "no"
    /\ Closed \/ down = "gone"
    /\ told' = "fin"
    /\ UNCHANGED <<req, objects, queue, rx, tx, peer, wrote, got, remote, faults>>

ServerAnswers ==
    /\ server = "syn" /\ up = "connecting"
    /\ server' \in {"up", "refused"}
    /\ UNCHANGED <<req, objects, queue, client, sent, faults>>

-----------------------------------------------------------------------------

Handler ==
    \/ ReadRequest \/ ReadEnds \/ ReadFails
    \/ AuthSend \/ AuthFails
    \/ HonorSimple \/ HonorConnect \/ HonorFails
    \/ PayloadArrives
    \/ ConnectEnds
    \/ SimpleSend \/ SimpleFails

Next ==
    \/ Handler
    \/ ClientWrites \/ ClientWritesLate \/ ClientCloses \/ ClientAborts
    \/ ClientReads \/ ClientReadsFin
    \/ ServerAnswers

(***************************************************************************)
(* The poller serves a ready descriptor, a live client goes on reading,    *)
(* and TCP gives every connection attempt a result.  The client is never   *)
(* obliged to write.                                                       *)
(***************************************************************************)
Fairness ==
    /\ WF_vars(Handler)
    /\ WF_vars(ClientReads) /\ WF_vars(ClientReadsFin)
    /\ WF_vars(ServerAnswers)

Spec == Init /\ [][Next]_vars /\ Fairness

-----------------------------------------------------------------------------

OpCodes == {"success", "failure", "refused", "addr_not_supported", "cmd_not_supported"}

Cells == {[msg |-> "version", code |-> "mismatch"]}
             \cup {[msg |-> "auth", code |-> c] : c \in {"success", "failure"}}
             \cup {[msg |-> "op", code |-> c] : c \in OpCodes}

\* The types of the variables.
TypeOK ==
    /\ req \in Requests
    /\ up \in {"reading", "auth", "payload", "connecting", "stream", "gone"}
    /\ at \in {"poll", "auth", "honor"}
    /\ down \in {"none", "simple", "connect", "gone"}
    /\ streamState \in {"receiving", "sending"}
    /\ \A q \in {authBuf, reply, tx, got} : \A i \in DOMAIN q : q[i] \in Cells
    /\ \A q \in {buf, rx, sent} : \A i \in DOMAIN q : q[i] \in 0..MaxPayload
    /\ head + Len(buf) <= BufSize /\ Len(tx) <= TxSize /\ Len(rx) <= RxSize
    /\ tfoPayload \in 0..MSS
    /\ \A i \in 1..4 : addr[i] \in 0..255
    /\ peer \in {"open", "fin", "aborted"} /\ told \in {"no", "fin", "reset"}
    /\ wrote \in 0..(req.len + MaxPayload)
    /\ server \in {"none", "syn", "up", "refused"}
    /\ faults \in 0..MaxFaults

\* What the client has read, may still read, and what waits to be sent to it.
Dialogue == got \o tx \o authBuf \o reply

\* The answers a client may get as a whole.
Answers ==
    {VersionReply, AuthReply(FALSE)} \cup {AuthReply(TRUE) \o OpReply(c) : c \in OpCodes}

StartOf(s, t) == Len(s) <= Len(t) /\ s = SubSeq(t, 1, Len(s))

(***************************************************************************)
(* authserver.cc:22-44, proxyupstreamer.cc:12-57: three reactors write to  *)
(* the client's socket, and the client always gets the start of one legal  *)
(* answer, in order: never an operation reply inside or before the         *)
(* authentication reply, never a second operation reply, never anything    *)
(* behind a failure.                                                       *)
(***************************************************************************)
OneAnswer == told # "reset" /\ peer # "aborted" => \E a \in Answers : StartOf(Dialogue, a)

(***************************************************************************)
(* authserver.cc:32-43, proxyupstreamer.cc:59-71: nothing is sent to the   *)
(* server for a client that has not been authenticated, and not before its *)
(* whole authentication reply has left.                                    *)
(***************************************************************************)
NothingUnauthenticated ==
    server # "none" => /\ req.ok /\ req.kind = "connect"
                       /\ authBuf = <<>>
                       /\ peer # "aborted" /\ told # "reset"
                             => StartOf(AuthReply(TRUE), got \o tx)

\* The client has been sent, or is being sent, this operation reply.
Said(code) == \E i \in DOMAIN Dialogue : Dialogue[i] = [msg |-> "op", code |-> code]

(***************************************************************************)
(* proxyupstreamer.cc:41-56, 133-206: answers are true.  SUCCESS is said   *)
(* of a connection that stands; FAILURE of a CONNECT only if a system call *)
(* has failed, the server cannot be reached, or the payload the client has *)
(* promised is not there.  That it is merely late is no error, but the     *)
(* handler in line 52 takes the RescheduleException of recv for one.       *)
(***************************************************************************)
AnswersHaveCause ==
    [][/\ (~Said("success") /\ Said("success")') =>
              req.kind = "noop" \/ (req.kind = "connect" /\ server' = "up")
       /\ (req.kind = "connect" /\ ~Said("failure") /\ Said("failure")') =>
              \/ faults' > faults \/ server' = "refused"
              \/ wrote < req.len + Least(req.tfo, MSS)]_vars

(***************************************************************************)
(* socket.hh:51-59, proxyupstreamer.cc:75: only as much of the payload as  *)
(* the client has promised to be idempotent travels in the SYN, where it   *)
(* may be delivered twice.                                                 *)
(***************************************************************************)
OnlyPromised == Len(sent) <= req.tfo

(***************************************************************************)
(* proxyupstreamer.cc:107-131: the client reads the end of the stream only *)
(* behind a whole answer, as long as it stays, no call fails for lack of   *)
(* resources, and its request and promised payload fit into the buffer.    *)
(***************************************************************************)
EndMeansAnswered ==
    (/\ told = "fin" /\ peer = "open" /\ faults = 0
     /\ req.kind # "malformed"
     /\ req.len + Least(req.tfo, MSS) <= BufSize) => got \in Answers

\* The greeting 0 of module Tunnel stands for the cells of an operation reply.
Greeted(q) == IF \E i \in DOMAIN q : q[i].msg = "op" THEN <<0>> ELSE <<>>

\* A value for each reactor, and for each socket, of module Tunnel.
ByDir(u, d)  == [dir \in {"up", "down"} |-> IF dir = "up" THEN u ELSE d]
BySock(c, s) == [sock \in {"client", "server"} |-> IF sock = "client" THEN c ELSE s]

\* The state as module Tunnel sees it: the authentication reply is behind us.
T == INSTANCE Tunnel WITH
        Roles <- {"proxy"},
        role <- "proxy",
        BufSize <- BufSize,
        TxSize <- MSS,
        RxSize <- RxSize,
        MaxBytes <- MaxPayload,
        streamState <- ByDir(streamState, "sending"),
        buf <- ByDir(buf, IF reply = OpReply("success") THEN <<0>> ELSE <<>>),
        obj <- ByDir("running", IF down = "connect" THEN "running" ELSE "gone"),
        busy <- "none",
        rd <- BySock(up # "gone", down = "connect"),
        wr <- BySock(down = "connect", up # "gone"),
        rx <- BySock(rx, <<>>),
        tx <- BySock(Greeted(tx), sent),
        peer <- BySock(peer, "open"),
        wrote <- BySock(IF wrote < req.len THEN 0 ELSE wrote - req.len, 0),
        got <- BySock(Greeted(got), <<>>),
        told <- BySock(told, "no")

(***************************************************************************)
(* proxyupstreamer.cc:193-211: the request phase ends in an initial state  *)
(* of the streaming phase: every payload byte is in the SYN, in the buffer *)
(* or still to be received, in order; the stream state fits the buffer;    *)
(* the operation reply is the first thing the downstreamer sends.          *)
(***************************************************************************)
HandsOver == up = "stream" /\ down = "connect" => T!Init

(***************************************************************************)
(* proxyupstreamer.cc:101-215: a client that has sent its request and the  *)
(* payload it promised eventually learns the outcome: its stream starts or *)
(* ends.                                                                   *)
(***************************************************************************)
Answered ==
    (wrote >= req.len + Least(req.tfo, MSS)) ~>
        (told # "no" \/ up = "stream" \/ peer = "aborted")

(***************************************************************************)
(* README.md:102: "Sixtysocks will redirect all requests to 0.0.0.0:53 to  *)
(* 127.0.0.1:53."  Not so in the code: in_addr holds network byte order,   *)
(* and proxyupstreamer.cc:24 stores the host integer INADDR_LOOPBACK.      *)
(***************************************************************************)
DNSRedirected ==
    server # "none" /\ req.addr = ZeroAddr /\ req.port = 53 => addr = LocalHost

=============================================================================
