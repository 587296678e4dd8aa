--------------------------- MODULE TLSDescriptors ---------------------------
(***************************************************************************)
(* The descriptors of connections with TLS.  A TLS object (tls/tls.hh) is  *)
(* shared by the sockets of all reactors of its connection.  It keeps two  *)
(* descriptor numbers, readFD and writeFD, that belong to those sockets    *)
(* and that Socket::duplicate (core/socket.hh) replaces; NSS, above, reads *)
(* and writes through them (dRecv, dSend), on its own account too: alerts, *)
(* session tickets, the closing alert of PR_Close.  Numbers are reused by  *)
(* the kernel, lowest first.                                               *)
(*                                                                         *)
(* Only the sockets to which TLS is applied are modelled: the client's of  *)
(* a proxy, the proxy's of a proxifier.  All the rest of the program is    *)
(* OtherOpens and OtherCloses.  What is said on the connections is in      *)
(* modules ProxyRequest, Proxify and Tunnel.                               *)
(***************************************************************************)
EXTENDS Naturals

CONSTANTS
    Conn,     \* connections with TLS
    MaxFD,    \* bound: descriptor numbers
    Roles     \* what the program may be run as: "proxy", "proxifier"

Number  == 1..MaxFD
Closed  == "closed"
Other   == "other"
Reactor == {"up", "auth", "down"}

ASSUME TLSDescriptorsAssumption ==
    /\ MaxFD \in Nat /\ Roles \subseteq {"proxy", "proxifier"}
    /\ Closed \notin Conn /\ Other \notin Conn

VARIABLES
    role,      \* the mode of the program
    file,      \* the kernel's table: a connection, Other or Closed
    stage,     \* of a connection: "none", "reading", "auth", "payload",
               \* "connecting", "simple", "handshaking", "stream", "gone"
    running,   \* its reactors that are registered with the poller
    holds,     \* whether the downstreamer references the upstreamer
    fd,        \* the number each of its reactors owns, 0 for none
    readFD, writeFD,   \* of its TLS object
    pending,   \* whether NSS has the end of the handshake still before it
    astray     \* what has been written into somebody else's socket

tlsVars == <<readFD, writeFD, pending>>
vars    == <<role, file, stage, running, holds, fd, tlsVars, astray>>

-----------------------------------------------------------------------------

Free   == {n \in Number : file[n] = Closed}
Lowest == CHOOSE n \in Free : \A m \in Free : n <= m

Init ==
    /\ role \in Roles
    /\ file = [n \in Number |-> Closed]
    /\ stage = [c \in Conn |-> "none"]
    /\ running = [c \in Conn |-> {}]
    /\ holds = [c \in Conn |-> FALSE]
    /\ fd = [c \in Conn |-> [r \in Reactor |-> 0]]
    /\ readFD = [c \in Conn |-> 0] /\ writeFD = [c \in Conn |-> 0]
    /\ pending = [c \in Conn |-> FALSE]
    /\ astray = {}

\* Reactors that exist when those of R are registered: others are kept by
\* references only.
Exist(R, h) == R \cup IF "auth" \in R \/ ("down" \in R /\ h) THEN {"up"} ELSE {}

\* What of "what", written to c's writeFD when the table is f, goes elsewhere.
Emit(c, what, f) ==
    IF writeFD[c] = 0 \/ f[writeFD[c]] \in {c, Closed} THEN {} ELSE {<<c, what>>}

\* The kernel's table without the numbers of c's reactors in S.
Shut(c, S) == [n \in Number |-> IF \E r \in S : fd[c][r] = n THEN Closed ELSE file[n]]

(***************************************************************************)
(* Reactors of c end, so that those of R go on.  The ones of Reset have    *)
(* closed their numbers in the handler; what exists no more closes its     *)
(* number as it is destroyed.  The last socket to go takes the TLS object  *)
(* with it, before it closes its number: PR_Close may write an alert.      *)
(***************************************************************************)
Leaves(c, R, Reset, h, sent) ==
    LET shut == Reset \cup (Reactor \ Exist(R, h))
    IN  /\ running' = [running EXCEPT ![c] = R]
        /\ holds' = [holds EXCEPT ![c] = h /\ "down" \in R]
        /\ file' = Shut(c, shut)
        /\ fd' = [fd EXCEPT ![c] = [r \in Reactor |-> IF r \in shut THEN 0 ELSE @[r]]]
        /\ \/ astray' = astray \cup sent
           \/ R = {} /\ astray' = astray \cup sent \cup Emit(c, "notify", Shut(c, Reset))
        /\ stage' = IF R = {} THEN [stage EXCEPT ![c] = "gone"] ELSE stage

\* One number for both directions: what is read and written through is the same.
SetFDBoth(c, n) ==
    readFD' = [readFD EXCEPT ![c] = n] /\ writeFD' = [writeFD EXCEPT ![c] = n]

\* A duplicate of which the TLS object is not told.
SetFDNever(c, n) == UNCHANGED <<readFD, writeFD>>

\* setReadFD or setWriteFD: a proxifier's downstreamer duplicates the socket that
\* its upstreamer writes to; all of a proxy's, the one the upstreamer reads from.
SetFD(c, n) ==
    IF role = "proxifier"
    THEN readFD' = [readFD EXCEPT ![c] = n] /\ UNCHANGED writeFD
    ELSE writeFD' = [writeFD EXCEPT ![c] = n] /\ UNCHANGED readFD

\* Socket::duplicate, in the constructor of reactor r: its new number becomes
\* the one the TLS object reads or writes through.  The reactors of R go on;
\* what exists no longer once the handler is through closes its number.
Duplicate(c, r, R, h, s) ==
    /\ Free # {}
    /\ LET gone == Reactor \ ({r} \cup Exist(R, h))
       IN  /\ file' = [Shut(c, gone) EXCEPT ![Lowest] = c]
           /\ fd' = [fd EXCEPT ![c] = [g \in Reactor |->
                         IF g = r THEN Lowest ELSE IF g \in gone THEN 0 ELSE @[g]]]
    /\ SetFD(c, Lowest)
    /\ running' = [running EXCEPT ![c] = R]
    /\ holds' = [holds EXCEPT ![c] = h]
    /\ stage' = [stage EXCEPT ![c] = s]

-----------------------------------------------------------------------------

\* The constructor of an upstreamer: a socket is accepted by the proxy, or made
\* by the proxifier, and the TLS object reads and writes through it.  At a proxy
\* the request may be early data, ahead of the end of the handshake.
Make(c) ==
    /\ stage[c] = "none" /\ Free # {}
    /\ file' = [file EXCEPT ![Lowest] = c]
    /\ fd' = [fd EXCEPT ![c].up = Lowest]
    /\ readFD' = [readFD EXCEPT ![c] = Lowest]
    /\ writeFD' = [writeFD EXCEPT ![c] = Lowest]
    /\ running' = [running EXCEPT ![c] = {"up"}]
    /\ stage' = [stage EXCEPT ![c] = IF role = "proxy" THEN "reading" ELSE "handshaking"]
    /\ pending' \in {pending, [pending EXCEPT ![c] = role = "proxy"]}
    /\ UNCHANGED <<role, holds, astray>>

\* tlsRead by the upstreamer of a proxy: if the handshake is completed by it, NSS
\* sends a session ticket.
Reads(c) ==
    /\ \/ UNCHANGED <<pending, astray>>
       \/ /\ pending[c] /\ file[writeFD[c]] # Closed
          /\ pending' = [pending EXCEPT ![c] = FALSE]
          /\ astray' = astray \cup Emit(c, "ticket", file)

\* ProxyUpstreamer, S_READING_REQ: the request is there, or the version is wrong;
\* the simple downstreamer does not reference the upstreamer.
ReadRequest(c) ==
    /\ stage[c] = "reading"
    /\ \/ Duplicate(c, "auth", {"auth"}, FALSE, "auth")
       \/ Duplicate(c, "down", {"down"}, FALSE, "simple")
    /\ Reads(c)
    /\ UNCHANGED role

\* AuthServer::sendReply: with the last byte of a good reply the upstreamer goes
\* on, inside the same handler, and the AuthServer is destroyed after it.
AuthSend(c) ==
    /\ stage[c] = "auth"
    /\ \/ Duplicate(c, "down", {"down"}, FALSE, "simple") /\ UNCHANGED astray
       \/ /\ file' = Shut(c, {"auth"})
          /\ fd' = [fd EXCEPT ![c].auth = 0]
          /\ running' = [running EXCEPT ![c] = {"up"}]
          /\ \E s \in {"payload", "connecting"} : stage' = [stage EXCEPT ![c] = s]
          /\ UNCHANGED <<readFD, writeFD, holds, astray>>
    /\ UNCHANGED <<role, pending>>

\* ProxyUpstreamer, S_READING_TFO_PAYLOAD: more of the payload, and the connection
\* to the server once it is complete, or the reply that there is none.
ReadPayload(c) ==
    /\ stage[c] = "payload"
    /\ \/ /\ stage' \in {stage, [stage EXCEPT ![c] = "connecting"]}
          /\ UNCHANGED <<file, running, holds, fd, readFD, writeFD>>
       \/ Duplicate(c, "down", {"down"}, FALSE, "simple")
    /\ Reads(c)
    /\ UNCHANGED role

\* ProxyUpstreamer, S_CONNECTING: the server has answered, or cannot be reached.
Connected(c) ==
    /\ stage[c] = "connecting"
    /\ \/ Duplicate(c, "down", {"up", "down"}, TRUE, "stream")
       \/ Duplicate(c, "down", {"down"}, FALSE, "simple")
    /\ UNCHANGED <<role, pending, astray>>

\* ProxifierUpstreamer: the handshake is over and the request sent.
SendRequest(c) ==
    /\ stage[c] = "handshaking"
    /\ Duplicate(c, "down", {"up", "down"}, TRUE, "stream")
    /\ UNCHANGED <<role, pending, astray>>

\* ProxifierDownstreamer after the operation reply: upstreamer = nullptr.
DropUpstreamer(c) ==
    /\ role = "proxifier" /\ "down" \in running[c] /\ holds[c]
    /\ Leaves(c, running[c], {}, FALSE, {})
    /\ UNCHANGED <<role, tlsVars>>

\* Who reads from, and who writes to, the socket with TLS while data stream.
Reader == IF role = "proxy" THEN "up" ELSE "down"
Writer == IF role = "proxy" THEN "down" ELSE "up"

\* StreamReactor::process, receiving: a sockRecv in which the handshake ends.
StreamRead(c) ==
    /\ stage[c] = "stream" /\ Reader \in running[c] /\ fd[c][Reader] # 0
    /\ pending[c] /\ Reads(c)
    /\ UNCHANGED <<role, file, stage, running, holds, fd, readFD, writeFD>>

\* StreamReactor::process: a reactor is at the end of the stream, or its peer takes
\* no more; it closes its sockets.  A reader with bytes left to send closes the
\* one, and goes on.
EndOfStream(c, r) ==
    /\ stage[c] \in {"stream", "simple"} /\ r \in running[c]
    /\ \/ /\ r = Reader /\ fd[c][r] # 0
          /\ Leaves(c, running[c], {r}, holds[c], {})
       \/ Leaves(c, running[c] \ {r}, {r}, holds[c], {})
    /\ UNCHANGED <<role, tlsVars>>

\* A reactor is deactivated after an error, or returns without registering: its
\* descriptors stay open as long as it exists.  Records that NSS cannot read, it
\* answers with an alert.
Fails(c, r) ==
    /\ r \in running[c]
    /\ \E sent \in {{}, IF r = Reader THEN Emit(c, "alert", file) ELSE {}} :
          Leaves(c, running[c] \ {r}, {}, holds[c], sent)
    /\ UNCHANGED <<role, tlsVars>>

\* Everything else that opens and closes descriptors.
OtherOpens ==
    /\ Free # {}
    /\ file' = [file EXCEPT ![Lowest] = Other]
    /\ UNCHANGED <<role, stage, running, holds, fd, tlsVars, astray>>

OtherCloses(n) ==
    /\ file[n] = Other
    /\ file' = [file EXCEPT ![n] = Closed]
    /\ UNCHANGED <<role, stage, running, holds, fd, tlsVars, astray>>

Next ==
    \/ \E c \in Conn :
          \/ Make(c) \/ ReadRequest(c) \/ AuthSend(c) \/ ReadPayload(c) \/ Connected(c)
          \/ SendRequest(c) \/ DropUpstreamer(c) \/ StreamRead(c)
          \/ \E r \in Reactor : EndOfStream(c, r) \/ Fails(c, r)
    \/ OtherOpens
    \/ \E n \in Number : OtherCloses(n)

Spec == Init /\ [][Next]_vars

-----------------------------------------------------------------------------

\* The number n is open, and of c's reactor r.
Owns(c, r, n) == n # 0 /\ fd[c][r] = n /\ file[n] = c

(***************************************************************************)
(* tls.cc:162-186, 306-336: whenever a reactor reads or writes through the *)
(* TLS object, it does so through the number of its own socket, although   *)
(* the object is shared and reactors of the connection come, duplicate     *)
(* sockets, close them and go in many orders.  The same number goes into   *)
(* the RescheduleException, so the poller registers a reactor for what it  *)
(* owns.                                                                   *)
(***************************************************************************)
OwnDescriptors ==
    \A c \in Conn :
        /\ stage[c] \in {"reading", "payload"} => Owns(c, "up", readFD[c])
        /\ stage[c] = "handshaking" => Owns(c, "up", readFD[c]) /\ Owns(c, "up", writeFD[c])
        /\ stage[c] = "auth" => Owns(c, "auth", writeFD[c])
        /\ stage[c] = "simple" => Owns(c, "down", writeFD[c])
        /\ stage[c] = "stream" /\ Reader \in running[c] /\ fd[c][Reader] # 0 =>
              Owns(c, Reader, readFD[c])
        /\ stage[c] = "stream" /\ Writer \in running[c] => Owns(c, Writer, writeFD[c])

(***************************************************************************)
(* tls.hh:49, uniqfd.hh:47-54, authserver.cc:35: the object keeps writeFD  *)
(* when the socket is closed, and what NSS writes on its own account then  *)
(* goes to whatever has the number by that time.  This happens only while  *)
(* the connection has nobody to write for it: between the AuthServer's end *)
(* and the downstreamer's beginning, or behind the end of the writer; then *)
(* the number is nobody's of this connection.                              *)
(***************************************************************************)
StraysHaveNoOwner ==
    [][\A c \in Conn : (\E e \in astray' \ astray : e[1] = c) =>
          /\ \A r \in Reactor : fd[c][r] # writeFD[c]
          /\ \/ role = "proxy" /\ stage[c] \in {"payload", "connecting"}
             \/ stage[c] = "stream" /\ fd[c][Writer] = 0]_vars

=============================================================================
