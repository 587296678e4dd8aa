------------------------------- MODULE Proxify -------------------------------
(***************************************************************************)
(* The request phase of the proxifier: ProxifierUpstreamer                 *)
(* (proxifier/proxifierupstreamer.cc) connects to the proxy, with TCP fast *)
(* open or over TLS (tls/tls.cc) with or without early data, and sends the *)
(* request in front of the client's bytes; ProxifierDownstreamer           *)
(* (proxifier/proxifierdownstreamer.cc) strips the two replies from what   *)
(* the proxy sends.  What they do to the session is in module Sessions,    *)
(* streaming with full buffers in module Tunnel.                           *)
(*                                                                         *)
(* A cell of the request or of a reply is 0; bytes of the client and of    *)
(* the server are 1, 2, ...                                                *)
(***************************************************************************)
EXTENDS Naturals, Sequences

CONSTANTS
    Setups,      \* how a connection may be made: tls, tfo, early, ticket
    MaxBytes,    \* bound: bytes that the client, and the server, write
    MaxFaults    \* bound: system calls that fail for lack of resources

ASSUME ProxifyAssumption ==
    /\ \A c \in Setups : /\ c.tls \in BOOLEAN /\ c.early \in BOOLEAN /\ c.ticket \in BOOLEAN
                         /\ c.tfo \in Nat
    /\ MaxBytes \in Nat /\ MaxFaults \in Nat

RequestLen == 2
ReplyLen   == 2

VARIABLES
    setup,       \* tls: whether there is a TLS context; tfo and early: what
                 \* RequestSafety::recommend allows; ticket: NSS can send early data
    up,          \* ProxifierUpstreamer: "start", "connecting", "handshaking",
                 \* "sendreq", "stream", "gone"
    waits,       \* the socket it is registered for: "client", "proxy"
    streamState, \* its StreamReactor::streamState
    buf,         \* its buffer
    hs,          \* TLS::state: "early", "handshake", "free"
    earlyWritten,\* TLS::earlyWritten
    early,       \* what NSS has sent as early data
    nss,         \* the server's side of the handshake: "none", "accepted" or
                 \* "rejected" (the early data), "failed"
    down,        \* ProxifierDownstreamer: "none", "auth", "op", "stream", "gone"
    downBuf,     \* its buffer
    conn,        \* the connection to the proxy: "none", "syn", "up", "refused"
    wire, heard, \* bytes on the way to the proxy, bytes it has received
    verdict,     \* what the proxy makes of the request: "none", "ok", "auth", "op"
    said,        \* how many cells the proxy has sent
    hung,        \* whether the proxy has closed
    rxP, rxC,    \* receive buffers of the sockets of proxy and client
    peer,        \* the client: "open", "fin", "aborted"
    wrote, got,  \* how many bytes it has written, the bytes it has read
    told,        \* whether it knows that we have closed
    faults       \* failed system calls so far

upstreamer   == <<up, waits, streamState, buf>>
tls          == <<hs, earlyWritten, early>>
downstreamer == <<down, downBuf>>
proxy        == <<verdict, said, hung>>
client       == <<peer, wrote, told>>
vars == <<setup, upstreamer, tls, nss, downstreamer, conn, wire, heard, proxy, rxP, rxC,
          client, got, faults>>

Drop(s, n)   == SubSeq(s, n + 1, Len(s))
Bytes(m, n)  == [i \in 1..(n - m) |-> m + i]
Zeros(n)     == [i \in 1..n |-> 0]
Least(m, n)  == IF m <= n THEN m ELSE n

Fault   == faults < MaxFaults /\ faults' = faults + 1
NoFault == UNCHANGED faults

-----------------------------------------------------------------------------

Init ==
    /\ setup \in Setups
    /\ up = "start" /\ waits = "client" /\ streamState = "receiving" /\ buf = <<>>
    /\ hs = "early" /\ earlyWritten = 0 /\ early = <<>> /\ nss = "none"
    /\ down = "none" /\ downBuf = <<>>
    /\ conn = "none" /\ wire = <<>> /\ heard = <<>>
    /\ verdict = "none" /\ said = 0 /\ hung = FALSE
    /\ rxP = <<>> /\ rxC = <<>>
    /\ peer = "open" /\ wrote = 0 /\ told = FALSE /\ got = <<>>
    /\ faults = 0

\* StreamReactor::start for a buffer b.
Wait(b) ==
    /\ streamState' = IF b = <<>> THEN "receiving" ELSE "sending"
    /\ waits' = IF b = <<>> THEN "client" ELSE "proxy"

\* The upstreamer is deactivated, or returns without registering.
UpGone == up' = "gone" /\ UNCHANGED <<waits, streamState, buf>>

(***************************************************************************)
(* sockConnect: with TLS the connection is deferred to the first write,    *)
(* and early data are turned off unless recommended.  Without it, fast     *)
(* open hands as many bytes to the kernel as recommended, or fewer.        *)
(***************************************************************************)
SockConnect(b) ==
    \/ /\ setup.tls
       /\ hs' = IF setup.early THEN hs ELSE "free"
       /\ buf' = b
       /\ Wait(b)
       /\ UNCHANGED wire
    \/ /\ ~setup.tls
       /\ \E k \in 0..Least(Len(b), setup.tfo) :
             /\ wire' = SubSeq(b, 1, k)
             /\ buf' = Drop(b, k)
             /\ Wait(Drop(b, k))
       /\ UNCHANGED hs

\* ProxifierUpstreamer::start: what has arrived from the client goes behind the
\* request; the end of the stream is ignored here.
Start ==
    /\ up = "start"
    /\ rxC # <<>> \/ peer # "aborted"
    /\ up' = "connecting" /\ conn' = "syn" /\ rxC' = <<>>
    /\ SockConnect(Zeros(RequestLen) \o rxC)
    /\ NoFault
    /\ UNCHANGED <<setup, earlyWritten, early, nss, downstreamer, heard, proxy, rxP, client, got>>

\* recv, setsockopt, connect or epoll_ctl fails.
StartFails ==
    /\ up = "start"
    /\ \/ rxC = <<>> /\ peer = "aborted" /\ NoFault
       \/ Fault
    /\ UpGone
    /\ UNCHANGED <<setup, tls, nss, downstreamer, conn, wire, heard, proxy, rxP, rxC, client, got>>

\* S_CONNECTING: SO_ERROR is 0 also while the connection is being made.  With TLS
\* the socket may be writable before the SYN is sent (the connection is deferred).
Connected ==
    /\ up = "connecting"
    /\ \/ waits = "proxy" /\ (conn \in {"up", "refused"} \/ setup.tls)
       \/ waits = "client" /\ (rxC # <<>> \/ peer # "open")
    /\ \/ conn = "refused" /\ UpGone
       \/ /\ conn # "refused"
          /\ up' = IF setup.tls /\ hs # "free" THEN "handshaking" ELSE "sendreq"
          /\ UNCHANGED <<waits, streamState, buf>>
    /\ UNCHANGED <<setup, tls, nss, downstreamer, conn, wire, heard, proxy, rxP, rxC, client, got,
                   faults>>

-----------------------------------------------------------------------------
(* TLS::clientHandshake *)

Ready == nss \in {"accepted", "rejected"}

\* The return value of PR_Write stored as it is, -1 at the end of the stream.
WriteEarlyRaw ==
    /\ up = "handshaking" /\ hs = "early" /\ conn # "refused"
    /\ \/ nss = "failed" /\ earlyWritten' = 0 - 1 /\ UNCHANGED <<early, wire>>
       \/ \E n \in 1..Len(buf) :
             /\ \/ setup.ticket /\ early' = SubSeq(buf, 1, n) /\ UNCHANGED wire
                \/ ~setup.ticket /\ Ready /\ wire' = wire \o SubSeq(buf, 1, n) /\ UNCHANGED early
             /\ earlyWritten' = n
    /\ hs' = "handshake"
    /\ UNCHANGED <<setup, upstreamer, nss, downstreamer, conn, heard, proxy, rxP, rxC, client, got,
                   faults>>

(***************************************************************************)
(* S_WANT_EARLY.  NSS sends the ClientHello.  With a ticket PR_Write sends *)
(* early data at once; without one it blocks until the handshake is done   *)
(* and then sends ordinary data.  Both are taken for early data.  The end  *)
(* of the stream counts as nothing written.                                *)
(***************************************************************************)
WriteEarly ==
    /\ up = "handshaking" /\ hs = "early" /\ conn # "refused"
    /\ \/ nss = "failed" /\ earlyWritten' = 0 /\ UNCHANGED <<early, wire>>
       \/ \E n \in 1..Len(buf) :
             /\ \/ setup.ticket /\ early' = SubSeq(buf, 1, n) /\ UNCHANGED wire
                \/ ~setup.ticket /\ Ready /\ wire' = wire \o SubSeq(buf, 1, n) /\ UNCHANGED early
             /\ earlyWritten' = n
    /\ hs' = "handshake"
    /\ UNCHANGED <<setup, upstreamer, nss, downstreamer, conn, heard, proxy, rxP, rxC, client, got,
                   faults>>

\* Dropping the early data without a look at what became of them.
HandshakeUnchecked ==
    /\ up = "handshaking" /\ hs = "handshake" /\ Ready
    /\ buf' = Drop(buf, earlyWritten)
    /\ hs' = "free" /\ up' = "sendreq"
    /\ UNCHANGED <<setup, waits, streamState, earlyWritten, early, nss, downstreamer, conn, wire,
                   heard, proxy, rxP, rxC, client, got, faults>>

\* S_WANT_HANDSHAKE: SSL_ForceHandshake has finished; early data leave the
\* buffer if the server has accepted them.
Handshake ==
    /\ up = "handshaking" /\ hs = "handshake" /\ Ready
    /\ buf' = IF nss = "accepted" THEN Drop(buf, earlyWritten) ELSE buf
    /\ hs' = "free" /\ up' = "sendreq"
    /\ UNCHANGED <<setup, waits, streamState, earlyWritten, early, nss, downstreamer, conn, wire,
                   heard, proxy, rxP, rxC, client, got, faults>>

\* A TLS alert, a bad certificate, a reset, a deferred connection that is refused:
\* TLSException, or 0 from sockSend.
HandshakeFails ==
    /\ \/ up \in {"handshaking", "sendreq"} /\ nss = "failed"
       \/ up = "handshaking" /\ conn = "refused"
    /\ UpGone
    /\ UNCHANGED <<setup, tls, nss, downstreamer, conn, wire, heard, proxy, rxP, rxC, client, got,
                   faults>>

-----------------------------------------------------------------------------

\* A downstreamer only if the whole buffer could be sent at once.
SendRequestWhole ==
    /\ up = "sendreq"
    /\ setup.tls => Ready
    /\ \E n \in (IF buf = <<>> THEN {0} ELSE 1..Len(buf)) :
          /\ buf = <<>> \/ conn = "up"
          /\ wire' = wire \o SubSeq(buf, 1, n)
          /\ buf' = Drop(buf, n)
          /\ streamState' = IF n = Len(buf) THEN "receiving" ELSE "sending"
          /\ down' = IF n = Len(buf) THEN "auth" ELSE down
    /\ up' = "stream"
    /\ UNCHANGED <<setup, waits, downBuf, tls, nss, conn, heard, proxy, rxP, rxC, client, got, faults>>

(***************************************************************************)
(* S_SENDING_REQ: the buffer, if there is something in it, is sent as far  *)
(* as possible (over TLS after a handshake that PR_Write makes), the       *)
(* downstreamer is made, and the upstreamer streams.                       *)
(***************************************************************************)
SendRequest ==
    /\ up = "sendreq"
    /\ setup.tls => Ready
    /\ \E n \in (IF buf = <<>> THEN {0} ELSE 1..Len(buf)) :
          /\ buf = <<>> \/ conn = "up"
          /\ wire' = wire \o SubSeq(buf, 1, n)
          /\ buf' = Drop(buf, n)
          /\ streamState' = IF n = Len(buf) THEN "receiving" ELSE "sending"
    /\ up' = "stream" /\ down' = "auth"
    /\ UNCHANGED <<setup, waits, downBuf, tls, nss, conn, heard, proxy, rxP, rxC, client, got, faults>>

\* dup fails: no downstreamer, and the exception ends the upstreamer; or the
\* proxy has reset the connection.
SendRequestFails ==
    /\ up = "sendreq"
    /\ Fault \/ (NoFault /\ conn = "refused")
    /\ UpGone
    /\ UNCHANGED <<setup, tls, nss, downstreamer, conn, wire, heard, proxy, rxP, rxC, client, got>>

\* Streaming, as in module Tunnel: client to proxy.
UpReceive ==
    /\ up = "stream" /\ streamState = "receiving"
    /\ rxC # <<>>
    /\ buf' = rxC /\ rxC' = <<>> /\ streamState' = "sending"
    /\ UNCHANGED <<setup, up, waits, tls, nss, downstreamer, conn, wire, heard, proxy, rxP, client, got,
                   faults>>

UpSend ==
    /\ up = "stream" /\ streamState = "sending" /\ conn = "up" /\ ~hung
    /\ \E n \in 1..Len(buf) :
          /\ wire' = wire \o SubSeq(buf, 1, n)
          /\ buf' = Drop(buf, n)
          /\ streamState' = IF n = Len(buf) THEN "receiving" ELSE "sending"
    /\ UNCHANGED <<setup, up, waits, tls, nss, downstreamer, conn, heard, proxy, rxP, rxC, client, got,
                   faults>>

\* End of the client's stream, or an error on either side.
UpEnds ==
    /\ up = "stream"
    /\ \/ streamState = "receiving" /\ rxC = <<>> /\ peer # "open"
       \/ streamState = "sending" /\ (hung \/ conn = "refused")
    /\ UpGone
    /\ UNCHANGED <<setup, tls, nss, downstreamer, conn, wire, heard, proxy, rxP, rxC, client, got, faults>>

-----------------------------------------------------------------------------
(* ProxifierDownstreamer::process *)

\* The operation reply with the authentication reply still in front of it.
DownReadsUnstripped ==
    /\ down \in {"auth", "op"} /\ rxP # <<>>
    /\ LET b == downBuf \o rxP
       IN  \/ Len(b) < ReplyLen /\ downBuf' = b /\ UNCHANGED down
           \/ /\ Len(b) >= ReplyLen
              /\ down' = "stream" /\ downBuf' = Drop(b, ReplyLen)
    /\ rxP' = <<>>
    /\ UNCHANGED <<setup, upstreamer, tls, nss, conn, wire, heard, proxy, rxC, client, got, faults>>

(***************************************************************************)
(* The replies are parsed from what has arrived, both from one recv if     *)
(* they come together.  A failure in either ends the downstreamer; bytes   *)
(* behind the operation reply stay in the buffer and are streamed.         *)
(***************************************************************************)
DownReads ==
    /\ down \in {"auth", "op"} /\ rxP # <<>>
    /\ LET b == downBuf \o rxP
           authDone == down = "op" \/ (Len(b) >= ReplyLen /\ verdict # "auth")
           rest == IF down = "auth" THEN Drop(b, ReplyLen) ELSE b
       IN  \/ ~authDone /\ Len(b) < ReplyLen /\ downBuf' = b /\ UNCHANGED down
           \/ ~authDone /\ Len(b) >= ReplyLen /\ down' = "gone" /\ UNCHANGED downBuf
           \/ authDone /\ Len(rest) < ReplyLen /\ down' = "op" /\ downBuf' = rest
           \/ /\ authDone /\ Len(rest) >= ReplyLen
              /\ \/ verdict = "op" /\ down' = "gone" /\ UNCHANGED downBuf
                 \/ verdict = "ok" /\ down' = "stream" /\ downBuf' = Drop(rest, ReplyLen)
    /\ rxP' = <<>>
    /\ UNCHANGED <<setup, upstreamer, tls, nss, conn, wire, heard, proxy, rxC, client, got, faults>>

\* Streaming, proxy to client.
DownReceive ==
    /\ down = "stream" /\ downBuf = <<>> /\ rxP # <<>>
    /\ downBuf' = rxP /\ rxP' = <<>>
    /\ UNCHANGED <<setup, upstreamer, tls, nss, down, conn, wire, heard, proxy, rxC, client, got, faults>>

DownSend ==
    /\ down = "stream" /\ downBuf # <<>> /\ peer # "aborted"
    /\ \E n \in 1..Len(downBuf) : /\ got' = got \o SubSeq(downBuf, 1, n)
                                  /\ downBuf' = Drop(downBuf, n)
    /\ UNCHANGED <<setup, upstreamer, tls, nss, down, conn, wire, heard, proxy, rxP, rxC, client, faults>>

\* Waiting for more of a reply after the proxy has closed.
DownEndsLate ==
    /\ down = "stream"
    /\ \/ rxP = <<>> /\ (hung \/ conn = "refused") /\ downBuf = <<>>
       \/ downBuf # <<>> /\ peer = "aborted"
    /\ down' = "gone"
    /\ UNCHANGED <<setup, upstreamer, tls, nss, downBuf, conn, wire, heard, proxy, rxP, rxC, client, got,
                   faults>>

\* recv returns 0 or fails, or the client is gone.
DownEnds ==
    /\ down \in {"auth", "op", "stream"}
    /\ \/ /\ rxP = <<>> /\ (hung \/ conn = "refused")
          /\ down = "stream" => downBuf = <<>>
       \/ down = "stream" /\ downBuf # <<>> /\ peer = "aborted"
    /\ down' = "gone"
    /\ UNCHANGED <<setup, upstreamer, tls, nss, downBuf, conn, wire, heard, proxy, rxP, rxC, client, got,
                   faults>>

-----------------------------------------------------------------------------
(* The network, the proxy and the client. *)

ConnectionMade ==
    /\ conn = "syn" /\ conn' \in {"up", "refused"}
    /\ UNCHANGED <<setup, upstreamer, tls, nss, downstreamer, wire, heard, proxy, rxP, rxC, client, got,
                   faults>>

\* The server's flight: it may take early data or refuse them, or end the handshake.
TLSServer ==
    /\ setup.tls /\ conn = "up" /\ nss = "none"
    /\ (up = "handshaking" /\ hs = "early") => ~setup.ticket
    /\ up \in {"handshaking", "sendreq"}
    /\ \/ nss' = "rejected" /\ UNCHANGED heard
       \/ nss' = "failed" /\ UNCHANGED heard
       \/ early # <<>> /\ nss' = "accepted" /\ heard' = heard \o early
    /\ UNCHANGED <<setup, upstreamer, tls, downstreamer, conn, wire, proxy, rxP, rxC, client, got, faults>>

Delivered ==
    /\ conn = "up" /\ wire # <<>>
    /\ heard' = heard \o wire /\ wire' = <<>>
    /\ UNCHANGED <<setup, upstreamer, tls, nss, downstreamer, conn, proxy, rxP, rxC, client, got, faults>>

\* The cells that the proxy sends, by its verdict, and then closes.
Script == CASE verdict = "auth" -> Zeros(ReplyLen)
            [] verdict = "op"   -> Zeros(2 * ReplyLen)
            [] verdict = "ok"   -> Zeros(2 * ReplyLen) \o Bytes(0, MaxBytes)

ProxyDecides ==
    /\ verdict = "none" /\ Len(heard) >= RequestLen
    /\ verdict' \in {"ok", "auth", "op"}
    /\ UNCHANGED <<setup, upstreamer, tls, nss, downstreamer, conn, wire, heard, said, hung, rxP, rxC,
                   client, got, faults>>

ProxySpeaks ==
    /\ verdict # "none" /\ ~hung /\ said < Len(Script)
    /\ said' = said + 1
    /\ rxP' = Append(rxP, Script[said + 1])
    /\ UNCHANGED <<setup, upstreamer, tls, nss, downstreamer, conn, wire, heard, verdict, hung, rxC,
                   client, got, faults>>

ProxyCloses ==
    /\ conn = "up" /\ ~hung
    /\ hung' = TRUE
    /\ UNCHANGED <<setup, upstreamer, tls, nss, downstreamer, conn, wire, heard, verdict, said, rxP, rxC,
                   client, got, faults>>

ClientWrites ==
    /\ peer = "open" /\ up # "gone" /\ wrote < MaxBytes
    /\ wrote' = wrote + 1 /\ rxC' = Append(rxC, wrote + 1)
    /\ UNCHANGED <<setup, upstreamer, tls, nss, downstreamer, conn, wire, heard, proxy, rxP, peer, told,
                   got, faults>>

ClientCloses ==
    /\ peer = "open" /\ peer' \in {"fin", "aborted"}
    /\ UNCHANGED <<setup, upstreamer, tls, nss, downstreamer, conn, wire, heard, proxy, rxP, rxC, wrote,
                   told, got, faults>>

\* The downstreamer's descriptor for the client is shut down, or none is left.
ClientReadsFin ==
    /\ ~told /\ (down = "gone" \/ (up = "gone" /\ down = "none"))
    /\ told' = TRUE
    /\ UNCHANGED <<setup, upstreamer, tls, nss, downstreamer, conn, wire, heard, proxy, rxP, rxC, peer,
                   wrote, got, faults>>

-----------------------------------------------------------------------------

Upstreamer == \/ Start \/ StartFails \/ Connected
              \/ WriteEarly \/ Handshake \/ HandshakeFails
              \/ SendRequest \/ SendRequestFails
              \/ UpReceive \/ UpSend \/ UpEnds

Downstreamer == DownReads \/ DownReceive \/ DownSend \/ DownEnds

Network == ConnectionMade \/ TLSServer \/ Delivered

Next == \/ Upstreamer \/ Downstreamer \/ Network
        \/ ProxyDecides \/ ProxySpeaks \/ ProxyCloses
        \/ ClientWrites \/ ClientCloses \/ ClientReadsFin

(***************************************************************************)
(* The poller serves a ready descriptor; the network gives every attempt   *)
(* to connect and every handshake a result and delivers what it has taken. *)
(* The client and the proxy are not obliged to anything.                   *)
(***************************************************************************)
Fairness ==
    /\ WF_vars(Upstreamer) /\ WF_vars(Downstreamer)
    /\ WF_vars(ConnectionMade) /\ WF_vars(TLSServer) /\ WF_vars(Delivered)
    /\ WF_vars(ClientReadsFin)

Spec == Init /\ [][Next]_vars /\ Fairness

-----------------------------------------------------------------------------

\* The types of the variables.
TypeOK ==
    /\ setup \in Setups
    /\ up \in {"start", "connecting", "handshaking", "sendreq", "stream", "gone"}
    /\ waits \in {"client", "proxy"} /\ streamState \in {"receiving", "sending"}
    /\ hs \in {"early", "handshake", "free"} /\ earlyWritten \in 0..(RequestLen + MaxBytes)
    /\ nss \in {"none", "accepted", "rejected", "failed"}
    /\ down \in {"none", "auth", "op", "stream", "gone"}
    /\ conn \in {"none", "syn", "up", "refused"}
    /\ verdict \in {"none", "ok", "auth", "op"}
    /\ said \in 0..(2 * ReplyLen + MaxBytes) /\ wrote \in 0..MaxBytes
    /\ \A q \in {buf, early, downBuf, wire, heard, rxP, rxC, got} :
          \A i \in DOMAIN q : q[i] \in 0..MaxBytes
    /\ peer \in {"open", "fin", "aborted"} /\ hung \in BOOLEAN /\ told \in BOOLEAN
    /\ faults \in 0..MaxFaults

(***************************************************************************)
(* proxifierupstreamer.cc:34-128, tls.cc:121-159, socket.hh:51-59: the     *)
(* request and behind it the client's bytes reach the proxy once each and  *)
(* in order, whatever part of them went into the SYN or into early data,   *)
(* accepted or rejected.  (While the handshake runs, early data are in the *)
(* buffer too.)  One exception: if early data are recommended and NSS has  *)
(* no ticket, PR_Write in line 127 sends ordinary data; line 149 takes     *)
(* them for rejected early data and leaves them in the buffer, so the      *)
(* beginning is sent twice.                                                *)
(***************************************************************************)
SentOnce ==
    LET stream == heard \o wire \o buf \o rxC
        all    == Zeros(RequestLen) \o Bytes(0, wrote)
    IN  up \in {"connecting", "sendreq", "stream"} =>
           \/ stream = all
           \/ /\ setup.early /\ ~setup.ticket
              /\ \E n \in DOMAIN all : stream = SubSeq(all, 1, n) \o all

(***************************************************************************)
(* proxifierdownstreamer.cc:16-98: the client reads the server's bytes,    *)
(* all of them and in order, and no byte of a reply, however the replies   *)
(* and the first data were cut into pieces.                                *)
(***************************************************************************)
RepliesStripped ==
    /\ got = Bytes(0, Len(got))
    /\ down = "stream" => got \o downBuf \o rxP = Bytes(0, said - 2 * ReplyLen)

(***************************************************************************)
(* proxifierdownstreamer.cc:24-47, 70-87: when the proxy turns the client  *)
(* down or closes, the client learns that its connection is over, with the *)
(* exception that ServerHeard has.                                         *)
(***************************************************************************)
RefusalIsPassedOn ==
    (setup.tfo < RequestLen /\ (hung \/ conn = "refused" \/ nss = "failed")) ~> (told \/ peer = "aborted")

(***************************************************************************)
(* proxifierupstreamer.cc:82-128: the first byte that the server sends     *)
(* reaches a client that does not send or close anything, unless fast open *)
(* has taken the whole request.  In that case StreamReactor::start waits   *)
(* for the client alone, and the downstreamer is not made until the client *)
(* sends more.                                                             *)
(***************************************************************************)
ServerHeard ==
    (setup.tfo < RequestLen /\ said > 2 * ReplyLen) ~> (got # <<>> \/ told \/ peer # "open")

=============================================================================
