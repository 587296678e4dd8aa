---------------------------- MODULE ProxifyProofs ----------------------------
(***************************************************************************)
(* Proofs about Proxify: the request and the client's bytes reach the      *)
(* proxy once and in order (SentOnce), and the client reads the server's   *)
(* bytes and no cell of a reply (RepliesStripped), for every set of ways   *)
(* to connect and any number of bytes.                                     *)
(***************************************************************************)
EXTENDS Proxify, SequenceTheorems, TLAPS

Byte == 0..MaxBytes

\* n cells: z zeros, and then 1, 2, ...
Padded(z, n) == [i \in 1..n |-> IF i <= z THEN 0 ELSE i - z]

\* Four queues, one behind another.
Line(s, t, u, v) == s \o t \o u \o v

\* TypeOK, with buffers that are sequences.
Scalars ==
    /\ setup \in Setups
    /\ up \in {"start", "connecting", "handshaking", "sendreq", "stream", "gone"}
    /\ waits \in {"client", "proxy"} /\ streamState \in {"receiving", "sending"}
    /\ hs \in {"early", "handshake", "free"} /\ earlyWritten \in 0..(RequestLen + MaxBytes)
    /\ nss \in {"none", "accepted", "rejected", "failed"}
    /\ down \in {"none", "auth", "op", "stream", "gone"}
    /\ conn \in {"none", "syn", "up", "refused"}
    /\ verdict \in {"none", "ok", "auth", "op"}
    /\ said \in 0..(2 * ReplyLen + MaxBytes) /\ wrote \in 0..MaxBytes
    /\ peer \in {"open", "fin", "aborted"} /\ hung \in BOOLEAN /\ told \in BOOLEAN
    /\ faults \in 0..MaxFaults

Queues ==
    /\ buf \in Seq(Byte) /\ early \in Seq(Byte) /\ downBuf \in Seq(Byte)
    /\ wire \in Seq(Byte) /\ heard \in Seq(Byte)
    /\ rxP \in Seq(Byte) /\ rxC \in Seq(Byte) /\ got \in Seq(Byte)

(***************************************************************************)
(* The downstreamer: in every state, the cells that the proxy has sent are *)
(* those that have been stripped, passed on, are in the buffer or have     *)
(* still to be received.                                                   *)
(***************************************************************************)
Replies ==
    /\ verdict = "none" => said = 0
    /\ got = Padded(0, Len(got))
    /\ down \in {"none", "auth", "op"} => got = <<>>
    /\ down = "none" => downBuf = <<>>
    /\ down \in {"none", "auth"} => downBuf \o rxP = Padded(4, said)
    /\ down = "op" => said >= 2 /\ downBuf \o rxP = Padded(2, said - 2)
    /\ down = "stream" => said >= 4 /\ got \o downBuf \o rxP = Padded(0, said - 4)

\* What the client's bytes and the request in front of them are, once they have
\* been handed over.
Passed ==
    \/ Line(heard, wire, buf, rxC) = Padded(2, 2 + wrote)
    \/ /\ setup.early /\ ~setup.ticket
       /\ \E n \in 1..(2 + wrote) :
             Line(heard, wire, buf, rxC) = Padded(2, n) \o Padded(2, 2 + wrote)

(***************************************************************************)
(* TLS::clientHandshake: the whole buffer is kept; what was sent as early  *)
(* data is the beginning of it, and the proxy has it only if it accepts    *)
(* early data.  Without a ticket the beginning went out as ordinary data.  *)
(***************************************************************************)
Handshaking ==
    /\ setup.early /\ hs # "free"
    /\ buf \o rxC = Padded(2, 2 + wrote)
    /\ hs = "early" =>
          heard = <<>> /\ wire = <<>> /\ early = <<>> /\ nss # "accepted"
    /\ hs = "handshake" => earlyWritten \in 0..Len(buf)
    /\ hs = "handshake" /\ setup.ticket =>
          /\ wire = <<>> /\ early = SubSeq(buf, 1, earlyWritten)
          /\ heard = IF nss = "accepted" THEN early ELSE <<>>
    /\ hs = "handshake" /\ ~setup.ticket =>
          /\ early = <<>> /\ nss # "accepted"
          /\ heard \o wire = Padded(2, earlyWritten)

\* The upstreamer.
Sending ==
    /\ up \in {"start", "connecting", "handshaking", "sendreq"} => down = "none"
    /\ up = "start" => /\ heard = <<>> /\ wire = <<>> /\ buf = <<>>
                       /\ rxC = Padded(0, wrote)
    /\ up = "start" => conn = "none"
    /\ up \in {"start", "connecting"} => nss = "none" /\ early = <<>>
    /\ up = "connecting" => Line(heard, wire, buf, rxC) = Padded(2, 2 + wrote)
    /\ up = "connecting" /\ setup.tls =>
          heard = <<>> /\ wire = <<>> /\ (hs = "free" \/ (hs = "early" /\ setup.early))
    /\ up = "start" => hs = "early"
    /\ up = "handshaking" => Handshaking
    /\ up \in {"sendreq", "stream"} => Passed
    /\ up = "sendreq" => nss # "none" \/ early = <<>>
    /\ up = "stream" /\ streamState = "receiving" => buf = <<>>

Inv == Scalars /\ Queues /\ Replies /\ Sending

-----------------------------------------------------------------------------
(* Sequences of cells *)

\* The type and the length of a concatenation.
LEMMA Conc == \A s, t \in Seq(Byte) : /\ s \o t \in Seq(Byte)
                                      /\ Len(s \o t) = Len(s) + Len(t)
BY ConcatProperties

\* Concatenation is associative, ...
LEMMA Assoc == \A s, t, u \in Seq(Byte) : (s \o t) \o u = s \o (t \o u)
BY ConcatAssociative

\* ... and nothing is neutral for it.
LEMMA Neutral == \A s \in Seq(Byte) : s \o <<>> = s /\ <<>> \o s = s
BY ConcatEmptySeq

\* Cutting a sequence in two loses nothing.
LEMMA Cut ==
    ASSUME NEW s \in Seq(Byte), NEW n \in 0..Len(s)
    PROVE  /\ SubSeq(s, 1, n) \in Seq(Byte) /\ Len(SubSeq(s, 1, n)) = n
           /\ Drop(s, n) \in Seq(Byte) /\ Len(Drop(s, n)) = Len(s) - n
           /\ SubSeq(s, 1, n) \o Drop(s, n) = s
           /\ \A i \in 1..n : SubSeq(s, 1, n)[i] = s[i]
           /\ \A i \in 1..(Len(s) - n) : Drop(s, n)[i] = s[n + i]
<1>1. Len(s) \in Nat /\ \A i \in 1..Len(s) : s[i] \in Byte
  BY LenProperties
<1>2. /\ SubSeq(s, 1, n) \in Seq(Byte) /\ Len(SubSeq(s, 1, n)) = n
      /\ \A i \in 1..n : SubSeq(s, 1, n)[i] = s[i]
  BY <1>1, SubSeqProperties
<1>3. /\ Drop(s, n) \in Seq(Byte) /\ Len(Drop(s, n)) = Len(s) - n
      /\ \A i \in 1..(Len(s) - n) : Drop(s, n)[i] = s[n + i]
  BY <1>1, SubSeqProperties DEF Drop
<1>4. SubSeq(s, 1, n) \o Drop(s, n) = SubSeq(s, 1, Len(s))
  <2>1. 1 \in 1..(Len(s) + 1) /\ n \in (1 - 1)..Len(s) /\ Len(s) \in n..Len(s)
    BY <1>1
  <2> QED
    BY <2>1, ConcatAdjacentSubSeq, Zenon DEF Drop
<1> QED
  BY <1>2, <1>3, <1>4, SubSeqFull, Zenon

\* A sequence that has the cells of s and then those of t is their concatenation.
LEMMA IsConcat ==
    ASSUME NEW s \in Seq(Byte), NEW t \in Seq(Byte), NEW u \in Seq(Byte),
           Len(u) = Len(s) + Len(t),
           \A i \in 1..Len(u) : u[i] = IF i <= Len(s) THEN s[i] ELSE t[i - Len(s)]
    PROVE  u = s \o t
<1>1. /\ s \o t \in Seq(Byte)
      /\ Len(s \o t) = Len(s) + Len(t)
      /\ \A i \in 1..(Len(s) + Len(t)) :
            (s \o t)[i] = IF i <= Len(s) THEN s[i] ELSE t[i - Len(s)]
  BY ConcatProperties
<1>2. \A i \in 1..Len(u) : u[i] = (s \o t)[i]
  BY <1>1
<1>3. Len(u) = Len(s \o t)
  BY <1>1
<1> QED
  BY <1>1, <1>2, <1>3, SeqEqual, Zenon

\* Zeros and then bytes, as a sequence.
LEMMA PaddedSeq ==
    ASSUME NEW z \in Nat, NEW n \in 0..(z + MaxBytes)
    PROVE  /\ Padded(z, n) \in Seq(Byte) /\ Len(Padded(z, n)) = n
           /\ \A i \in 1..n : Padded(z, n)[i] = IF i <= z THEN 0 ELSE i - z
<1>1. n \in Nat /\ \A i \in 1..n : (IF i <= z THEN 0 ELSE i - z) \in Byte
  BY ProxifyAssumption DEF Byte
<1>2. Padded(z, n) \in [1..n -> Byte]
  BY <1>1 DEF Padded
<1>3. Padded(z, n) \in Seq(Byte) /\ Len(Padded(z, n)) = n
  BY <1>1, <1>2
<1> QED
  BY <1>3 DEF Padded

\* No cell, and one cell more.
LEMMA PaddedNext ==
    ASSUME NEW z \in Nat, NEW n \in Nat, n < z + MaxBytes,
           NEW x, x = IF n + 1 <= z THEN 0 ELSE n + 1 - z
    PROVE  /\ Padded(z, n + 1) = Padded(z, n) \o <<x>>
           /\ <<x>> \in Seq(Byte) /\ x \in Byte
<1>1. n \in 0..(z + MaxBytes) /\ n + 1 \in 0..(z + MaxBytes) /\ x \in Byte
  BY ProxifyAssumption DEF Byte
<1>2. /\ Padded(z, n) \in Seq(Byte) /\ Len(Padded(z, n)) = n
      /\ \A i \in 1..n : Padded(z, n)[i] = IF i <= z THEN 0 ELSE i - z
  BY <1>1, PaddedSeq
<1>3. /\ Padded(z, n + 1) \in Seq(Byte) /\ Len(Padded(z, n + 1)) = n + 1
      /\ \A i \in 1..(n + 1) : Padded(z, n + 1)[i] = IF i <= z THEN 0 ELSE i - z
  BY <1>1, PaddedSeq
<1> DEFINE a == Padded(z, n)
           b == Padded(z, n + 1)
           o == <<x>>
<1>4. o \in Seq(Byte) /\ Len(o) = 1 /\ o[1] = x
  BY <1>1
<1> HIDE DEF a, b, o
<1>5. /\ a \in Seq(Byte) /\ b \in Seq(Byte) /\ Len(a) = n /\ Len(b) = n + 1
      /\ \A i \in 1..n : a[i] = IF i <= z THEN 0 ELSE i - z
      /\ \A i \in 1..(n + 1) : b[i] = IF i <= z THEN 0 ELSE i - z
  BY <1>2, <1>3 DEF a, b
<1>6. \A i \in 1..Len(b) : b[i] = IF i <= Len(a) THEN a[i] ELSE o[i - Len(a)]
  <2> SUFFICES ASSUME NEW i \in 1..(n + 1) PROVE b[i] = IF i <= n THEN a[i] ELSE o[i - n]
    BY <1>5
  <2>1. CASE i \in 1..n
    BY <1>5, <2>1
  <2>2. CASE i = n + 1
    <3>1. i - n = 1 /\ ~(i <= n)
      BY <2>2
    <3>2. b[i] = x
      BY <1>5, <2>2
    <3> QED
      BY <1>4, <3>1, <3>2
  <2> QED
    BY <2>1, <2>2
<1>7. b = a \o o
  BY <1>4, <1>5, <1>6, IsConcat, ZenonT(60)
<1> QED
  BY <1>1, <1>4, <1>7 DEF a, b, o

\* Without k of its zeros.
LEMMA PaddedDrop ==
    ASSUME NEW z \in Nat, NEW n \in 0..(z + MaxBytes), NEW k \in Nat, k <= z, k <= n
    PROVE  Drop(Padded(z, n), k) = Padded(z - k, n - k)
<1>1. /\ Padded(z, n) \in Seq(Byte) /\ Len(Padded(z, n)) = n
      /\ \A i \in 1..n : Padded(z, n)[i] = IF i <= z THEN 0 ELSE i - z
  BY PaddedSeq
<1>2. z - k \in Nat /\ n - k \in 0..((z - k) + MaxBytes) /\ k \in 0..n
  BY ProxifyAssumption
<1>3. /\ Padded(z - k, n - k) \in Seq(Byte) /\ Len(Padded(z - k, n - k)) = n - k
      /\ \A i \in 1..(n - k) : Padded(z - k, n - k)[i] = IF i <= z - k THEN 0 ELSE i - (z - k)
  BY <1>2, PaddedSeq
<1> DEFINE a == Padded(z, n)
           b == Padded(z - k, n - k)
           c == Drop(a, k)
<1> HIDE DEF a, b
<1>4. /\ c \in Seq(Byte) /\ Len(c) = n - k
      /\ \A i \in 1..(n - k) : c[i] = a[k + i]
  <2>1. a \in Seq(Byte) /\ Len(a) = n /\ k \in 0..Len(a)
    BY <1>1, <1>2 DEF a
  <2>2. /\ c \in Seq(Byte) /\ Len(c) = Len(a) - k
        /\ \A i \in 1..(Len(a) - k) : c[i] = a[k + i]
    BY <2>1, Cut
  <2> QED
    BY <2>1, <2>2
<1> HIDE DEF c
<1>5. ASSUME NEW i \in 1..(n - k) PROVE c[i] = b[i]
  <2>1. k + i \in 1..n /\ (k + i <= z <=> i <= z - k) /\ k + i - z = i - (z - k)
    BY <1>2
  <2>2. a[k + i] = IF k + i <= z THEN 0 ELSE k + i - z
    BY <1>1, <2>1 DEF a
  <2>3. b[i] = IF i <= z - k THEN 0 ELSE i - (z - k)
    BY <1>3 DEF b
  <2> QED
    BY <1>4, <2>1, <2>2, <2>3
<1>6. b \in Seq(Byte) /\ Len(b) = Len(c) /\ \A i \in 1..Len(c) : c[i] = b[i]
  BY <1>3, <1>4, <1>5 DEF b
<1>7. c = b
  BY <1>4, <1>6, SeqEqual, Zenon
<1> QED
  BY <1>7 DEF a, b, c

\* The beginning of zeros and bytes is zeros and bytes.
LEMMA PaddedStart ==
    ASSUME NEW z \in Nat, NEW n \in 0..(z + MaxBytes), NEW s \in Seq(Byte), NEW t \in Seq(Byte),
           s \o t = Padded(z, n)
    PROVE  s = Padded(z, Len(s)) /\ Len(s) + Len(t) = n /\ Len(s) \in 0..n
<1>1. /\ Len(Padded(z, n)) = n
      /\ \A i \in 1..n : Padded(z, n)[i] = IF i <= z THEN 0 ELSE i - z
  BY PaddedSeq
<1>2. /\ Len(s) \in Nat /\ Len(t) \in Nat
      /\ Len(s \o t) = Len(s) + Len(t)
      /\ \A i \in 1..(Len(s) + Len(t)) :
            (s \o t)[i] = IF i <= Len(s) THEN s[i] ELSE t[i - Len(s)]
  BY ConcatProperties, LenProperties
<1>3. Len(s) + Len(t) = n /\ Len(s) \in 0..(z + MaxBytes) /\ Len(s) \in 0..n
  <2>1. Len(s) + Len(t) = n
    BY <1>1, <1>2
  <2>2. \A l, m \in Nat : l + m = n => l \in 0..(z + MaxBytes) /\ l \in 0..n
    BY ProxifyAssumption
  <2> QED
    BY <1>2, <2>1, <2>2
<1> DEFINE b == Padded(z, Len(s))
<1>4. /\ b \in Seq(Byte) /\ Len(b) = Len(s)
      /\ \A i \in 1..Len(s) : b[i] = IF i <= z THEN 0 ELSE i - z
  BY <1>3, PaddedSeq
<1> HIDE DEF b
<1>5. ASSUME NEW i \in 1..Len(s) PROVE s[i] = b[i]
  <2>1. i \in 1..n /\ i \in 1..(Len(s) + Len(t)) /\ i <= Len(s)
    BY <1>2, <1>3
  <2>2. s[i] = IF i <= z THEN 0 ELSE i - z
    BY <1>1, <1>2, <2>1
  <2> QED
    BY <1>4, <2>2
<1>6. s = b
  BY <1>4, <1>5, SeqEqual, Zenon
<1> QED
  BY <1>3, <1>6 DEF b

\* The request and the bytes behind it.
LEMMA RequestAndBytes ==
    ASSUME NEW n \in 0..MaxBytes
    PROVE  /\ Bytes(0, n) = Padded(0, n)
           /\ Zeros(2) \in Seq(Byte) /\ Padded(0, n) \in Seq(Byte)
           /\ Zeros(2) \o Padded(0, n) = Padded(2, 2 + n)
<1>1. Bytes(0, n) = Padded(0, n)
  <2>1. n - 0 = n /\ \A i \in 1..n : 0 + i = IF i <= 0 THEN 0 ELSE i - 0
    OBVIOUS
  <2> QED
    BY <2>1 DEF Bytes, Padded
<1> DEFINE a == Zeros(2)
           b == Padded(0, n)
           c == Padded(2, 2 + n)
<1>2. a \in Seq(Byte) /\ Len(a) = 2 /\ \A i \in 1..2 : a[i] = 0
  <2>1. a \in [1..2 -> Byte]
    BY ProxifyAssumption DEF Zeros, Byte
  <2> QED
    BY <2>1 DEF Zeros
<1>3. /\ n \in 0..(0 + MaxBytes) /\ 2 + n \in 0..(2 + MaxBytes)
  BY ProxifyAssumption
<1>4. /\ b \in Seq(Byte) /\ Len(b) = n
      /\ \A i \in 1..n : b[i] = IF i <= 0 THEN 0 ELSE i - 0
  BY <1>3, PaddedSeq
<1>5. /\ c \in Seq(Byte) /\ Len(c) = 2 + n
      /\ \A i \in 1..(2 + n) : c[i] = IF i <= 2 THEN 0 ELSE i - 2
  BY <1>3, PaddedSeq
<1> HIDE DEF a, b, c
<1>6. \A i \in 1..Len(c) : c[i] = IF i <= Len(a) THEN a[i] ELSE b[i - Len(a)]
  <2> SUFFICES ASSUME NEW i \in 1..(2 + n) PROVE c[i] = IF i <= 2 THEN a[i] ELSE b[i - 2]
    BY <1>2, <1>5
  <2>1. CASE i \in 1..2
    BY <1>2, <1>5, <2>1
  <2>2. CASE i > 2
    <3>1. i - 2 \in 1..n /\ ~(i <= 2)
      BY <2>2
    <3> QED
      BY <1>4, <1>5, <3>1
  <2> QED
    BY <2>1, <2>2
<1>7. c = a \o b
  BY <1>2, <1>4, <1>5, <1>6, IsConcat, ZenonT(60)
<1> QED
  BY <1>1, <1>2, <1>4, <1>7 DEF a, b, c

\* Moving the first n cells of t to the end of s.
LEMMA Shift ==
    ASSUME NEW s \in Seq(Byte), NEW t \in Seq(Byte), NEW n \in 0..Len(t)
    PROVE  (s \o SubSeq(t, 1, n)) \o Drop(t, n) = s \o t
<1> DEFINE a == SubSeq(t, 1, n)
           b == Drop(t, n)
<1>1. a \in Seq(Byte) /\ b \in Seq(Byte)
  BY Cut, Zenon
<1>2. a \o b = t
  BY Cut, Zenon
<1> HIDE DEF a, b
<1>3. (s \o a) \o b = s \o (a \o b)
  BY <1>1, Assoc
<1> QED
  BY <1>2, <1>3 DEF a, b

\* What moves from the front of one queue to the end of the next ...
LEMMA MovedOut ==
    ASSUME NEW s \in Seq(Byte), NEW t \in Seq(Byte), NEW u \in Seq(Byte), NEW v \in Seq(Byte),
           NEW n \in 0..Len(u)
    PROVE  Line(s, t \o SubSeq(u, 1, n), Drop(u, n), v) = Line(s, t, u, v)
<1> DEFINE a == t \o SubSeq(u, 1, n)
           b == Drop(u, n)
<1>1. a \in Seq(Byte) /\ b \in Seq(Byte)
  BY Cut, Conc, Zenon
<1>2. a \o b = t \o u
  BY Shift, Zenon
<1> HIDE DEF a, b
<1>3. s \o a \o b = s \o (a \o b)
  BY <1>1, Assoc, ZenonT(60)
<1>4. s \o t \o u = s \o (t \o u)
  BY Assoc, ZenonT(60)
<1>5. s \o a \o b \o v = s \o t \o u \o v
  BY <1>2, <1>3, <1>4, Zenon
<1> QED
  BY <1>5, Zenon DEF Line, a, b

\* ... and what one queue passes on as a whole leave the line as it is.
LEMMA MovedAll ==
    ASSUME NEW s \in Seq(Byte), NEW t \in Seq(Byte), NEW u \in Seq(Byte), NEW v \in Seq(Byte)
    PROVE  /\ Line(s \o t, <<>>, u, v) = Line(s, t, u, v)
           /\ Line(s, t, v, <<>>) = Line(s, t, <<>>, v)
<1> DEFINE a == s \o t
<1>1. a \in Seq(Byte)
  BY Conc
<1> HIDE DEF a
<1>2. a \o <<>> = a
  BY <1>1, Neutral
<1>3. Line(a, <<>>, u, v) = a \o u \o v
  BY <1>2, Zenon DEF Line
<1>4. a \o v \in Seq(Byte)
  BY <1>1, Conc
<1> DEFINE b == a \o v
<1> HIDE DEF b
<1>5. b \o <<>> = b
  BY <1>4, Neutral DEF b
<1>6. a \o v \o <<>> = a \o <<>> \o v
  BY <1>2, <1>5, Zenon DEF b
<1> QED
  BY <1>3, <1>6, Zenon DEF Line, a

\* A line with nothing on its way.
LEMMA Fresh ==
    ASSUME NEW u \in Seq(Byte), NEW v \in Seq(Byte)
    PROVE  Line(<<>>, <<>>, u, v) = u \o v
<1>1. <<>> \o <<>> = <<>> /\ <<>> \in Seq(Byte)
  BY Neutral
<1>2. <<>> \o u = u
  BY Neutral
<1> QED
  BY <1>1, <1>2, Zenon DEF Line

-----------------------------------------------------------------------------
(* Steps that leave the bytes where they are *)

\* The downstreamer and what the proxy has sent are as before.
LEMMA RepliesSame ==
    ASSUME Replies, UNCHANGED <<down, downBuf, verdict, said, rxP, got>>
    PROVE  Replies'
BY DEF Replies

\* The upstreamer and its bytes are as before.
LEMMA SendingSame ==
    ASSUME Sending, UNCHANGED <<setup, up, streamState, buf, hs, earlyWritten, early, nss,
                                wire, heard, rxC, wrote>>,
           up = "start" => conn' = conn,
           up \in {"start", "connecting", "handshaking", "sendreq"} => down' = down
    PROVE  Sending'
BY DEF Sending, Passed, Handshaking

\* The upstreamer ends, for whatever reason.
LEMMA UpGoneInv ==
    ASSUME Inv, StartFails \/ HandshakeFails \/ SendRequestFails \/ UpEnds
    PROVE  Inv'
<1>1. /\ up' = "gone"
      /\ UNCHANGED <<setup, waits, streamState, buf, tls, nss, downstreamer, conn, wire, heard,
                     proxy, rxP, rxC, client, got>>
      /\ faults' = faults \/ (faults < MaxFaults /\ faults' = faults + 1)
  BY DEF StartFails, HandshakeFails, SendRequestFails, UpEnds, UpGone, Fault, NoFault
<1>2. faults' \in 0..MaxFaults
  BY <1>1, ProxifyAssumption DEF Inv, Scalars
<1>3. Scalars' /\ Queues'
  BY <1>1, <1>2 DEF Inv, Scalars, Queues, tls, downstreamer, proxy, client
<1>4. Replies'
  BY <1>1, RepliesSame DEF Inv, downstreamer, proxy
<1>5. Sending'
  BY <1>1 DEF Sending
<1> QED
  BY <1>3, <1>4, <1>5 DEF Inv

\* The connection is made, the proxy decides or closes, the client closes or
\* learns that we have.
LEMMA AsideInv ==
    ASSUME Inv,
           ConnectionMade \/ ProxyDecides \/ ProxyCloses \/ ClientCloses \/ ClientReadsFin
    PROVE  Inv'
<1>1. /\ UNCHANGED <<setup, upstreamer, tls, nss, downstreamer, wire, heard, said, rxP, rxC,
                     wrote, got, faults>>
      /\ conn' = conn \/ (conn = "syn" /\ conn' \in {"up", "refused"})
      /\ verdict' = verdict \/ (verdict = "none" /\ verdict' \in {"ok", "auth", "op"})
      /\ hung' = hung \/ hung' = TRUE
      /\ peer' \in {peer, "fin", "aborted"}
      /\ told' = told \/ told' = TRUE
  BY DEF ConnectionMade, ProxyDecides, ProxyCloses, ClientCloses, ClientReadsFin, proxy, client
<1>2. hung' \in BOOLEAN /\ told' \in BOOLEAN
  BY <1>1 DEF Inv, Scalars
<1>3. /\ conn' \in {"none", "syn", "up", "refused"} /\ verdict' \in {"none", "ok", "auth", "op"}
      /\ peer' \in {"open", "fin", "aborted"}
  BY <1>1 DEF Inv, Scalars
<1>4. Scalars' /\ Queues'
  BY <1>1, <1>2, <1>3 DEF Inv, Scalars, Queues, upstreamer, tls, downstreamer
<1>5. Replies'
  BY <1>1 DEF Inv, Replies, downstreamer
<1>6. Sending'
  <2>1. up = "start" => conn' = conn
    BY <1>1 DEF Inv, Sending
  <2> QED
    BY <1>1, <2>1, SendingSame DEF Inv, upstreamer, tls, downstreamer
<1> QED
  BY <1>4, <1>5, <1>6 DEF Inv

\* The downstreamer ends: it has existed, so the upstreamer streams or is gone.
LEMMA DownEndsInv == ASSUME Inv, DownEnds PROVE Inv'
<1>1. /\ down \in {"auth", "op", "stream"} /\ down' = "gone"
      /\ UNCHANGED <<setup, upstreamer, tls, nss, downBuf, conn, wire, heard, proxy, rxP, rxC,
                     client, got, faults>>
  BY DEF DownEnds
<1>2. Scalars' /\ Queues'
  BY <1>1 DEF Inv, Scalars, Queues, upstreamer, tls, proxy, client
<1>3. Replies'
  BY <1>1 DEF Inv, Replies, proxy
<1>4. Sending'
  <2>1. up \notin {"start", "connecting", "handshaking", "sendreq"}
    BY <1>1 DEF Inv, Sending
  <2> QED
    BY <1>1, <2>1, SendingSame DEF Inv, upstreamer, tls, client
<1> QED
  BY <1>2, <1>3, <1>4 DEF Inv

-----------------------------------------------------------------------------
(* The downstreamer and the proxy *)

\* The cells of the script: two replies of zeros, and then the server's bytes.
LEMMA ScriptCell ==
    ASSUME verdict \in {"ok", "auth", "op"}, said \in Nat, said < Len(Script)
    PROVE  /\ said < 4 + MaxBytes
           /\ Script[said + 1] = IF said + 1 <= 4 THEN 0 ELSE said + 1 - 4
<1>1. CASE verdict \in {"auth", "op"}
  <2>1. PICK n \in {2, 4} : Script = Zeros(n)
    BY <1>1 DEF Script, ReplyLen
  <2>2. Len(Zeros(n)) = n /\ \A i \in 1..n : Zeros(n)[i] = 0
    <3>1. Zeros(n) \in [1..n -> {0}] /\ n \in Nat
      BY DEF Zeros
    <3> QED
      BY <3>1
  <2>3. said < n /\ said + 1 \in 1..n
    BY <2>1, <2>2
  <2> QED
    BY <2>1, <2>2, <2>3, ProxifyAssumption
<1>2. CASE verdict = "ok"
  <2> DEFINE a == Zeros(4)
             b == Bytes(0, MaxBytes)
  <2>1. Script = a \o b
    BY <1>2 DEF Script, ReplyLen
  <2>2. a \in Seq(Nat) /\ Len(a) = 4 /\ \A i \in 1..4 : a[i] = 0
    <3>1. a \in [1..4 -> Nat]
      BY DEF Zeros
    <3> QED
      BY <3>1 DEF Zeros
  <2>3. b \in Seq(Nat) /\ Len(b) = MaxBytes /\ \A i \in 1..MaxBytes : b[i] = i
    <3>1. MaxBytes - 0 = MaxBytes /\ MaxBytes \in Nat /\ \A i \in 1..MaxBytes : 0 + i = i
      BY ProxifyAssumption
    <3>2. b \in [1..MaxBytes -> Nat] /\ \A i \in 1..MaxBytes : b[i] = i
      BY <3>1 DEF Bytes
    <3> QED
      BY <3>1, <3>2
  <2> HIDE DEF a, b
  <2>4. /\ Len(a \o b) = Len(a) + Len(b)
        /\ \A i \in 1..(Len(a) + Len(b)) :
              (a \o b)[i] = IF i <= Len(a) THEN a[i] ELSE b[i - Len(a)]
    BY <2>2, <2>3, ConcatProperties, ZenonT(60)
  <2>5. said < 4 + MaxBytes
    BY <2>1, <2>2, <2>3, <2>4
  <2>6. /\ said + 1 \in 1..(4 + MaxBytes)
        /\ said + 1 <= 4 => said + 1 \in 1..4
        /\ ~(said + 1 <= 4) => said + 1 - 4 \in 1..MaxBytes
    BY <2>5, ProxifyAssumption
  <2>7. Script[said + 1] = IF said + 1 <= 4 THEN a[said + 1] ELSE b[said + 1 - 4]
    BY <2>1, <2>2, <2>3, <2>4, <2>6
  <2> QED
    BY <2>2, <2>3, <2>5, <2>6, <2>7
<1> QED
  BY <1>1, <1>2

\* The next cell arrives behind what has arrived already.
LEMMA ProxySpeaksInv == ASSUME Inv, ProxySpeaks PROVE Inv'
<1> DEFINE x == Script[said + 1]
           y == <<x>>
<1>1. /\ verdict \in {"ok", "auth", "op"} /\ said < Len(Script) /\ said \in Nat
      /\ said' = said + 1 /\ rxP' = Append(rxP, x)
      /\ UNCHANGED <<setup, upstreamer, tls, nss, downstreamer, conn, wire, heard, verdict,
                     hung, rxC, client, got, faults>>
  BY DEF ProxySpeaks, Inv, Scalars
<1>2. said < 4 + MaxBytes /\ x = IF said + 1 <= 4 THEN 0 ELSE said + 1 - 4
  BY <1>1, ScriptCell
<1> HIDE DEF x
<1>3. Padded(4, said + 1) = Padded(4, said) \o y /\ y \in Seq(Byte) /\ x \in Byte
  BY <1>1, <1>2, PaddedNext
<1>4. said >= 2 => Padded(2, said - 1) = Padded(2, said - 2) \o y
  <2> SUFFICES ASSUME said >= 2 PROVE Padded(2, said - 1) = Padded(2, said - 2) \o y
    OBVIOUS
  <2>1. /\ said - 2 \in Nat /\ said - 2 < 2 + MaxBytes /\ (said - 2) + 1 = said - 1
        /\ x = IF (said - 2) + 1 <= 2 THEN 0 ELSE (said - 2) + 1 - 2
    BY <1>1, <1>2, ProxifyAssumption
  <2> DEFINE m == said - 2
  <2> HIDE DEF m
  <2>2. Padded(2, m + 1) = Padded(2, m) \o y
    BY <2>1, PaddedNext, ZenonT(60) DEF m
  <2>3. m + 1 = said - 1
    BY <2>1 DEF m
  <2> QED
    BY <2>2, <2>3 DEF m
<1>5. said >= 4 => Padded(0, said - 3) = Padded(0, said - 4) \o y
  <2> SUFFICES ASSUME said >= 4 PROVE Padded(0, said - 3) = Padded(0, said - 4) \o y
    OBVIOUS
  <2>1. /\ said - 4 \in Nat /\ said - 4 < 0 + MaxBytes /\ (said - 4) + 1 = said - 3
        /\ x = IF (said - 4) + 1 <= 0 THEN 0 ELSE (said - 4) + 1 - 0
    BY <1>1, <1>2, ProxifyAssumption
  <2> QED
    BY <2>1, PaddedNext, SMTT(60)
<1>6. rxP' = rxP \o y /\ rxP' \in Seq(Byte)
  BY <1>1, <1>3, AppendIsConcat, Conc, SMTT(60) DEF Inv, Queues
<1> HIDE DEF y
<1>7. Scalars' /\ Queues'
  <2>1. said' \in 0..(2 * ReplyLen + MaxBytes)
    BY <1>1, <1>2, ProxifyAssumption DEF ReplyLen
  <2> QED
    BY <1>1, <1>6, <2>1 DEF Inv, Scalars, Queues, upstreamer, tls, downstreamer, client
<1>8. Sending'
  BY <1>1, SendingSame DEF Inv, upstreamer, tls, downstreamer, client
<1>9. Replies'
  <2>1. /\ downBuf \in Seq(Byte) /\ rxP \in Seq(Byte) /\ got \in Seq(Byte) /\ y \in Seq(Byte)
        /\ down' = down /\ downBuf' = downBuf /\ got' = got /\ verdict' = verdict
    BY <1>1, <1>3 DEF Inv, Queues, downstreamer, y
  <2>2. downBuf \o rxP' = (downBuf \o rxP) \o y
    BY <1>6, <2>1, Assoc, SMTT(60)
  <2> DEFINE p == got \o downBuf
  <2>3. p \in Seq(Byte)
    BY <2>1, Conc
  <2> HIDE DEF p
  <2>4. p \o rxP' = (p \o rxP) \o y
    BY <1>6, <2>1, <2>3, Assoc, ZenonT(60)
  <2>5. down \in {"none", "auth"} => downBuf \o rxP' = Padded(4, said + 1)
    BY <1>3, <2>2 DEF Inv, Replies
  <2>6. down = "op" => said' >= 2 /\ downBuf \o rxP' = Padded(2, said' - 2)
    <3>1. said' - 2 = said - 1 /\ (said >= 2 => said' >= 2)
      BY <1>1
    <3> QED
      BY <1>4, <2>2, <3>1 DEF Inv, Replies
  <2>7. down = "stream" => said' >= 4 /\ p \o rxP' = Padded(0, said' - 4)
    <3>1. said' - 4 = said - 3 /\ (said >= 4 => said' >= 4)
      BY <1>1
    <3> QED
      BY <1>5, <2>4, <3>1 DEF Inv, Replies, p
  <2> QED
    BY <1>1, <2>1, <2>5, <2>6, <2>7 DEF Inv, Replies, p
<1> QED
  BY <1>7, <1>8, <1>9 DEF Inv

\* Streaming to the client moves bytes along.
LEMMA DownStreamInv == ASSUME Inv, DownReceive \/ DownSend PROVE Inv'
<1>1. /\ down = "stream" /\ down' = "stream"
      /\ UNCHANGED <<setup, upstreamer, tls, nss, conn, wire, heard, proxy, rxC, client, faults>>
  BY DEF DownReceive, DownSend
<1>2. /\ downBuf \in Seq(Byte) /\ rxP \in Seq(Byte) /\ got \in Seq(Byte)
      /\ said >= 4 /\ got \o downBuf \o rxP = Padded(0, said - 4)
      /\ said \in 0..(4 + MaxBytes) /\ verdict' = verdict /\ said' = said
      /\ verdict = "none" => said = 0
  BY <1>1, SMTT(60) DEF Inv, Queues, Replies, Scalars, ReplyLen, proxy
<1>3. /\ downBuf' \in Seq(Byte) /\ rxP' \in Seq(Byte) /\ got' \in Seq(Byte)
      /\ got' \o downBuf' \o rxP' = got \o downBuf \o rxP
  <2>1. CASE DownReceive
    <3>1. downBuf = <<>> /\ downBuf' = rxP /\ rxP' = <<>> /\ got' = got
      BY <2>1 DEF DownReceive
    <3>2. got \o <<>> = got
      BY <1>2, Neutral
    <3> DEFINE p == got \o rxP
    <3>3. p \in Seq(Byte)
      BY <1>2, Conc
    <3> HIDE DEF p
    <3>4. p \o <<>> = p
      BY <3>3, Neutral
    <3>5. got \o rxP \o <<>> = got \o <<>> \o rxP
      BY <3>2, <3>4, Zenon DEF p
    <3>6. <<>> \in Seq(Byte)
      OBVIOUS
    <3> QED
      BY <1>2, <3>1, <3>5, <3>6, Zenon
  <2>2. CASE DownSend
    <3>1. PICK n \in 1..Len(downBuf) : /\ got' = got \o SubSeq(downBuf, 1, n)
                                       /\ downBuf' = Drop(downBuf, n)
      BY <2>2 DEF DownSend
    <3>2. n \in 0..Len(downBuf)
      BY <1>2
    <3>3. SubSeq(downBuf, 1, n) \in Seq(Byte) /\ downBuf' \in Seq(Byte)
      BY <1>2, <3>1, <3>2, Cut
    <3>4. got' \in Seq(Byte)
      BY <1>2, <3>1, <3>3, Conc
    <3>5. got' \o downBuf' = got \o downBuf
      BY <1>2, <3>1, <3>2, Shift
    <3>6. rxP' = rxP
      BY <2>2 DEF DownSend
    <3> QED
      BY <1>2, <3>3, <3>4, <3>5, <3>6, Zenon
  <2> QED
    BY <2>1, <2>2
<1>4. got' = Padded(0, Len(got'))
  <2> DEFINE a == got'
             b == downBuf'
             c == rxP'
             d == b \o c
  <2>1. a \in Seq(Byte) /\ b \in Seq(Byte) /\ c \in Seq(Byte) /\ d \in Seq(Byte)
    BY <1>3, Conc
  <2>2. a \o b \o c = Padded(0, said - 4)
    BY <1>2, <1>3, Zenon
  <2> HIDE DEF a, b, c
  <2>3. a \o b \o c = a \o (b \o c)
    BY <2>1, Assoc, SMTT(60)
  <2>4. a \o d = Padded(0, said - 4)
    BY <2>2, <2>3
  <2>5. 0 \in Nat /\ said - 4 \in 0..(0 + MaxBytes)
    BY <1>2, ProxifyAssumption
  <2> HIDE DEF d
  <2> QED
    BY <2>1, <2>4, <2>5, PaddedStart DEF a
<1>5. Scalars' /\ Queues'
  BY <1>1, <1>3 DEF Inv, Scalars, Queues, upstreamer, tls, proxy, client
<1>6. Sending'
  BY <1>1, SendingSame DEF Inv, upstreamer, tls, client
<1>7. Replies'
  BY <1>1, <1>2, <1>3, <1>4 DEF Replies
<1> QED
  BY <1>5, <1>6, <1>7 DEF Inv

\* The replies are cut off from the front of what has arrived, one or both.
LEMMA DownReadsInv == ASSUME Inv, DownReads PROVE Inv'
<1> DEFINE b == downBuf \o rxP
           authDone == down = "op" \/ (Len(b) >= ReplyLen /\ verdict # "auth")
           rest == IF down = "auth" THEN Drop(b, ReplyLen) ELSE b
<1>1. /\ down \in {"auth", "op"} /\ rxP' = <<>>
      /\ UNCHANGED <<setup, upstreamer, tls, nss, conn, wire, heard, proxy, rxC, client, got, faults>>
  BY DEF DownReads
<1>2. \/ ~authDone /\ downBuf' = b /\ down' = down
      \/ down' = "gone" /\ downBuf' = downBuf
      \/ authDone /\ down' = "op" /\ downBuf' = rest
      \/ authDone /\ Len(rest) >= ReplyLen /\ down' = "stream" /\ downBuf' = Drop(rest, ReplyLen)
  BY DEF DownReads
<1>3. /\ downBuf \in Seq(Byte) /\ rxP \in Seq(Byte)
      /\ said \in 0..(4 + MaxBytes) /\ got = <<>> /\ got = Padded(0, Len(got))
      /\ verdict' = verdict /\ said' = said /\ got' = got
      /\ verdict = "none" => said = 0
  BY <1>1 DEF Inv, Queues, Replies, Scalars, ReplyLen, proxy
<1>4. b \in Seq(Byte)
  BY <1>3, Conc
<1>5. down = "auth" => b = Padded(4, said) /\ Len(b) = said
  BY <1>1, <1>3, PaddedSeq DEF Inv, Replies
<1>6. down = "op" => said >= 2 /\ b = Padded(2, said - 2)
  BY <1>1 DEF Inv, Replies
<1> HIDE DEF b
<1>7. authDone => said >= 2 /\ rest = Padded(2, said - 2)
  <2>1. CASE down = "op"
    BY <1>6, <2>1
  <2>2. CASE down = "auth" /\ authDone
    <3>1. /\ said >= 2 /\ rest = Drop(Padded(4, said), 2)
      BY <1>3, <1>5, <2>2 DEF ReplyLen
    <3>2. Drop(Padded(4, said), 2) = Padded(4 - 2, said - 2)
      BY <1>3, <3>1, PaddedDrop
    <3> QED
      BY <3>1, <3>2
  <2> QED
    BY <1>1, <2>1, <2>2
<1>8. ~authDone => down = "auth"
  BY <1>1
<1> HIDE DEF authDone, rest
<1>9. authDone => rest \in Seq(Byte) /\ Len(rest) = said - 2
  <2> SUFFICES ASSUME authDone PROVE rest \in Seq(Byte) /\ Len(rest) = said - 2
    OBVIOUS
  <2>1. said - 2 \in 0..(2 + MaxBytes)
    BY <1>3, <1>7, ProxifyAssumption
  <2> QED
    BY <1>7, <2>1, PaddedSeq
<1>10. authDone /\ Len(rest) >= ReplyLen => said >= 4 /\ Drop(rest, ReplyLen) = Padded(0, said - 4)
  <2> SUFFICES ASSUME authDone, Len(rest) >= ReplyLen
               PROVE  said >= 4 /\ Drop(rest, ReplyLen) = Padded(0, said - 4)
    OBVIOUS
  <2>1. /\ said >= 4 /\ said - 2 \in 0..(2 + MaxBytes) /\ 2 <= said - 2
        /\ (said - 2) - 2 = said - 4 /\ 2 - 2 = 0
    BY <1>3, <1>7, <1>9, ProxifyAssumption DEF ReplyLen
  <2> DEFINE m == said - 2
  <2> HIDE DEF m
  <2>2. Drop(Padded(2, m), 2) = Padded(2 - 2, m - 2)
    BY <2>1, PaddedDrop DEF m
  <2>3. rest = Padded(2, m)
    BY <1>7 DEF m
  <2> QED
    BY <2>1, <2>2, <2>3 DEF m, ReplyLen
<1>11. authDone /\ Len(rest) >= ReplyLen => Padded(0, said - 4) \in Seq(Byte)
  <2> SUFFICES ASSUME authDone, Len(rest) >= ReplyLen PROVE Padded(0, said - 4) \in Seq(Byte)
    OBVIOUS
  <2>1. said - 4 \in 0..(0 + MaxBytes)
    BY <1>3, <1>10, ProxifyAssumption
  <2> QED
    BY <2>1, PaddedSeq
<1>12. downBuf' \in Seq(Byte) /\ down' \in {"auth", "op", "stream", "gone"}
  BY <1>1, <1>2, <1>3, <1>4, <1>9, <1>10, <1>11, Zenon
<1>13. downBuf' \o <<>> = downBuf' /\ <<>> \in Seq(Byte)
  BY <1>12, Neutral
<1>14. Scalars' /\ Queues'
  BY <1>1, <1>12, <1>13 DEF Inv, Scalars, Queues, upstreamer, tls, proxy, client
<1>15. Sending'
  <2>1. up \notin {"start", "connecting", "handshaking", "sendreq"}
    BY <1>1 DEF Inv, Sending
  <2> QED
    BY <1>1, <2>1, SendingSame DEF Inv, upstreamer, tls, client
<1>16. Replies'
  <2>1. CASE ~authDone /\ downBuf' = b /\ down' = down
    BY <1>1, <1>3, <1>5, <1>8, <1>13, <2>1 DEF Replies
  <2>2. CASE down' = "gone"
    BY <1>3, <2>2 DEF Replies
  <2>3. CASE authDone /\ down' = "op" /\ downBuf' = rest
    BY <1>1, <1>3, <1>7, <1>13, <2>3 DEF Replies
  <2>4. CASE authDone /\ Len(rest) >= ReplyLen /\ down' = "stream" /\ downBuf' = Drop(rest, ReplyLen)
    <3>1. said >= 4 /\ downBuf' = Padded(0, said - 4)
      BY <1>10, <2>4
    <3>2. got' \o downBuf' = downBuf'
      BY <1>3, <1>12, Neutral
    <3>3. got' \o downBuf' \o rxP' = downBuf'
      BY <1>1, <1>13, <3>2, Zenon
    <3> QED
      BY <1>3, <2>4, <3>1, <3>3 DEF Replies
  <2> QED
    BY <1>2, <2>1, <2>2, <2>3, <2>4
<1> QED
  BY <1>14, <1>15, <1>16 DEF Inv

-----------------------------------------------------------------------------
(* The upstreamer, the client and the network *)

\* Bytes that only change their place have been passed on as before.
LEMMA PassedSame ==
    ASSUME Passed, setup' = setup, wrote' = wrote,
           Line(heard', wire', buf', rxC') = Line(heard, wire, buf, rxC)
    PROVE  Passed'
BY DEF Passed

\* What has arrived from the client goes behind the request.
LEMMA StartInv == ASSUME Inv, Start PROVE Inv'
<1> DEFINE b == Zeros(RequestLen) \o rxC
<1>1. /\ up = "start" /\ up' = "connecting" /\ conn' = "syn" /\ rxC' = <<>>
      /\ SockConnect(b)
      /\ UNCHANGED <<setup, earlyWritten, early, nss, downstreamer, heard, proxy, rxP, client,
                     got, faults>>
  BY DEF Start, NoFault
<1>2. /\ heard = <<>> /\ wire = <<>> /\ rxC = Padded(0, wrote) /\ wrote \in 0..MaxBytes
      /\ hs = "early" /\ nss = "none" /\ early = <<>> /\ down = "none"
  BY <1>1 DEF Inv, Sending, Scalars
<1>3. b = Padded(2, 2 + wrote) /\ b \in Seq(Byte)
  <2>1. 2 + wrote \in 0..(2 + MaxBytes)
    BY <1>2, ProxifyAssumption
  <2> QED
    BY <1>2, <2>1, RequestAndBytes, PaddedSeq DEF RequestLen
<1> HIDE DEF b
<1>4. <<>> \in Seq(Byte) /\ Line(<<>>, <<>>, b, <<>>) = b
  <2>1. b \o <<>> = b /\ <<>> \in Seq(Byte)
    BY <1>3, Neutral
  <2> QED
    BY <1>3, <2>1, Fresh
<1>5. /\ wire' \in Seq(Byte) /\ buf' \in Seq(Byte)
      /\ Line(heard', wire', buf', rxC') = b
      /\ setup.tls => wire' = <<>> /\ (hs' = "free" \/ (hs' = "early" /\ setup.early))
      /\ hs' \in {"early", "free"}
  <2>1. CASE setup.tls
    <3>1. /\ buf' = b /\ wire' = wire /\ hs' = IF setup.early THEN hs ELSE "free"
      BY <1>1, <2>1 DEF SockConnect
    <3> QED
      BY <1>1, <1>2, <1>3, <1>4, <3>1
  <2>2. CASE ~setup.tls
    <3>1. PICK k \in 0..Least(Len(b), setup.tfo) : wire' = SubSeq(b, 1, k) /\ buf' = Drop(b, k)
      BY <1>1, <2>2 DEF SockConnect
    <3>2. hs' = hs
      BY <1>1, <2>2 DEF SockConnect
    <3>3. k \in 0..Len(b)
      <4>1. Len(b) \in Nat /\ setup.tfo \in Nat
        BY <1>3, ProxifyAssumption DEF Inv, Scalars
      <4> QED
        BY <4>1 DEF Least
    <3>4. /\ wire' \in Seq(Byte) /\ buf' \in Seq(Byte) /\ wire' \o buf' = b
      BY <1>3, <3>1, <3>3, Cut
    <3>5. Line(<<>>, wire', buf', <<>>) = b
      <4>1. <<>> \o wire' = wire'
        BY <3>4, Neutral
      <4>2. b \o <<>> = b
        BY <1>3, Neutral
      <4> QED
        BY <3>4, <4>1, <4>2, Zenon DEF Line
    <3> QED
      BY <1>1, <1>2, <2>2, <3>2, <3>4, <3>5
  <2> QED
    BY <2>1, <2>2
<1>6. waits' \in {"client", "proxy"} /\ streamState' \in {"receiving", "sending"}
  BY <1>1 DEF SockConnect, Wait
<1>7. Scalars' /\ Queues'
  BY <1>1, <1>4, <1>5, <1>6 DEF Inv, Scalars, Queues, downstreamer, proxy, client
<1>8. Replies'
  BY <1>1, RepliesSame DEF Inv, downstreamer, proxy
<1>9. Sending'
  BY <1>1, <1>2, <1>3, <1>5 DEF Sending, downstreamer, client
<1> QED
  BY <1>7, <1>8, <1>9 DEF Inv

\* The connection is made: over TLS with early data the handshake comes next.
LEMMA ConnectedInv == ASSUME Inv, Connected PROVE Inv'
<1>1. /\ up = "connecting"
      /\ UNCHANGED <<setup, waits, streamState, buf, tls, nss, downstreamer, conn, wire, heard,
                     proxy, rxP, rxC, client, got, faults>>
      /\ \/ up' = "gone"
         \/ setup.tls /\ hs # "free" /\ up' = "handshaking"
         \/ ~(setup.tls /\ hs # "free") /\ up' = "sendreq"
  BY DEF Connected, UpGone
<1>2. Scalars' /\ Queues'
  BY <1>1 DEF Inv, Scalars, Queues, tls, downstreamer, proxy, client
<1>3. Replies'
  BY <1>1, RepliesSame DEF Inv, downstreamer, proxy
<1>4. /\ Line(heard, wire, buf, rxC) = Padded(2, 2 + wrote)
      /\ nss = "none" /\ early = <<>> /\ down = "none"
  BY <1>1 DEF Inv, Sending
<1>5. Sending'
  <2>1. CASE up' = "gone"
    BY <2>1 DEF Sending
  <2>2. CASE setup.tls /\ hs # "free" /\ up' = "handshaking"
    <3>1. heard = <<>> /\ wire = <<>> /\ hs = "early" /\ setup.early
      BY <1>1, <2>2 DEF Inv, Sending
    <3>2. Line(<<>>, <<>>, buf, rxC) = buf \o rxC
      BY Fresh DEF Inv, Queues
    <3>3. buf \o rxC = Padded(2, 2 + wrote)
      BY <1>4, <3>1, <3>2
    <3>4. Handshaking'
      BY <1>1, <1>4, <3>1, <3>3 DEF Handshaking, tls, client
    <3> QED
      BY <1>1, <1>4, <2>2, <3>4 DEF Sending, downstreamer
  <2>3. CASE up' = "sendreq"
    <3>1. Passed'
      BY <1>1, <1>4 DEF Passed, client
    <3> QED
      BY <1>1, <1>4, <2>3, <3>1 DEF Sending, downstreamer, tls
  <2> QED
    BY <1>1, <2>1, <2>2, <2>3
<1> QED
  BY <1>2, <1>3, <1>5 DEF Inv

\* Early data, or what is taken for it, is the beginning of the buffer.
LEMMA WriteEarlyInv == ASSUME Inv, WriteEarly PROVE Inv'
<1>1. /\ up = "handshaking" /\ hs = "early" /\ hs' = "handshake"
      /\ UNCHANGED <<setup, upstreamer, nss, downstreamer, conn, heard, proxy, rxP, rxC, client,
                     got, faults>>
  BY DEF WriteEarly
<1>2. /\ setup.early /\ heard = <<>> /\ wire = <<>> /\ early = <<>> /\ nss # "accepted"
      /\ buf \o rxC = Padded(2, 2 + wrote) /\ down = "none"
      /\ buf \in Seq(Byte) /\ rxC \in Seq(Byte) /\ wrote \in 0..MaxBytes
  BY <1>1 DEF Inv, Sending, Handshaking, Queues, Scalars
<1>3. Len(buf) \in 0..(2 + MaxBytes) /\ Len(buf) \in Nat
  <2>1. 2 + wrote \in 0..(2 + MaxBytes)
    BY <1>2, ProxifyAssumption
  <2>2. Len(buf) \in 0..(2 + wrote)
    BY <1>2, <2>1, PaddedStart
  <2>3. \A m \in 0..MaxBytes : \A l \in 0..(2 + m) : l \in 0..(2 + MaxBytes) /\ l \in Nat
    BY ProxifyAssumption
  <2> QED
    BY <1>2, <2>2, <2>3
<1>4. \/ nss = "failed" /\ earlyWritten' = 0 /\ early' = early /\ wire' = wire
      \/ \E n \in 1..Len(buf) :
            /\ earlyWritten' = n
            /\ \/ setup.ticket /\ early' = SubSeq(buf, 1, n) /\ wire' = wire
               \/ ~setup.ticket /\ wire' = wire \o SubSeq(buf, 1, n) /\ early' = early
  BY DEF WriteEarly
<1>5. /\ earlyWritten' \in 0..Len(buf) /\ early' \in Seq(Byte) /\ wire' \in Seq(Byte)
      /\ setup.ticket => wire' = <<>> /\ early' = SubSeq(buf, 1, earlyWritten')
      /\ ~setup.ticket => early' = <<>> /\ wire' = Padded(2, earlyWritten')
  <2>0. <<>> \in Seq(Byte) /\ <<>> = SubSeq(buf, 1, 0) /\ <<>> = Padded(2, 0)
    <3>1. SubSeq(buf, 1, 0) = <<>>
      BY <1>2, SubSeqEmpty
    <3>2. Padded(2, 0) \in Seq(Byte) /\ Len(Padded(2, 0)) = 0
      BY PaddedSeq, ProxifyAssumption
    <3>3. Padded(2, 0) = <<>>
      BY <3>2, EmptySeq
    <3> QED
      BY <3>1, <3>3
  <2>1. CASE nss = "failed" /\ earlyWritten' = 0 /\ early' = early /\ wire' = wire
    BY <1>2, <1>3, <2>0, <2>1
  <2>2. ASSUME NEW n \in 1..Len(buf), earlyWritten' = n,
               \/ setup.ticket /\ early' = SubSeq(buf, 1, n) /\ wire' = wire
               \/ ~setup.ticket /\ wire' = wire \o SubSeq(buf, 1, n) /\ early' = early
        PROVE  /\ earlyWritten' \in 0..Len(buf) /\ early' \in Seq(Byte) /\ wire' \in Seq(Byte)
               /\ setup.ticket => wire' = <<>> /\ early' = SubSeq(buf, 1, earlyWritten')
               /\ ~setup.ticket => early' = <<>> /\ wire' = Padded(2, earlyWritten')
    <3> DEFINE a == SubSeq(buf, 1, n)
               b == Drop(buf, n)
    <3>1. n \in 0..Len(buf)
      BY <1>3
    <3>2. a \in Seq(Byte) /\ b \in Seq(Byte) /\ Len(a) = n /\ a \o b = buf
      BY <1>2, <3>1, Cut
    <3> HIDE DEF a, b
    <3>3. a \o (b \o rxC) = Padded(2, 2 + wrote)
      <4>1. (a \o b) \o rxC = a \o (b \o rxC)
        BY <1>2, <3>2, Assoc, ZenonT(60)
      <4> QED
        BY <1>2, <3>2, <4>1
    <3>4. a = Padded(2, n)
      <4> DEFINE c == b \o rxC
      <4>1. c \in Seq(Byte)
        BY <1>2, <3>2, Conc
      <4>2. 2 + wrote \in 0..(2 + MaxBytes)
        BY <1>2, ProxifyAssumption
      <4>3. a \o c = Padded(2, 2 + wrote)
        BY <3>3
      <4> HIDE DEF c
      <4> QED
        BY <3>2, <4>1, <4>2, <4>3, PaddedStart, ZenonT(60)
    <3>5. <<>> \o a = a
      BY <3>2, Neutral
    <3>6. earlyWritten' = n /\ n \in 0..Len(buf)
      BY <2>2, <3>1
    <3>7. \/ setup.ticket /\ early' = a /\ wire' = <<>>
          \/ ~setup.ticket /\ wire' = a /\ early' = <<>>
      BY <1>2, <2>2, <3>5 DEF a
    <3> QED
      BY <2>0, <3>2, <3>4, <3>6, <3>7 DEF a
  <2> QED
    BY <1>4, <2>1, <2>2
<1>6. Scalars' /\ Queues'
  <2>1. earlyWritten' \in 0..(RequestLen + MaxBytes)
    <3>1. \A l \in 0..(2 + MaxBytes) : \A n \in 0..l : n \in 0..(2 + MaxBytes)
      BY ProxifyAssumption
    <3> QED
      BY <1>3, <1>5, <3>1 DEF RequestLen
  <2> QED
    BY <1>1, <1>5, <2>1 DEF Inv, Scalars, Queues, upstreamer, downstreamer, proxy, client
<1>7. Replies'
  BY <1>1, RepliesSame DEF Inv, downstreamer, proxy
<1>8. Sending'
  <2>1. ~setup.ticket => heard \o wire' = Padded(2, earlyWritten')
    <3>1. <<>> \o wire' = wire'
      BY <1>5, Neutral
    <3> QED
      BY <1>2, <1>5, <3>1
  <2>2. Handshaking'
    BY <1>1, <1>2, <1>5, <2>1 DEF Handshaking, upstreamer, client
  <2> QED
    BY <1>1, <1>2, <2>2 DEF Sending, upstreamer, downstreamer
<1> QED
  BY <1>6, <1>7, <1>8 DEF Inv

\* After the handshake the bytes that have been taken for early data are either
\* with the proxy or in the buffer; without a ticket they are both.
LEMMA HandshakeInv == ASSUME Inv, Handshake PROVE Inv'
<1>1. /\ up = "handshaking" /\ hs = "handshake" /\ hs' = "free" /\ up' = "sendreq"
      /\ nss \in {"accepted", "rejected"}
      /\ buf' = IF nss = "accepted" THEN Drop(buf, earlyWritten) ELSE buf
      /\ UNCHANGED <<setup, waits, streamState, earlyWritten, early, nss, downstreamer, conn, wire,
                     heard, proxy, rxP, rxC, client, got, faults>>
  BY DEF Handshake, Ready
<1>2. /\ setup.early /\ down = "none" /\ earlyWritten \in 0..Len(buf)
      /\ buf \o rxC = Padded(2, 2 + wrote)
      /\ setup.ticket => /\ wire = <<>> /\ early = SubSeq(buf, 1, earlyWritten)
                         /\ heard = IF nss = "accepted" THEN early ELSE <<>>
      /\ ~setup.ticket => nss # "accepted" /\ heard \o wire = Padded(2, earlyWritten)
      /\ buf \in Seq(Byte) /\ rxC \in Seq(Byte) /\ heard \in Seq(Byte) /\ wire \in Seq(Byte)
      /\ wrote \in 0..MaxBytes
  BY <1>1 DEF Inv, Sending, Handshaking, Queues, Scalars
<1>3. buf' \in Seq(Byte)
  BY <1>1, <1>2, Cut
<1>4. Passed'
  <2>1. CASE nss = "accepted"
    <3>1. heard = SubSeq(buf, 1, earlyWritten) /\ wire = <<>> /\ buf' = Drop(buf, earlyWritten)
      BY <1>1, <1>2, <2>1
    <3>2. heard \o wire = heard
      BY <1>2, <3>1, Neutral
    <3>3. heard \o buf' = buf
      BY <1>2, <3>1, Cut
    <3>4. Line(heard, wire, buf', rxC) = Padded(2, 2 + wrote)
      BY <1>2, <3>2, <3>3, Zenon DEF Line
    <3> QED
      BY <1>1, <3>4 DEF Passed, client
  <2>2. CASE nss # "accepted" /\ setup.ticket
    <3>1. heard = <<>> /\ wire = <<>> /\ buf' = buf
      BY <1>1, <1>2, <2>2
    <3>2. Line(<<>>, <<>>, buf, rxC) = buf \o rxC
      BY <1>2, Fresh
    <3>3. Line(heard, wire, buf', rxC) = Padded(2, 2 + wrote)
      BY <1>2, <3>1, <3>2
    <3> QED
      BY <1>1, <3>3 DEF Passed, client
  <2>3. CASE nss # "accepted" /\ ~setup.ticket
    <3>1. /\ heard \in Seq(Byte) /\ wire \in Seq(Byte) /\ buf \in Seq(Byte) /\ rxC \in Seq(Byte)
          /\ Padded(2, earlyWritten) = heard \o wire /\ Padded(2, 2 + wrote) = buf \o rxC
      BY <1>2, <2>3
    <3>2. Line(heard, wire, buf, rxC) = Padded(2, earlyWritten) \o Padded(2, 2 + wrote)
      <4> DEFINE a == Padded(2, earlyWritten)
                 b == Padded(2, 2 + wrote)
      <4>1. a = heard \o wire /\ b = buf \o rxC
        BY <3>1
      <4> HIDE DEF a, b
      <4>2. heard \in Seq(Byte) /\ wire \in Seq(Byte) /\ buf \in Seq(Byte) /\ rxC \in Seq(Byte)
        BY <3>1
      <4>3. Line(heard, wire, buf, rxC) = a \o b
        <5>1. a \in Seq(Byte)
          BY <4>1, <4>2, Conc
        <5>2. (a \o buf) \o rxC = a \o (buf \o rxC)
          BY <4>2, <5>1, Assoc, SMTT(60)
        <5> QED
          BY <4>1, <5>2, Zenon DEF Line
      <4> QED
        BY <4>3 DEF a, b
    <3>3. buf' = buf
      BY <1>1, <2>3
    <3>4. 2 + wrote \in 0..(2 + MaxBytes)
      BY <1>2, ProxifyAssumption
    <3>5. Len(buf) \in 0..(2 + wrote)
      BY <1>2, <3>4, PaddedStart
    <3>6. earlyWritten = 0 \/ earlyWritten \in 1..(2 + wrote)
      BY <1>2, <3>4, <3>5
    <3>7. CASE earlyWritten = 0
      <4>1. Padded(2, 0) = <<>>
        <5>1. Padded(2, 0) \in Seq(Byte) /\ Len(Padded(2, 0)) = 0
          BY PaddedSeq, ProxifyAssumption
        <5> QED
          BY <5>1, EmptySeq
      <4> DEFINE m == 2 + wrote
      <4> HIDE DEF m
      <4>2. Padded(2, m) \in Seq(Byte)
        BY <3>4, PaddedSeq DEF m
      <4>3. <<>> \o Padded(2, m) = Padded(2, m)
        BY <4>2, Neutral
      <4>4. Line(heard, wire, buf', rxC) = Padded(2, 2 + wrote)
        BY <3>2, <3>3, <3>7, <4>1, <4>3 DEF m
      <4> QED
        BY <1>1, <4>4 DEF Passed, client
    <3>8. CASE earlyWritten \in 1..(2 + wrote)
      BY <1>1, <1>2, <2>3, <3>2, <3>3, <3>8 DEF Passed, client
    <3> QED
      BY <3>6, <3>7, <3>8
  <2> QED
    BY <2>1, <2>2, <2>3
<1>5. Scalars' /\ Queues'
  BY <1>1, <1>3 DEF Inv, Scalars, Queues, downstreamer, proxy, client
<1>6. Replies'
  BY <1>1, RepliesSame DEF Inv, downstreamer, proxy
<1>7. Sending'
  BY <1>1, <1>2, <1>4 DEF Sending, downstreamer
<1> QED
  BY <1>4, <1>5, <1>6, <1>7 DEF Inv

\* Sending: a part of the buffer goes on the wire, and what is left is sent later.
LEMMA SendInv == ASSUME Inv, SendRequest \/ UpSend PROVE Inv'
<1>1. /\ up \in {"sendreq", "stream"} /\ up' = "stream"
      /\ UNCHANGED <<setup, waits, downBuf, tls, nss, conn, heard, proxy, rxP, rxC, client, got,
                     faults>>
      /\ down' = down \/ (up = "sendreq" /\ down' = "auth")
  BY DEF SendRequest, UpSend, downstreamer
<1>2. /\ buf \in Seq(Byte) /\ wire \in Seq(Byte) /\ heard \in Seq(Byte) /\ rxC \in Seq(Byte)
      /\ Passed
  BY <1>1 DEF Inv, Queues, Sending
<1>3. PICK n \in 0..Len(buf) :
         /\ wire' = wire \o SubSeq(buf, 1, n) /\ buf' = Drop(buf, n)
         /\ streamState' = IF n = Len(buf) THEN "receiving" ELSE "sending"
  <2>1. CASE SendRequest
    <3>1. PICK n \in (IF buf = <<>> THEN {0} ELSE 1..Len(buf)) :
             /\ wire' = wire \o SubSeq(buf, 1, n) /\ buf' = Drop(buf, n)
             /\ streamState' = IF n = Len(buf) THEN "receiving" ELSE "sending"
      BY <2>1 DEF SendRequest
    <3>2. n \in 0..Len(buf)
      BY <1>2
    <3> QED
      BY <3>1, <3>2
  <2>2. CASE UpSend
    <3>1. PICK n \in 1..Len(buf) :
             /\ wire' = wire \o SubSeq(buf, 1, n) /\ buf' = Drop(buf, n)
             /\ streamState' = IF n = Len(buf) THEN "receiving" ELSE "sending"
      BY <2>2 DEF UpSend
    <3>2. n \in 0..Len(buf)
      BY <1>2
    <3> QED
      BY <3>1, <3>2
  <2> QED
    BY <2>1, <2>2
<1>4. /\ SubSeq(buf, 1, n) \in Seq(Byte) /\ buf' \in Seq(Byte) /\ Len(buf') = Len(buf) - n
  BY <1>2, <1>3, Cut
<1>5. wire' \in Seq(Byte)
  BY <1>2, <1>3, <1>4, Conc
<1>6. streamState' = "receiving" => buf' = <<>>
  <2>1. streamState' = "receiving" => Len(buf') = 0
    BY <1>2, <1>3, <1>4
  <2> QED
    BY <1>4, <2>1, EmptySeq
<1>7. Line(heard, wire', buf', rxC) = Line(heard, wire, buf, rxC)
  BY <1>2, <1>3, MovedOut
<1>8. Passed'
  BY <1>1, <1>2, <1>7, PassedSame DEF client
<1>9. Scalars' /\ Queues'
  BY <1>1, <1>3, <1>4, <1>5, SMTT(60) DEF Inv, Scalars, Queues, tls, proxy, client
<1>10. Replies'
  <2>1. up = "sendreq" => down = "none"
    BY DEF Inv, Sending
  <2> QED
    BY <1>1, <2>1 DEF Inv, Replies, proxy
<1>11. Sending'
  BY <1>1, <1>6, <1>8 DEF Sending
<1> QED
  BY <1>9, <1>10, <1>11 DEF Inv

\* Receiving from the client: the buffer is empty before.
LEMMA UpReceiveInv == ASSUME Inv, UpReceive PROVE Inv'
<1>1. /\ up = "stream" /\ up' = "stream" /\ streamState = "receiving"
      /\ buf' = rxC /\ rxC' = <<>> /\ streamState' = "sending"
      /\ UNCHANGED <<setup, waits, tls, nss, downstreamer, conn, wire, heard, proxy, rxP, client,
                     got, faults>>
  BY DEF UpReceive
<1>2. /\ wire \in Seq(Byte) /\ heard \in Seq(Byte) /\ rxC \in Seq(Byte) /\ <<>> \in Seq(Byte)
      /\ buf = <<>> /\ Passed
  BY <1>1 DEF Inv, Queues, Sending
<1>3. Line(heard, wire, rxC, <<>>) = Line(heard, wire, <<>>, rxC)
  BY <1>2, MovedAll
<1>4. Passed'
  BY <1>1, <1>2, <1>3, PassedSame DEF client
<1>5. Scalars' /\ Queues'
  BY <1>1, <1>2 DEF Inv, Scalars, Queues, tls, downstreamer, proxy, client
<1>6. Replies'
  BY <1>1, RepliesSame DEF Inv, downstreamer, proxy
<1>7. Sending'
  BY <1>1, <1>4 DEF Sending
<1> QED
  BY <1>5, <1>6, <1>7 DEF Inv

\* The server can only accept early data that NSS has sent as such.
LEMMA TLSServerInv == ASSUME Inv, TLSServer PROVE Inv'
<1>1. /\ setup.tls /\ nss = "none" /\ up \in {"handshaking", "sendreq"}
      /\ (up = "handshaking" /\ hs = "early") => ~setup.ticket
      /\ \/ nss' \in {"rejected", "failed"} /\ heard' = heard
         \/ early # <<>> /\ nss' = "accepted" /\ heard' = heard \o early
      /\ UNCHANGED <<setup, upstreamer, tls, downstreamer, conn, wire, proxy, rxP, rxC, client, got,
                     faults>>
  BY DEF TLSServer
<1>2. /\ heard \in Seq(Byte) /\ early \in Seq(Byte) /\ heard' \in Seq(Byte)
  BY <1>1, Conc DEF Inv, Queues
<1>3. Scalars' /\ Queues'
  BY <1>1, <1>2 DEF Inv, Scalars, Queues, upstreamer, tls, downstreamer, proxy, client
<1>4. Replies'
  BY <1>1, RepliesSame DEF Inv, downstreamer, proxy
<1>5. CASE heard' = heard /\ nss' \in {"rejected", "failed"}
  <2>1. up = "handshaking" => Handshaking'
    <3> SUFFICES ASSUME up = "handshaking" PROVE Handshaking'
      OBVIOUS
    <3>1. Handshaking
      BY DEF Inv, Sending
    <3> QED
      BY <1>1, <1>5, <3>1 DEF Handshaking, upstreamer, tls, client
  <2>2. up = "sendreq" => Passed'
    BY <1>1, <1>5, PassedSame DEF Inv, Sending, upstreamer, client
  <2>3. Sending'
    BY <1>1, <1>5, <2>1, <2>2 DEF Inv, Sending, upstreamer, tls, downstreamer
  <2> QED
    BY <1>3, <1>4, <2>3 DEF Inv
<1>6. CASE early # <<>> /\ nss' = "accepted" /\ heard' = heard \o early
  <2>1. up = "handshaking" /\ Handshaking /\ hs = "handshake" /\ setup.ticket /\ heard = <<>>
    <3>1. up = "handshaking" /\ Handshaking
      BY <1>1, <1>6 DEF Inv, Sending
    <3>2. hs = "handshake" /\ setup.ticket
      BY <1>6, <3>1 DEF Handshaking, Inv, Scalars
    <3> QED
      BY <1>1, <3>1, <3>2 DEF Handshaking
  <2>2. heard' = early
    BY <1>2, <1>6, <2>1, Neutral
  <2>3. Handshaking'
    BY <1>1, <1>6, <2>1, <2>2 DEF Handshaking, upstreamer, tls, client
  <2>4. Sending'
    BY <1>1, <2>1, <2>3 DEF Inv, Sending, upstreamer, downstreamer
  <2> QED
    BY <1>3, <1>4, <2>4 DEF Inv
<1> QED
  BY <1>1, <1>5, <1>6

\* What is on the wire arrives.
LEMMA DeliveredInv == ASSUME Inv, Delivered PROVE Inv'
<1>1. /\ conn = "up" /\ wire # <<>> /\ heard' = heard \o wire /\ wire' = <<>>
      /\ UNCHANGED <<setup, upstreamer, tls, nss, downstreamer, conn, proxy, rxP, rxC, client, got,
                     faults>>
  BY DEF Delivered
<1>2. /\ wire \in Seq(Byte) /\ heard \in Seq(Byte) /\ rxC \in Seq(Byte) /\ buf \in Seq(Byte)
      /\ <<>> \in Seq(Byte)
  BY DEF Inv, Queues
<1>3. heard' \in Seq(Byte) /\ heard' \o <<>> = heard \o wire
  BY <1>1, <1>2, Conc, Neutral
<1>4. Line(heard', wire', buf', rxC') = Line(heard, wire, buf, rxC)
  <2>1. Line(heard \o wire, <<>>, buf, rxC) = Line(heard, wire, buf, rxC)
    BY <1>2, MovedAll
  <2> QED
    BY <1>1, <2>1 DEF upstreamer
<1>5. Scalars' /\ Queues'
  BY <1>1, <1>2, <1>3 DEF Inv, Scalars, Queues, upstreamer, tls, downstreamer, proxy, client
<1>6. Replies'
  BY <1>1, RepliesSame DEF Inv, downstreamer, proxy
<1>7. up # "start" /\ (up = "connecting" => ~setup.tls)
  BY <1>1 DEF Inv, Sending
<1>8. up = "handshaking" => Handshaking'
  <2> SUFFICES ASSUME up = "handshaking" PROVE Handshaking'
    OBVIOUS
  <2>1. Handshaking
    BY DEF Inv, Sending
  <2>2. hs = "handshake" /\ ~setup.ticket
    BY <1>1, <2>1 DEF Handshaking, Inv, Scalars
  <2>3. heard' \o wire' = heard \o wire
    BY <1>1, <1>3
  <2> QED
    BY <1>1, <2>1, <2>2, <2>3 DEF Handshaking, upstreamer, tls, client
<1>9. up \in {"sendreq", "stream"} => Passed'
  BY <1>1, <1>4, PassedSame DEF Inv, Sending, client
<1>10. Sending'
  BY <1>1, <1>4, <1>7, <1>8, <1>9 DEF Inv, Sending, upstreamer, tls, downstreamer, client
<1> QED
  BY <1>5, <1>6, <1>10 DEF Inv

\* What the client writes comes behind all that it has written before.
LEMMA ClientWritesInv == ASSUME Inv, ClientWrites PROVE Inv'
<1> DEFINE x == wrote + 1
           y == <<x>>
<1>1. /\ wrote < MaxBytes /\ wrote' = wrote + 1 /\ rxC' = Append(rxC, x)
      /\ UNCHANGED <<setup, upstreamer, tls, nss, downstreamer, conn, wire, heard, proxy, rxP, peer,
                     told, got, faults>>
  BY DEF ClientWrites
<1>2. /\ wire \in Seq(Byte) /\ heard \in Seq(Byte) /\ rxC \in Seq(Byte) /\ buf \in Seq(Byte)
      /\ wrote \in 0..MaxBytes /\ wrote \in Nat /\ MaxBytes \in Nat
  BY ProxifyAssumption DEF Inv, Queues, Scalars
<1>3. Padded(0, wrote + 1) = Padded(0, wrote) \o y /\ y \in Seq(Byte) /\ x \in Byte
  <2>1. wrote < 0 + MaxBytes /\ x = IF wrote + 1 <= 0 THEN 0 ELSE wrote + 1 - 0
    BY <1>1, <1>2
  <2> HIDE DEF x
  <2> QED
    BY <1>2, <2>1, PaddedNext, ZenonT(60)
<1>4. Padded(2, 2 + wrote') = Padded(2, 2 + wrote) \o y
  <2> DEFINE m == 2 + wrote
  <2>1. /\ m \in Nat /\ m < 2 + MaxBytes /\ m + 1 = 2 + wrote'
        /\ x = IF m + 1 <= 2 THEN 0 ELSE m + 1 - 2
    BY <1>1, <1>2
  <2> HIDE DEF m, x
  <2>2. Padded(2, m + 1) = Padded(2, m) \o y
    BY <2>1, PaddedNext, ZenonT(60)
  <2> QED
    BY <2>1, <2>2 DEF m
<1>5. rxC' = rxC \o y /\ rxC' \in Seq(Byte)
  BY <1>1, <1>2, <1>3, AppendIsConcat, Conc
<1> HIDE DEF x, y
<1>6. Scalars' /\ Queues'
  <2>1. wrote' \in 0..MaxBytes
    BY <1>1, <1>2
  <2> QED
    BY <1>1, <1>5, <2>1 DEF Inv, Scalars, Queues, upstreamer, tls, downstreamer, proxy
<1>7. Replies'
  BY <1>1, RepliesSame DEF Inv, downstreamer, proxy
<1> DEFINE l == Line(heard, wire, buf, rxC)
<1>8. Line(heard', wire', buf', rxC') = l \o y
  <2> DEFINE p == heard \o wire \o buf
  <2>1. heard \o wire \in Seq(Byte)
    BY <1>2, Conc
  <2>2. p \in Seq(Byte)
    BY <1>2, <2>1, Conc
  <2> HIDE DEF p
  <2>3. (p \o rxC) \o y = p \o (rxC \o y)
    BY <1>2, <1>3, <2>2, Assoc
  <2>4. heard' = heard /\ wire' = wire /\ buf' = buf
    BY <1>1 DEF upstreamer
  <2> QED
    BY <1>5, <2>3, <2>4, Zenon DEF Line, p
<1> HIDE DEF l
<1>9. up = "handshaking" => Handshaking'
  <2> SUFFICES ASSUME up = "handshaking" PROVE Handshaking'
    OBVIOUS
  <2>1. Handshaking
    BY DEF Inv, Sending
  <2>2. buf \o rxC' = (buf \o rxC) \o y
    BY <1>2, <1>3, <1>5, Assoc, ZenonT(60)
  <2>3. buf \o rxC' = Padded(2, 2 + wrote')
    BY <1>4, <2>1, <2>2 DEF Handshaking
  <2> QED
    BY <1>1, <2>1, <2>3 DEF Handshaking, upstreamer, tls
<1>10. Passed => Passed'
  <2>1. CASE l = Padded(2, 2 + wrote)
    BY <1>4, <1>8, <2>1 DEF Passed
  <2>2. ASSUME setup.early, ~setup.ticket,
               NEW n \in 1..(2 + wrote), l = Padded(2, n) \o Padded(2, 2 + wrote)
        PROVE  Passed'
    <3> DEFINE a == Padded(2, n)
               b == Padded(2, 2 + wrote)
               c == Padded(2, 2 + wrote')
    <3>1. n \in 0..(2 + MaxBytes) /\ 2 + wrote \in 0..(2 + MaxBytes) /\ n \in 1..(2 + wrote')
      BY <1>1, <1>2
    <3>2. a \in Seq(Byte) /\ b \in Seq(Byte)
      BY <3>1, PaddedSeq
    <3>3. l = a \o b /\ c = b \o y
      BY <1>4, <2>2
    <3> HIDE DEF a, b, c
    <3>4. (a \o b) \o y = a \o (b \o y)
      BY <1>3, <3>2, Assoc
    <3>5. l \o y = a \o c
      BY <3>3, <3>4, Zenon
    <3>6. Line(heard', wire', buf', rxC') = Padded(2, n) \o Padded(2, 2 + wrote')
      BY <1>8, <3>5, Zenon DEF a, c
    <3> QED
      BY <1>1, <2>2, <3>1, <3>6 DEF Passed
  <2> QED
    BY <2>1, <2>2 DEF Passed, l
<1>11. up = "start" => rxC' = Padded(0, wrote')
  BY <1>1, <1>3, <1>5 DEF Inv, Sending
<1>12. up = "connecting" => Line(heard', wire', buf', rxC') = Padded(2, 2 + wrote')
  BY <1>4, <1>8 DEF Inv, Sending, l
<1>13. Sending'
  BY <1>1, <1>9, <1>10, <1>11, <1>12 DEF Inv, Sending, upstreamer, tls, downstreamer
<1> QED
  BY <1>6, <1>7, <1>13 DEF Inv

-----------------------------------------------------------------------------
(* The theorems *)

\* Nothing has been written, sent or said.
LEMMA InitInv == Init => Inv
<1> SUFFICES ASSUME Init PROVE Inv
  OBVIOUS
<1>1. Scalars
  <2>1. 0 \in 0..(2 + MaxBytes) /\ 0 \in 0..(2 * 2 + MaxBytes) /\ 0 \in 0..MaxBytes /\ 0 \in 0..MaxFaults
    BY ProxifyAssumption
  <2>2. FALSE \in BOOLEAN
    OBVIOUS
  <2> QED
    BY <2>1, <2>2, Zenon DEF Init, Scalars, RequestLen, ReplyLen
<1>2. Queues
  BY DEF Init, Queues
<1>3. <<>> = Padded(0, 0) /\ <<>> = Padded(4, 0)
  <2>1. /\ Padded(0, 0) \in Seq(Byte) /\ Len(Padded(0, 0)) = 0
        /\ Padded(4, 0) \in Seq(Byte) /\ Len(Padded(4, 0)) = 0
    BY PaddedSeq, ProxifyAssumption
  <2> QED
    BY <2>1, EmptySeq
<1>4. Replies
  <2>1. <<>> \o <<>> = <<>> /\ Len(<<>>) = 0
    OBVIOUS
  <2> QED
    BY <1>3, <2>1 DEF Init, Replies
<1>5. Sending
  BY <1>3 DEF Init, Sending
<1> QED
  BY <1>1, <1>2, <1>4, <1>5 DEF Inv

\* Every step keeps the invariant, whoever takes it.
LEMMA NextInv == Inv /\ [Next]_vars => Inv'
<1> SUFFICES ASSUME Inv, [Next]_vars PROVE Inv'
  OBVIOUS
<1>1. CASE Upstreamer
  BY <1>1, StartInv, UpGoneInv, ConnectedInv, WriteEarlyInv, HandshakeInv, SendInv, UpReceiveInv
     DEF Upstreamer
<1>2. CASE Downstreamer
  BY <1>2, DownReadsInv, DownStreamInv, DownEndsInv DEF Downstreamer
<1>3. CASE Network
  BY <1>3, AsideInv, TLSServerInv, DeliveredInv DEF Network
<1>4. CASE ProxyDecides \/ ProxySpeaks \/ ProxyCloses \/ ClientWrites \/ ClientCloses \/ ClientReadsFin
  BY <1>4, AsideInv, ProxySpeaksInv, ClientWritesInv
<1>5. CASE UNCHANGED vars
  <2>1. UNCHANGED <<setup, upstreamer, tls, nss, downstreamer, conn, wire, heard, proxy, rxP, rxC,
                    client, got, faults>>
    BY <1>5 DEF vars
  <2>2. Scalars' /\ Queues'
    BY <2>1 DEF Inv, Scalars, Queues, upstreamer, tls, downstreamer, proxy, client
  <2>3. Replies'
    BY <2>1, RepliesSame DEF Inv, downstreamer, proxy
  <2>4. Sending'
    BY <2>1, SendingSame DEF Inv, upstreamer, tls, downstreamer, client
  <2> QED
    BY <2>2, <2>3, <2>4 DEF Inv
<1> QED
  BY <1>1, <1>2, <1>3, <1>4, <1>5 DEF Next

(***************************************************************************)
(* The inductive invariant: in every state of the upstreamer, of the TLS   *)
(* handshake and of the downstreamer it says where the bytes are.          *)
(***************************************************************************)
THEOREM ProxifyInvariant == Spec => []Inv
BY InitInv, NextInv, PTL DEF Spec

\* The variables of proxifierupstreamer.cc, proxifierdownstreamer.cc and tls.cc
\* keep their types; TLS::earlyWritten stays within the buffer's size.
THEOREM ProxifyTypeCorrect == Spec => []TypeOK
<1>1. Inv => TypeOK
  <2> SUFFICES ASSUME Inv PROVE TypeOK
    OBVIOUS
  <2>1. \A q \in Seq(Byte) : \A i \in DOMAIN q : q[i] \in Byte
    BY ElementOfSeq, LenProperties
  <2>2. \A q \in {buf, early, downBuf, wire, heard, rxP, rxC, got} : q \in Seq(Byte)
    BY DEF Inv, Queues
  <2>3. \A q \in {buf, early, downBuf, wire, heard, rxP, rxC, got} :
           \A i \in DOMAIN q : q[i] \in 0..MaxBytes
    BY <2>1, <2>2, Zenon DEF Byte
  <2> QED
    BY <2>3 DEF Inv, Scalars, TypeOK
<1> QED
  BY <1>1, ProxifyInvariant, PTL

(***************************************************************************)
(* proxifierupstreamer.cc:34-128, tls.cc:121-159: the request and behind   *)
(* it the client's bytes reach the proxy once each and in order, for every *)
(* way to connect; the one exception is that of SentOnce.                  *)
(***************************************************************************)
THEOREM ProxifySentOnce == Spec => []SentOnce
<1>1. Inv => SentOnce
  <2> SUFFICES ASSUME Inv, up \in {"connecting", "sendreq", "stream"}
               PROVE  LET stream == heard \o wire \o buf \o rxC
                          all    == Zeros(RequestLen) \o Bytes(0, wrote)
                      IN  \/ stream = all
                          \/ /\ setup.early /\ ~setup.ticket
                             /\ \E n \in DOMAIN all : stream = SubSeq(all, 1, n) \o all
    BY DEF SentOnce
  <2> DEFINE stream == heard \o wire \o buf \o rxC
             all    == Zeros(RequestLen) \o Bytes(0, wrote)
  <2>1. wrote \in 0..MaxBytes /\ 2 + wrote \in 0..(2 + MaxBytes) /\ 2 + wrote \in Nat
    BY ProxifyAssumption DEF Inv, Scalars
  <2>2. all = Padded(2, 2 + wrote)
    BY <2>1, RequestAndBytes DEF RequestLen
  <2>3. all \in Seq(Byte) /\ Len(all) = 2 + wrote
    <3> DEFINE m == 2 + wrote
    <3> HIDE DEF m
    <3>1. Padded(2, m) \in Seq(Byte) /\ Len(Padded(2, m)) = m
      BY <2>1, PaddedSeq DEF m
    <3>2. all = Padded(2, m) /\ m = 2 + wrote
      BY <2>2 DEF m
    <3> HIDE DEF all
    <3> QED
      BY <3>1, <3>2
  <2>4. stream = Line(heard, wire, buf, rxC)
    BY DEF Line
  <2>5. Passed
    BY DEF Inv, Sending, Passed
  <2> HIDE DEF stream, all
  <2>6. ASSUME NEW n \in 1..(2 + wrote)
        PROVE  n \in DOMAIN all /\ SubSeq(all, 1, n) = Padded(2, n)
    <3> DEFINE a == SubSeq(all, 1, n)
               b == Drop(all, n)
    <3>1. n \in 0..Len(all) /\ n \in 1..Len(all)
      BY <2>1, <2>3
    <3>2. a \in Seq(Byte) /\ b \in Seq(Byte) /\ Len(a) = n /\ a \o b = all
      BY <2>3, <3>1, Cut
    <3> HIDE DEF a, b
    <3>3. a \o b = Padded(2, 2 + wrote)
      BY <2>2, <3>2
    <3>4. a = Padded(2, n)
      BY <2>1, <3>2, <3>3, PaddedStart
    <3>5. DOMAIN all = 1..Len(all)
      BY <2>3, LenProperties
    <3> QED
      BY <3>1, <3>4, <3>5 DEF a
  <2> QED
    BY <2>2, <2>4, <2>5, <2>6 DEF Passed, stream, all
<1> QED
  BY <1>1, ProxifyInvariant, PTL

(***************************************************************************)
(* proxifierdownstreamer.cc:16-98: the client reads the server's bytes and *)
(* no byte of a reply, however the replies were cut into pieces.           *)
(***************************************************************************)
THEOREM ProxifyRepliesStripped == Spec => []RepliesStripped
<1>1. Inv => RepliesStripped
  <2> SUFFICES ASSUME Inv PROVE RepliesStripped
    OBVIOUS
  <2>1. \A n \in Nat : Bytes(0, n) = Padded(0, n)
    <3> SUFFICES ASSUME NEW n \in Nat PROVE Bytes(0, n) = Padded(0, n)
      OBVIOUS
    <3>1. n - 0 = n /\ \A i \in 1..n : 0 + i = IF i <= 0 THEN 0 ELSE i - 0
      OBVIOUS
    <3> QED
      BY <3>1 DEF Bytes, Padded
  <2>2. Len(got) \in Nat /\ said \in Nat
    BY ProxifyAssumption, LenProperties DEF Inv, Queues, Scalars
  <2>3. got = Bytes(0, Len(got))
    BY <2>1, <2>2 DEF Inv, Replies
  <2>4. ASSUME down = "stream" PROVE got \o downBuf \o rxP = Bytes(0, said - 2 * ReplyLen)
    <3>1. said >= 4 /\ got \o downBuf \o rxP = Padded(0, said - 4)
      BY <2>4 DEF Inv, Replies
    <3>2. said - 4 \in Nat /\ said - 2 * ReplyLen = said - 4
      BY <2>2, <3>1 DEF ReplyLen
    <3>3. Bytes(0, said - 4) = Padded(0, said - 4)
      BY <2>1, <3>2
    <3> QED
      BY <3>1, <3>2, <3>3
  <2> QED
    BY <2>3, <2>4 DEF RepliesStripped
<1> QED
  BY <1>1, ProxifyInvariant, PTL

=============================================================================
