------------------------- MODULE ProxyRequestProofs -------------------------
(***************************************************************************)
(* Proofs about ProxyRequest: a client gets the start of one legal answer, *)
(* and nothing behind an end of the stream is missing; nothing is done for *)
(* a client that has not been authenticated; only promised payload travels *)
(* in a SYN; streaming starts with every byte in its place.  For any set   *)
(* of requests and any sizes.                                              *)
(***************************************************************************)
EXTENDS ProxyRequest, SequenceTheorems, TLAPS

Byte == 0..MaxPayload

\* n cells: z zeros, and then 1, 2, ...
Padded(z, n) == [i \in 1..n |-> IF i <= z THEN 0 ELSE i - z]

\* TypeOK: the objects and what is said to the client.
Objects ==
    /\ req \in Requests
    /\ up \in {"reading", "auth", "payload", "connecting", "stream", "gone"}
    /\ at \in {"poll", "auth", "honor"}
    /\ down \in {"none", "simple", "connect", "gone"}
    /\ streamState \in {"receiving", "sending"}
    /\ authBuf \in Seq(Cells) /\ reply \in Seq(Cells) /\ tx \in Seq(Cells) /\ got \in Seq(Cells)
    /\ Len(tx) <= TxSize
    /\ peer \in {"open", "fin", "aborted"} /\ told \in {"no", "fin", "reset"}
    /\ server \in {"none", "syn", "up", "refused"}
    /\ faults \in 0..MaxFaults

\* TypeOK: the payload; and only what is promised leaves in the SYN.
Data ==
    /\ buf \in Seq(Byte) /\ rx \in Seq(Byte) /\ sent \in Seq(Byte)
    /\ head \in Nat /\ head + Len(buf) <= BufSize /\ Len(rx) <= RxSize
    /\ tfoPayload \in 0..MSS /\ tfoPayload <= req.tfo
    /\ addr \in [1..4 -> 0..255]
    /\ wrote \in 0..(req.len + MaxPayload)
    /\ Len(sent) <= tfoPayload

AuthCells == {[msg |-> "auth", code |-> c] : c \in {"success", "failure"}}

\* Which reactor exists when, and what is known of the request by then.
Phases ==
    /\ at # "poll" => up = "auth"
    /\ up \in {"reading", "auth", "payload", "connecting"} => down = "none"
    /\ up = "stream" => down \in {"connect", "gone"}
    /\ down = "connect" => up = "stream" /\ reply = OpReply("success") /\ server = "up"
    /\ down = "none" => reply = <<>>
    /\ up = "stream" /\ down = "gone" => reply = <<>>
    /\ up # "auth" \/ at = "honor" => authBuf = <<>>
    /\ up = "auth" => req.kind \notin {"badVersion", "malformed"}
    /\ at = "honor" => req.ok
    /\ up \in {"payload", "connecting", "stream"} \/ server # "none" =>
          req.kind = "connect" /\ req.ok
    /\ up \in {"reading", "auth", "payload"} => server = "none" /\ sent = <<>>
    /\ authBuf \in Seq(AuthCells)
    /\ up # "gone" => told # "reset"
    /\ up # "gone" => got \in Seq(AuthCells) /\ tx \in Seq(AuthCells)

\* Whether the client still reads what it is sent.
Listening == told # "reset" /\ peer # "aborted"

\* What has been said to the client so far, and what is about to be.
Spoken ==
    Listening =>
        /\ up = "reading" => got \o tx = <<>>
        /\ up = "auth" /\ at # "honor" => got \o tx \o authBuf = AuthReply(req.ok)
        /\ \/ at = "honor" \/ up \in {"payload", "connecting", "stream"}
           \/ server # "none" /\ down = "none"
           => got \o tx = AuthReply(TRUE)
        /\ up = "gone" /\ down = "none" => got \o tx \in {<<>>, AuthReply(FALSE), AuthReply(TRUE)}
        /\ up = "gone" /\ down # "none" =>
              \/ server = "none" /\ got \o tx \o reply = VersionReply
              \/ /\ Len(reply) <= 2
                 /\ \E c \in OpCodes : got \o tx \o reply = AuthReply(TRUE) \o OpReply(c)

\* Nothing has failed, and request and payload fit into the buffer.
Undisturbed == /\ peer = "open" /\ faults = 0 /\ told # "reset" /\ req.kind # "malformed"
               /\ req.len + Least(req.tfo, MSS) <= BufSize

\* Unless disturbed the upstreamer ends with an answer; a FIN comes last.
Endings ==
    /\ Undisturbed => /\ up = "gone" /\ down = "none" => got \o tx = AuthReply(FALSE)
                      /\ down = "gone" => up = "gone" /\ reply = <<>>
    /\ told = "fin" => tx = <<>> /\ (down = "gone" \/ (up = "gone" /\ down = "none"))

\* Where the bytes are that the client has written.
Accounts ==
    /\ up = "reading" => head = 0 /\ Len(buf) < req.len /\ buf \o rx = Padded(req.len, wrote)
    /\ up \in {"auth", "payload"} => /\ head <= req.len /\ wrote >= req.len
                                     /\ buf \o rx = Padded(0, wrote - req.len)
    /\ up = "payload" => tfoPayload = Least(req.tfo, MSS) 
    /\ up \in {"connecting", "stream"} => /\ wrote >= req.len
                                          /\ sent \o buf \o rx = Padded(0, wrote - req.len)
    /\ up = "stream" => streamState = IF buf = <<>> THEN "receiving" ELSE "sending"

Inv == Objects /\ Data /\ Phases /\ Spoken /\ Endings /\ Accounts

-----------------------------------------------------------------------------
(* Sequences *)

\* The type and the length of a concatenation.
LEMMA Conc == ASSUME NEW S, NEW s \in Seq(S), NEW t \in Seq(S)
              PROVE  s \o t \in Seq(S) /\ Len(s \o t) = Len(s) + Len(t)
BY ConcatProperties

\* Concatenation of cells is associative.
LEMMA AssocCells == \A s, t, u \in Seq(Cells) : (s \o t) \o u = s \o (t \o u)
BY ConcatAssociative

\* The same for bytes.
LEMMA AssocBytes == \A s, t, u \in Seq(Byte) : (s \o t) \o u = s \o (t \o u)
BY ConcatAssociative

\* Cutting a sequence in two loses nothing.
LEMMA Cut ==
    ASSUME NEW S, NEW s \in Seq(S), NEW n \in 0..Len(s)
    PROVE  /\ SubSeq(s, 1, n) \in Seq(S) /\ Len(SubSeq(s, 1, n)) = n
           /\ SubSeq(s, n + 1, Len(s)) \in Seq(S)
           /\ Len(SubSeq(s, n + 1, Len(s))) = Len(s) - n
           /\ SubSeq(s, 1, n) \o SubSeq(s, n + 1, Len(s)) = s
<1>1. Len(s) \in Nat /\ \A i \in 1..Len(s) : s[i] \in S
  BY LenProperties
<1>2. SubSeq(s, 1, n) \in Seq(S) /\ Len(SubSeq(s, 1, n)) = n
  BY <1>1, SubSeqProperties
<1>3. /\ SubSeq(s, n + 1, Len(s)) \in Seq(S)
      /\ Len(SubSeq(s, n + 1, Len(s))) = Len(s) - n
  BY <1>1, SubSeqProperties
<1>4. SubSeq(s, 1, n) \o SubSeq(s, n + 1, Len(s)) = SubSeq(s, 1, Len(s))
  <2>1. 1 \in 1..(Len(s) + 1) /\ n \in (1 - 1)..Len(s) /\ Len(s) \in n..Len(s)
    BY <1>1
  <2> QED
    BY <2>1, ConcatAdjacentSubSeq, Zenon
<1> QED
  BY <1>2, <1>3, <1>4, SubSeqFull, Zenon

\* Sending the first n cells of q behind t changes nothing of what is said.
LEMMA PassOn ==
    ASSUME NEW g \in Seq(Cells), NEW t \in Seq(Cells), NEW q \in Seq(Cells), NEW n \in 0..Len(q)
    PROVE  /\ t \o SubSeq(q, 1, n) \in Seq(Cells) /\ Len(t \o SubSeq(q, 1, n)) = Len(t) + n
           /\ (g \o (t \o SubSeq(q, 1, n))) \o SubSeq(q, n + 1, Len(q)) = (g \o t) \o q
<1> DEFINE a == SubSeq(q, 1, n)
           b == SubSeq(q, n + 1, Len(q))
           p == g \o t
<1>1. Len(a) = n /\ a \o b = q
  BY Cut
<1>2. a \in Seq(Cells) /\ b \in Seq(Cells)
  BY Cut
<1>3. p \in Seq(Cells)
  BY Conc
<1> HIDE DEF a, b
<1>4. t \o a \in Seq(Cells) /\ Len(t \o a) = Len(t) + n
  BY <1>1, <1>2, Conc
<1>5. (g \o t) \o a = g \o (t \o a)
  BY <1>2, AssocCells, SMTT(60)
<1> HIDE DEF p
<1>6. (p \o a) \o b = p \o (a \o b)
  BY <1>2, <1>3, AssocCells, ZenonT(60)
<1>7. (g \o (t \o a)) \o b = (g \o t) \o q
  BY <1>1, <1>5, <1>6, Zenon DEF p
<1> QED
  BY <1>4, <1>7 DEF a, b

\* Reading the first cell of t leaves what is said as it is.
LEMMA ReadOne ==
    ASSUME NEW S, NEW g \in Seq(S), NEW t \in Seq(S), t # <<>>
    PROVE  /\ Append(g, Head(t)) \in Seq(S) /\ Tail(t) \in Seq(S) /\ Len(Tail(t)) = Len(t) - 1
           /\ Append(g, Head(t)) \o Tail(t) = g \o t
<1>1. Head(t) \in S /\ Tail(t) \in Seq(S) /\ Len(Tail(t)) = Len(t) - 1
  BY HeadTailProperties, Zenon
<1>2. t = <<Head(t)>> \o Tail(t)
  <2>1. Len(t) \in Nat \ {0} /\ Head(t) = t[1] /\ Tail(t) = SubSeq(t, 1 + 1, Len(t))
    BY EmptySeq, TailIsSubSeq
  <2>2. 1 \in 1..Len(t) /\ Len(t) \in 1..Len(t)
    BY <2>1
  <2>3. SubSeq(t, 1, Len(t)) = <<t[1]>> \o SubSeq(t, 1 + 1, Len(t))
    BY <2>2, SubSeqRecursiveFirst, Zenon
  <2>4. SubSeq(t, 1, Len(t)) = t
    BY SubSeqFull, Zenon
  <2> QED
    BY <2>1, <2>3, <2>4
<1>3. /\ Append(g, Head(t)) = g \o <<Head(t)>> /\ <<Head(t)>> \in Seq(S)
      /\ Append(g, Head(t)) \in Seq(S)
  BY <1>1, AppendIsConcat
<1> DEFINE h == <<Head(t)>>
           r == Tail(t)
<1>4. h \in Seq(S) /\ r \in Seq(S) /\ t = h \o r /\ Append(g, Head(t)) = g \o h
  BY <1>1, <1>2, <1>3
<1> HIDE DEF h, r
<1>5. (g \o h) \o r = g \o (h \o r)
  BY <1>4, ConcatAssociative, SMTT(60)
<1> QED
  BY <1>1, <1>3, <1>4, <1>5 DEF r

\* A sequence that has the cells of s and then those of t is their concatenation.
LEMMA IsConcat ==
    ASSUME NEW s \in Seq(Byte), NEW t \in Seq(Byte), NEW u \in Seq(Byte),
           Len(u) = Len(s) + Len(t),
           \A i \in 1..Len(u) : u[i] = IF i <= Len(s) THEN s[i] ELSE t[i - Len(s)]
    PROVE  u = s \o t
<1>1. /\ s \o t \in Seq(Byte)
      /\ Len(s \o t) = Len(s) + Len(t)
      /\ \A i \in 1..(Len(s) + Len(t)) :
            (s \o t)[i] = IF i <= Len(s) THEN s[i] ELSE t[i - Len(s)]
  BY ConcatProperties
<1>2. \A i \in 1..Len(u) : u[i] = (s \o t)[i]
  BY <1>1
<1>3. Len(u) = Len(s \o t)
  BY <1>1
<1> QED
  BY <1>1, <1>2, <1>3, SeqEqual, Zenon

\* Zeros and then bytes, as a sequence.
LEMMA PaddedSeq ==
    ASSUME NEW z \in Nat, NEW n \in 0..(z + MaxPayload)
    PROVE  /\ Padded(z, n) \in Seq(Byte) /\ Len(Padded(z, n)) = n
           /\ \A i \in 1..n : Padded(z, n)[i] = IF i <= z THEN 0 ELSE i - z
<1>1. n \in Nat /\ \A i \in 1..n : (IF i <= z THEN 0 ELSE i - z) \in Byte
  BY ProxyRequestAssumption DEF Byte
<1>2. Padded(z, n) \in [1..n -> Byte]
  BY <1>1 DEF Padded
<1>3. Padded(z, n) \in Seq(Byte) /\ Len(Padded(z, n)) = n
  BY <1>1, <1>2
<1> QED
  BY <1>3 DEF Padded

\* No cell, and one cell more.
LEMMA PaddedNext ==
    ASSUME NEW z \in Nat, NEW n \in Nat, n < z + MaxPayload,
           NEW x, x = IF n + 1 <= z THEN 0 ELSE n + 1 - z
    PROVE  /\ Padded(z, n + 1) = Padded(z, n) \o <<x>>
           /\ <<x>> \in Seq(Byte) /\ x \in Byte
<1>1. n \in 0..(z + MaxPayload) /\ n + 1 \in 0..(z + MaxPayload) /\ x \in Byte
  BY ProxyRequestAssumption DEF Byte
<1>2. /\ Padded(z, n) \in Seq(Byte) /\ Len(Padded(z, n)) = n
      /\ \A i \in 1..n : Padded(z, n)[i] = IF i <= z THEN 0 ELSE i - z
  BY <1>1, PaddedSeq
<1>3. /\ Padded(z, n + 1) \in Seq(Byte) /\ Len(Padded(z, n + 1)) = n + 1
      /\ \A i \in 1..(n + 1) : Padded(z, n + 1)[i] = IF i <= z THEN 0 ELSE i - z
  BY <1>1, PaddedSeq
<1> DEFINE a == Padded(z, n)
           b == Padded(z, n + 1)
           o == <<x>>
<1>4. o \in Seq(Byte) /\ Len(o) = 1 /\ o[1] = x
  BY <1>1
<1> HIDE DEF a, b, o
<1>5. /\ a \in Seq(Byte) /\ b \in Seq(Byte) /\ Len(a) = n /\ Len(b) = n + 1
      /\ \A i \in 1..n : a[i] = IF i <= z THEN 0 ELSE i - z
      /\ \A i \in 1..(n + 1) : b[i] = IF i <= z THEN 0 ELSE i - z
  BY <1>2, <1>3 DEF a, b
<1>6. \A i \in 1..Len(b) : b[i] = IF i <= Len(a) THEN a[i] ELSE o[i - Len(a)]
  <2> SUFFICES ASSUME NEW i \in 1..(n + 1) PROVE b[i] = IF i <= n THEN a[i] ELSE o[i - n]
    BY <1>5
  <2>1. CASE i \in 1..n
    BY <1>5, <2>1
  <2>2. CASE i = n + 1
    <3>1. i - n = 1 /\ ~(i <= n)
      BY <2>2
    <3>2. b[i] = x
      BY <1>5, <2>2
    <3> QED
      BY <1>4, <3>1, <3>2
  <2> QED
    BY <2>1, <2>2
<1>7. b = a \o o
  BY <1>4, <1>5, <1>6, IsConcat, ZenonT(60)
<1> QED
  BY <1>1, <1>4, <1>7 DEF a, b, o

\* The beginning of zeros and bytes is zeros and bytes.
LEMMA PaddedStart ==
    ASSUME NEW z \in Nat, NEW n \in 0..(z + MaxPayload), NEW s \in Seq(Byte), NEW t \in Seq(Byte),
           s \o t = Padded(z, n)
    PROVE  s = Padded(z, Len(s)) /\ Len(s) + Len(t) = n /\ Len(s) \in 0..n
<1>1. /\ Len(Padded(z, n)) = n
      /\ \A i \in 1..n : Padded(z, n)[i] = IF i <= z THEN 0 ELSE i - z
  BY PaddedSeq
<1>2. /\ Len(s) \in Nat /\ Len(t) \in Nat
      /\ Len(s \o t) = Len(s) + Len(t)
      /\ \A i \in 1..(Len(s) + Len(t)) :
            (s \o t)[i] = IF i <= Len(s) THEN s[i] ELSE t[i - Len(s)]
  BY ConcatProperties, LenProperties
<1>3. Len(s) + Len(t) = n /\ Len(s) \in 0..(z + MaxPayload) /\ Len(s) \in 0..n
  <2>1. Len(s) + Len(t) = n
    BY <1>1, <1>2
  <2>2. \A l, m \in Nat : l + m = n => l \in 0..(z + MaxPayload) /\ l \in 0..n
    BY ProxyRequestAssumption
  <2> QED
    BY <1>2, <2>1, <2>2
<1> DEFINE b == Padded(z, Len(s))
<1>4. /\ b \in Seq(Byte) /\ Len(b) = Len(s)
      /\ \A i \in 1..Len(s) : b[i] = IF i <= z THEN 0 ELSE i - z
  BY <1>3, PaddedSeq
<1> HIDE DEF b
<1>5. ASSUME NEW i \in 1..Len(s) PROVE s[i] = b[i]
  <2>1. i \in 1..n /\ i \in 1..(Len(s) + Len(t)) /\ i <= Len(s)
    BY <1>2, <1>3
  <2>2. s[i] = IF i <= z THEN 0 ELSE i - z
    BY <1>1, <1>2, <2>1
  <2> QED
    BY <1>4, <2>2
<1>6. s = b
  BY <1>4, <1>5, SeqEqual, Zenon
<1> QED
  BY <1>3, <1>6 DEF b

\* Behind z zeros.
LEMMA PaddedRest ==
    ASSUME NEW z \in Nat, NEW n \in 0..(z + MaxPayload), NEW s \in Seq(Byte), NEW t \in Seq(Byte),
           s \o t = Padded(z, n), Len(s) = z
    PROVE  n >= z /\ t = Padded(0, n - z)
<1>1. /\ Len(Padded(z, n)) = n
      /\ \A i \in 1..n : Padded(z, n)[i] = IF i <= z THEN 0 ELSE i - z
  BY PaddedSeq
<1>2. /\ Len(t) \in Nat /\ Len(s \o t) = Len(s) + Len(t)
      /\ \A i \in 1..(Len(s) + Len(t)) :
            (s \o t)[i] = IF i <= Len(s) THEN s[i] ELSE t[i - Len(s)]
  BY ConcatProperties, LenProperties
<1>3. n = z + Len(t)
  BY <1>1, <1>2
<1>4. n >= z /\ n - z = Len(t) /\ n - z \in 0..(0 + MaxPayload)
  BY <1>2, <1>3, ProxyRequestAssumption
<1> DEFINE m == n - z
           b == Padded(0, m)
<1>5. /\ b \in Seq(Byte) /\ Len(b) = m /\ \A i \in 1..m : b[i] = IF i <= 0 THEN 0 ELSE i - 0
  BY <1>4, PaddedSeq
<1> HIDE DEF b
<1>6. ASSUME NEW i \in 1..Len(t) PROVE t[i] = b[i]
  <2>1. z + i \in 1..n /\ ~(z + i <= z) /\ (z + i) - z = i /\ i \in 1..m /\ i - 0 = i /\ ~(i <= 0)
    BY <1>2, <1>3
  <2>2. (s \o t)[z + i] = t[i]
    BY <1>2, <1>3, <2>1
  <2>3. (s \o t)[z + i] = i
    BY <1>1, <2>1
  <2> QED
    BY <1>5, <2>1, <2>2, <2>3
<1>7. t = b
  BY <1>4, <1>5, <1>6, SeqEqual, Zenon
<1> QED
  BY <1>4, <1>7 DEF b

-----------------------------------------------------------------------------
(* Replies *)

\* An authentication reply has two cells, ...
LEMMA AuthReplies ==
    ASSUME NEW ok \in BOOLEAN
    PROVE  AuthReply(ok) \in Seq(AuthCells) /\ Len(AuthReply(ok)) = 2
<1> DEFINE c == [msg |-> "auth", code |-> IF ok THEN "success" ELSE "failure"]
<1>1. c \in AuthCells
  BY DEF AuthCells
<1> HIDE DEF c
<1>2. [i \in 1..2 |-> c] \in [1..2 -> AuthCells]
  BY <1>1
<1>3. [i \in 1..2 |-> c] \in Seq(AuthCells) /\ Len([i \in 1..2 |-> c]) = 2
  BY <1>2
<1> QED
  BY <1>3 DEF AuthReply, c

\* ... and so has an operation reply; a version reply has one.
LEMMA OtherReplies ==
    /\ \A c \in OpCodes : OpReply(c) \in Seq(Cells) /\ Len(OpReply(c)) = 2
    /\ VersionReply \in Seq(Cells) /\ Len(VersionReply) = 1
<1>1. ASSUME NEW c \in OpCodes PROVE OpReply(c) \in Seq(Cells) /\ Len(OpReply(c)) = 2
  <2> DEFINE d == [msg |-> "op", code |-> c]
  <2>1. d \in Cells
    BY DEF Cells
  <2> HIDE DEF d
  <2>2. [i \in 1..2 |-> d] \in [1..2 -> Cells]
    BY <2>1
  <2>3. [i \in 1..2 |-> d] \in Seq(Cells) /\ Len([i \in 1..2 |-> d]) = 2
    BY <2>2
  <2> QED
    BY <2>3 DEF OpReply, d
<1>2. VersionReply \in Seq(Cells) /\ Len(VersionReply) = 1
  <2> DEFINE d == [msg |-> "version", code |-> "mismatch"]
  <2>1. d \in Cells
    BY DEF Cells
  <2> HIDE DEF d
  <2>2. <<d>> \in Seq(Cells) /\ Len(<<d>>) = 1
    BY <2>1
  <2> QED
    BY <2>2 DEF VersionReply, d
<1> QED
  BY <1>1, <1>2

\* The cells of an authentication reply are cells.
LEMMA AuthAreCells == AuthCells \subseteq Cells /\ \A s \in Seq(AuthCells) : s \in Seq(Cells)
<1>1. AuthCells \subseteq Cells
  BY DEF AuthCells, Cells
<1> QED
  BY <1>1, SeqMonotonic

-----------------------------------------------------------------------------
(* What a handler does to the objects and the client's socket *)

\* Objects, what is said and how it ends.
Talk == Objects /\ Phases /\ Spoken /\ Endings

\* After close() the send buffer is as it was or the client is reset.
LEMMA Closing ==
    ASSUME NEW r, NEW t, LastClose(r, t)
    PROVE  (tx' = t /\ told' = told) \/ (tx' = <<>> /\ told' = "reset")
BY DEF LastClose

\* The upstreamer is destroyed before there is a downstreamer.
LEMMA DropTalk ==
    ASSUME Talk, up \in {"reading", "auth", "payload", "connecting"},
           NEW r, NEW t \in Seq(AuthCells), Len(t) <= TxSize, Drop(r, t),
           UNCHANGED <<req, peer, got>>,
           server' \in {"none", "syn", "up", "refused"}, faults' \in 0..MaxFaults,
           server' # "none" => req.kind = "connect" /\ req.ok,
           Listening => got \o t \in {<<>>, AuthReply(FALSE), AuthReply(TRUE)},
           Listening /\ server' # "none" => got \o t = AuthReply(TRUE),
           Undisturbed' => got \o t = AuthReply(FALSE)
    PROVE  Talk'
<1>1. /\ up' = "gone" /\ at' = "poll" /\ authBuf' = <<>>
      /\ down' = down /\ reply' = reply /\ streamState' = streamState
      /\ (tx' = t /\ told' = told) \/ (tx' = <<>> /\ told' = "reset")
  BY Closing DEF Drop
<1>2. down = "none" /\ reply = <<>> /\ told # "fin"
  BY DEF Talk, Phases, Endings
<1>3. t \in Seq(Cells) /\ <<>> \in Seq(Cells) /\ <<>> \in Seq(AuthCells) /\ Len(<<>>) = 0
  BY AuthAreCells
<1>4. Objects'
  <2>1. tx' \in Seq(Cells) /\ Len(tx') <= TxSize
    <3>1. 0 <= TxSize
      BY ProxyRequestAssumption
    <3>2. CASE tx' = t
      BY <1>3, <3>2
    <3>3. CASE tx' = <<>>
      BY <1>3, <3>1, <3>3
    <3> QED
      BY <1>1, <3>2, <3>3
  <2> QED
    BY <1>1, <1>3, <2>1 DEF Talk, Objects
<1>5. Phases'
  BY <1>1, <1>2, <1>3 DEF Phases
<1>6. Listening' => Listening /\ tx' = t
  BY <1>1 DEF Listening
<1>7. Spoken'
  BY <1>1, <1>2, <1>6 DEF Spoken
<1>8. Endings'
  <2>1. Undisturbed' => tx' = t
    BY <1>1 DEF Undisturbed
  <2> QED
    BY <1>1, <1>2, <2>1 DEF Endings
<1> QED
  BY <1>4, <1>5, <1>7, <1>8 DEF Talk

\* A downstreamer takes over with an answer.
LEMMA AnswerTalk ==
    ASSUME Talk, up \in {"reading", "auth", "payload", "connecting"}, authBuf = <<>>,
           NEW msg \in Seq(Cells), AssignSimple(msg),
           UNCHANGED <<req, peer, got>>,
           server' \in {"none", "syn", "up", "refused"}, faults' \in 0..MaxFaults,
           server' # "none" => req.kind = "connect" /\ req.ok,
           Listening => \/ server' = "none" /\ got \o tx \o msg = VersionReply
                        \/ /\ Len(msg) <= 2
                           /\ \E c \in OpCodes : got \o tx \o msg = AuthReply(TRUE) \o OpReply(c)
    PROVE  Talk'
<1>1. /\ up' = "gone" /\ at' = "poll" /\ down' = "simple" /\ reply' = msg
      /\ UNCHANGED <<authBuf, streamState, tx, told>>
  BY DEF AssignSimple
<1>2. down = "none" /\ told # "fin"
  BY DEF Talk, Phases, Endings
<1>3. Objects'
  BY <1>1 DEF Talk, Objects
<1>4. Phases'
  BY <1>1 DEF Talk, Phases
<1>5. Spoken'
  BY <1>1 DEF Talk, Spoken, Listening
<1>6. Endings'
  BY <1>1, <1>2 DEF Endings
<1> QED
  BY <1>3, <1>4, <1>5, <1>6 DEF Talk

\* An operation reply goes behind the authentication reply.
LEMMA AnswerOpTalk ==
    ASSUME Talk, at = "honor" \/ up \in {"payload", "connecting"},
           NEW code \in OpCodes, Answer(code),
           UNCHANGED <<req, peer, got>>,
           server' \in {"none", "syn", "up", "refused"}, faults' \in 0..MaxFaults,
           server' # "none" => req.kind = "connect" /\ req.ok
    PROVE  Talk'
<1>1. up \in {"reading", "auth", "payload", "connecting"} /\ authBuf = <<>>
  BY DEF Talk, Phases
<1>2. Listening => got \o tx = AuthReply(TRUE)
  BY DEF Talk, Spoken
<1> DEFINE m == OpReply(code)
<1>3. m \in Seq(Cells) /\ Len(m) <= 2
  <2>1. m \in Seq(Cells) /\ Len(m) = 2
    BY OtherReplies, Zenon
  <2> QED
    BY <2>1
<1>4. AssignSimple(m)
  BY DEF Answer
<1>5. Listening => /\ Len(m) <= 2
                   /\ \E c \in OpCodes : got \o tx \o m = AuthReply(TRUE) \o OpReply(c)
  BY <1>2, <1>3
<1> HIDE DEF m
<1> QED
  BY <1>1, <1>3, <1>4, <1>5, AnswerTalk

\* The upstreamer waits for payload or for the connection.
LEMMA WaitTalk ==
    ASSUME Talk, at = "honor" \/ up = "payload", req.kind = "connect", req.ok,
           \/ up' = "payload" /\ server' = "none" /\ sent' = <<>>
           \/ up' = "connecting",
           at' = "poll",
           UNCHANGED <<authBuf, down, reply, streamState, tx, told>>,
           UNCHANGED <<req, peer, got>>,
           server' \in {"none", "syn", "up", "refused"}, faults' \in 0..MaxFaults
    PROVE  Talk'
<1>1. up \in {"auth", "payload"} /\ authBuf = <<>> /\ down = "none" /\ reply = <<>> /\ told # "fin"
  BY DEF Talk, Phases, Endings
<1>2. Objects'
  BY DEF Talk, Objects
<1>3. Phases'
  BY <1>1 DEF Talk, Phases
<1>4. Spoken'
  BY <1>1 DEF Talk, Spoken, Listening
<1>5. Endings'
  BY <1>1 DEF Endings
<1> QED
  BY <1>2, <1>3, <1>4, <1>5 DEF Talk

\* An exception out of process() is answered or ends the upstreamer.
LEMMA ThrownTalk ==
    ASSUME Talk, at = "honor" \/ up = "payload", NEW h \in BOOLEAN, NEW r, Thrown(h, r),
           UNCHANGED <<req, peer, got>>,
           server' \in {"none", "syn", "up", "refused"}, faults' \in 0..MaxFaults,
           server' # "none" => req.kind = "connect" /\ req.ok,
           ~Undisturbed'
    PROVE  Talk' /\ up' = "gone" /\ streamState' = streamState
<1>1. CASE h
  <2>1. Answer("failure")
    BY <1>1 DEF Thrown
  <2>2. "failure" \in OpCodes
    BY DEF OpCodes
  <2>3. Talk'
    BY <2>1, <2>2, AnswerOpTalk
  <2> QED
    BY <2>1, <2>3 DEF Answer, AssignSimple
<1>2. CASE ~h
  <2>1. Drop(r, tx)
    BY <1>2 DEF Thrown
  <2>2. up \in {"reading", "auth", "payload", "connecting"} /\ tx \in Seq(AuthCells) /\ Len(tx) <= TxSize
    BY DEF Talk, Phases, Objects
  <2>3. Listening => got \o tx = AuthReply(TRUE)
    BY DEF Talk, Spoken
  <2>4. Talk'
    BY <2>1, <2>2, <2>3, DropTalk
  <2> QED
    BY <2>1, <2>4 DEF Drop
<1> QED
  BY <1>1, <1>2

-----------------------------------------------------------------------------
(* What a handler does to the bytes *)

\* recv moves bytes from the socket to the buffer, and never too many.
LEMMA Receiving ==
    ASSUME Data
    PROVE  /\ Received \in Seq(Byte) /\ Rest \in Seq(Byte)
           /\ Len(Rest) <= RxSize /\ Len(Received) + Len(Rest) = Len(rx)
           /\ buf \o Received \in Seq(Byte) /\ Len(buf \o Received) = Len(buf) + Len(Received)
           /\ head + Len(buf \o Received) <= BufSize
           /\ (buf \o Received) \o Rest = buf \o rx
           /\ Received = <<>> /\ rx # <<>> => head + Len(buf) = BufSize
<1> DEFINE n == Least(Len(rx), BufSize - head - Len(buf))
<1>1. /\ buf \in Seq(Byte) /\ rx \in Seq(Byte) /\ Len(buf) \in Nat /\ Len(rx) \in Nat
      /\ head \in Nat /\ head + Len(buf) <= BufSize /\ Len(rx) <= RxSize
      /\ BufSize \in Nat /\ RxSize \in Nat
  BY LenProperties, ProxyRequestAssumption DEF Data
<1>2. /\ n \in 0..Len(rx) /\ n <= BufSize - head - Len(buf) /\ n \in Nat
      /\ n = 0 => Len(rx) = 0 \/ head + Len(buf) = BufSize
  BY <1>1 DEF Least
<1>3. Received = SubSeq(rx, 1, n)
  BY DEF Received
<1> HIDE DEF n
<1>4. Received \in Seq(Byte) /\ Len(Received) = n
  BY <1>1, <1>2, <1>3, Cut
<1>5. Rest = SubSeq(rx, n + 1, Len(rx))
  BY <1>4 DEF Rest
<1>6. Rest \in Seq(Byte) /\ Len(Rest) = Len(rx) - n
  BY <1>1, <1>2, <1>5, Cut
<1>7. Received \o Rest = rx
  BY <1>1, <1>2, <1>3, <1>5, Cut
<1>8. buf \o Received \in Seq(Byte) /\ Len(buf \o Received) = Len(buf) + n
  BY <1>1, <1>4, Conc
<1> DEFINE a == Received
           b == Rest
<1>9. (buf \o a) \o b = buf \o (a \o b)
  <2>1. a \in Seq(Byte) /\ b \in Seq(Byte) /\ buf \in Seq(Byte)
    BY <1>1, <1>4, <1>6
  <2> HIDE DEF a, b
  <2> QED
    BY <2>1, AssocBytes
<1>10. (buf \o Received) \o Rest = buf \o rx
  BY <1>7, <1>9
<1>11. /\ Len(Rest) <= RxSize /\ Len(Received) + Len(Rest) = Len(rx)
       /\ head + Len(buf \o Received) <= BufSize
  BY <1>1, <1>2, <1>4, <1>6, <1>8
<1>12. Received = <<>> /\ rx # <<>> => head + Len(buf) = BufSize
  <2>1. Received = <<>> => n = 0
    BY <1>4
  <2>2. rx # <<>> => Len(rx) # 0
    BY <1>1, EmptySeq
  <2> QED
    BY <1>2, <2>1, <2>2
<1> QED
  BY <1>4, <1>6, <1>8, <1>10, <1>11, <1>12

\* unuse takes n bytes from the front.
LEMMA Unusing ==
    ASSUME NEW used \in Seq(Byte), NEW n \in 0..Len(used), head \in Nat,
           head + Len(used) <= BufSize, Unused(used, n)
    PROVE  /\ SubSeq(used, 1, n) \in Seq(Byte) /\ Len(SubSeq(used, 1, n)) = n
           /\ buf' \in Seq(Byte) /\ Len(buf') = Len(used) - n
           /\ SubSeq(used, 1, n) \o buf' = used
           /\ head' \in Nat /\ head' + Len(buf') <= BufSize /\ head' <= head + n
<1>1. /\ buf' = SubSeq(used, n + 1, Len(used))
      /\ head' = IF n = Len(used) THEN 0 ELSE head + n
  BY DEF Unused
<1>2. /\ SubSeq(used, 1, n) \in Seq(Byte) /\ Len(SubSeq(used, 1, n)) = n
      /\ buf' \in Seq(Byte) /\ Len(buf') = Len(used) - n
      /\ SubSeq(used, 1, n) \o buf' = used
  BY <1>1, Cut
<1>3. Len(used) \in Nat /\ BufSize \in Nat
  BY LenProperties, ProxyRequestAssumption
<1>4. head' \in Nat /\ head' + Len(buf') <= BufSize /\ head' <= head + n
  <2>1. CASE n = Len(used)
    <3>1. head' = 0 /\ Len(buf') = 0
      BY <1>1, <1>2, <1>3, <2>1
    <3> QED
      BY <1>3, <3>1
  <2>2. CASE n # Len(used)
    <3>1. head' = head + n /\ Len(buf') = Len(used) - n
      BY <1>1, <1>2, <2>2
    <3> QED
      BY <1>3, <3>1
  <2> QED
    BY <2>1, <2>2
<1> QED
  BY <1>2, <1>4

\* Nothing is asked of the bytes once the upstreamer is gone.
LEMMA GoneBytes ==
    ASSUME Data, up' = "gone", UNCHANGED <<req, wrote, sent>>,
           buf' \in Seq(Byte), head' \in Nat, head' + Len(buf') <= BufSize,
           rx' \in Seq(Byte), Len(rx') <= RxSize,
           tfoPayload' \in 0..MSS, tfoPayload' <= req.tfo, Len(sent) <= tfoPayload',
           addr' \in [1..4 -> 0..255]
    PROVE  Data' /\ Accounts'
BY DEF Data, Accounts

\* Nothing happens to the bytes.
LEMMA SameBytes ==
    ASSUME Data, Accounts, UNCHANGED <<req, buf, head, tfoPayload, addr, rx, sent, wrote>>,
           up' = "gone" \/ (up' = up /\ streamState' = streamState)
    PROVE  Data' /\ Accounts'
BY DEF Data, Accounts

\* The promise is kept within the size of a segment.
LEMMA Promise ==
    ASSUME req \in Requests, NEW p, p = Least(req.tfo, MSS)
    PROVE  p \in 0..MSS /\ p <= req.tfo /\ p \in Nat /\ req.len \in Nat \ {0} /\ req.tfo \in Nat
<1>1. req.tfo \in Nat /\ req.len \in Nat \ {0} /\ MSS \in Nat
  BY ProxyRequestAssumption
<1> QED
  BY <1>1 DEF Least

\* The address fix-up yields four bytes.
LEMMA FixedUpAddr == ASSUME req \in Requests PROVE FixedUp(req) \in [1..4 -> 0..255]
<1>1. req.addr \in [1..4 -> 0..255]
  BY ProxyRequestAssumption
<1>2. /\ INADDR_LOOPBACK % 256 \in 0..255 /\ (INADDR_LOOPBACK \div 256) % 256 \in 0..255
      /\ (INADDR_LOOPBACK \div 65536) % 256 \in 0..255
      /\ INADDR_LOOPBACK \div 16777216 \in 0..255
  BY DEF INADDR_LOOPBACK
<1> DEFINE a == INADDR_LOOPBACK % 256
           b == (INADDR_LOOPBACK \div 256) % 256
           c == (INADDR_LOOPBACK \div 65536) % 256
           d == INADDR_LOOPBACK \div 16777216
<1>3. MemoryBytes(INADDR_LOOPBACK) = <<a, b, c, d>>
  BY DEF MemoryBytes
<1>4. a \in 0..255 /\ b \in 0..255 /\ c \in 0..255 /\ d \in 0..255
  BY <1>2
<1> HIDE DEF a, b, c, d
<1>5. <<a, b, c, d>> \in [1..4 -> 0..255]
  BY <1>4
<1> QED
  BY <1>1, <1>3, <1>5 DEF FixedUp

-----------------------------------------------------------------------------
(* From the authentication to the connection *)

\* The connection is started with the payload in use, at most p bytes of it.
LEMMA ConnectInv ==
    ASSUME Inv, at = "honor" \/ up = "payload", req.kind = "connect", req.ok,
           NEW used \in Seq(Byte), head + Len(used) <= BufSize, wrote >= req.len,
           NEW p, p = Least(req.tfo, MSS), NEW h \in BOOLEAN,
           NEW r \in Seq(Byte), Len(r) <= RxSize, used \o r = Padded(0, wrote - req.len),
           Connect(used, p, h, r), rx' = r, tfoPayload' = p, addr' \in [1..4 -> 0..255],
           UNCHANGED <<req, peer, wrote, got>>
    PROVE  Inv'
<1>1. Talk /\ Data /\ Accounts /\ head \in Nat /\ faults \in 0..MaxFaults /\ req \in Requests
  BY DEF Inv, Talk, Data, Objects
<1>2. p \in 0..MSS /\ p <= req.tfo /\ p \in Nat
  BY <1>1, Promise
<1>3. sent = <<>> /\ Len(<<>>) = 0 /\ Len(sent) <= p
  <2>1. sent = <<>>
    BY <1>1 DEF Talk, Phases
  <2>2. Len(sent) = 0
    BY <2>1
  <2> QED
    BY <1>2, <2>1, <2>2
<1>4. CASE server' = "refused" /\ Answer("failure") /\ buf' = used /\ NoFault /\ UNCHANGED <<head, sent>>
  <2>1. "failure" \in OpCodes /\ up' = "gone"
    BY <1>4 DEF OpCodes, Answer, AssignSimple
  <2>2. faults' \in 0..MaxFaults
    BY <1>1, <1>4 DEF NoFault
  <2>3. Talk'
    BY <1>1, <1>4, <2>1, <2>2, AnswerOpTalk
  <2>4. Data' /\ Accounts'
    BY <1>1, <1>2, <1>3, <1>4, <2>1, GoneBytes
  <2> QED
    BY <2>3, <2>4 DEF Talk, Inv
<1>5. ASSUME NEW k \in 0..Least(Len(used), p),
             server' = "syn", sent' = SubSeq(used, 1, k), Unused(used, k),
             \/ /\ up' = "connecting" /\ at' = "poll"
                /\ UNCHANGED <<authBuf, down, reply, streamState, tx, told>>
                /\ NoFault
             \/ Fault /\ Thrown(h, r)
      PROVE  Inv'
  <2>1. Len(used) \in Nat /\ k \in 0..Len(used) /\ k <= p
    BY <1>2, LenProperties DEF Least
  <2>2. /\ sent' \in Seq(Byte) /\ Len(sent') = k
        /\ buf' \in Seq(Byte) /\ sent' \o buf' = used
        /\ head' \in Nat /\ head' + Len(buf') <= BufSize
    BY <1>1, <1>5, <2>1, Unusing
  <2>3. Data'
    <3>1. wrote' \in 0..(req'.len + MaxPayload)
      BY <1>1 DEF Data
    <3> QED
      BY <1>2, <2>1, <2>2, <3>1 DEF Data
  <2>4. CASE up' = "connecting" /\ at' = "poll" /\ NoFault
             /\ UNCHANGED <<authBuf, down, reply, streamState, tx, told>>
    <3>1. faults' \in 0..MaxFaults
      BY <1>1, <2>4 DEF NoFault
    <3>2. Talk'
      BY <1>1, <1>5, <2>4, <3>1, WaitTalk
    <3>3. sent' \o buf' \o rx' = Padded(0, wrote' - req'.len)
      BY <2>2
    <3>4. Accounts'
      BY <2>4, <3>3 DEF Accounts
    <3> QED
      BY <2>3, <3>2, <3>4 DEF Talk, Inv
  <2>5. CASE Fault /\ Thrown(h, r)
    <3>1. faults' \in 0..MaxFaults /\ faults' # 0
      BY <1>1, <2>5, ProxyRequestAssumption DEF Fault
    <3>2. ~Undisturbed'
      BY <3>1 DEF Undisturbed
    <3>3. Talk' /\ up' = "gone"
      BY <1>1, <1>5, <2>5, <3>1, <3>2, ThrownTalk
    <3>4. Accounts'
      BY <3>3 DEF Accounts
    <3> QED
      BY <2>3, <3>3, <3>4 DEF Talk, Inv
  <2> QED
    BY <1>5, <2>4, <2>5
<1> QED
  BY <1>4, <1>5 DEF Connect

\* The promised payload is read and the connection started.
LEMMA PayloadInv ==
    ASSUME Inv, at = "honor" \/ up = "payload", req.kind = "connect", req.ok,
           NEW p, p = Least(req.tfo, MSS), NEW h \in BOOLEAN, Payload(p, h),
           tfoPayload' = p, addr' \in [1..4 -> 0..255],
           UNCHANGED <<req, peer, wrote, got>>
    PROVE  Inv'
<1>1. Talk /\ Data /\ Accounts /\ head \in Nat /\ faults \in 0..MaxFaults /\ req \in Requests
  BY DEF Inv, Talk, Data, Objects
<1>2. p \in 0..MSS /\ p <= req.tfo /\ p \in Nat /\ req.len \in Nat \ {0}
  BY <1>1, Promise
<1>3. /\ up \in {"auth", "payload"} /\ server = "none" /\ sent = <<>> /\ down = "none"
      /\ head <= req.len /\ wrote >= req.len /\ buf \o rx = Padded(0, wrote - req.len)
  BY <1>1 DEF Talk, Phases, Accounts
<1>4. Len(sent) <= p
  <2>1. Len(sent) = 0
    BY <1>3
  <2> QED
    BY <1>2, <2>1
<1>5. buf \in Seq(Byte) /\ rx \in Seq(Byte) /\ Len(rx) <= RxSize /\ head + Len(buf) <= BufSize
  BY <1>1 DEF Data
<1>6. CASE Len(buf) >= p /\ Connect(buf, p, h, rx) /\ rx' = rx
  BY <1>3, <1>5, <1>6, ConnectInv
<1>7. CASE Len(buf) < p /\ Received # <<>> /\ rx' = Rest
  <2> DEFINE used == buf \o Received
             rest == Rest
  <2>1. /\ used \in Seq(Byte) /\ rest \in Seq(Byte) /\ Len(rest) <= RxSize
        /\ head + Len(used) <= BufSize
    BY <1>1, Receiving
  <2>2. used \o rest = Padded(0, wrote - req.len)
    BY <1>1, <1>3, Receiving
  <2>3. \/ Len(used) >= p /\ Connect(used, p, h, rest)
        \/ /\ buf' = used
           /\ UNCHANGED <<head, remote>>
           /\ \/ /\ up' = "payload" /\ at' = "poll"
                 /\ UNCHANGED <<authBuf, down, reply, streamState, tx, told>>
                 /\ NoFault
              \/ Fault /\ Thrown(h, rest)
    <3>1. ~(Len(buf) >= p)
      BY <1>2, <1>5, <1>7, LenProperties
    <3> QED
      BY <1>7, <3>1, Zenon DEF Payload
  <2>4. rx' = rest
    BY <1>7, SMTT(60)
  <2> HIDE DEF used, rest
  <2>5. CASE Connect(used, p, h, rest)
    BY <1>3, <2>1, <2>2, <2>4, <2>5, ConnectInv
  <2>6. ASSUME buf' = used, UNCHANGED <<head, remote>>,
               \/ /\ up' = "payload" /\ at' = "poll"
                  /\ UNCHANGED <<authBuf, down, reply, streamState, tx, told>>
                  /\ NoFault
               \/ Fault /\ Thrown(h, rest)
        PROVE  Inv'
    <3>1. server' = "none" /\ sent' = sent /\ head' = head
      BY <1>3, <2>6 DEF remote
    <3>2. Data'
      BY <1>1, <1>2, <1>4, <2>1, <2>4, <2>6, <3>1 DEF Data
    <3>3. CASE /\ up' = "payload" /\ at' = "poll" /\ NoFault
               /\ UNCHANGED <<authBuf, down, reply, streamState, tx, told>>
      <4>1. faults' \in 0..MaxFaults
        BY <1>1, <3>3 DEF NoFault
      <4>2. Talk'
        BY <1>1, <1>3, <3>1, <3>3, <4>1, WaitTalk
      <4>3. buf' \o rx' = Padded(0, wrote' - req'.len)
        BY <2>2, <2>4, <2>6
      <4>4. Accounts'
        BY <1>3, <3>1, <3>3, <4>3 DEF Accounts
      <4> QED
        BY <3>2, <4>2, <4>4 DEF Talk, Inv
    <3>4. CASE Fault /\ Thrown(h, rest)
      <4>1. faults' \in 0..MaxFaults /\ faults' # 0
        BY <1>1, <3>4, ProxyRequestAssumption DEF Fault
      <4>2. ~Undisturbed'
        BY <4>1 DEF Undisturbed
      <4>3. Talk' /\ up' = "gone"
        BY <1>1, <3>1, <3>4, <4>1, <4>2, ThrownTalk
      <4>4. Accounts'
        BY <4>3 DEF Accounts
      <4> QED
        BY <3>2, <4>3, <4>4 DEF Talk, Inv
    <3> QED
      BY <2>6, <3>3, <3>4
  <2> QED
    BY <2>3, <2>5, <2>6
<1>8. ASSUME Len(buf) < p, Received = <<>>, NoFault, UNCHANGED <<buf, head, rx, remote>>,
             \/ (rx # <<>> \/ peer = "fin") /\ Drop(rx, tx)
             \/ rx = <<>> /\ peer = "aborted" /\ Thrown(h, rx)
             \/ rx = <<>> /\ peer = "open" /\ h /\ Answer("failure")
      PROVE  Inv'
  <2>1. server' = "none" /\ sent' = sent /\ faults' = faults /\ faults' \in 0..MaxFaults
    BY <1>1, <1>3, <1>8 DEF remote, NoFault
  <2>2. CASE (rx # <<>> \/ peer = "fin") /\ Drop(rx, tx)
    <3>1. /\ up \in {"reading", "auth", "payload", "connecting"}
          /\ tx \in Seq(AuthCells) /\ Len(tx) <= TxSize
      BY <1>1 DEF Talk, Phases, Objects
    <3>2. Listening => got \o tx = AuthReply(TRUE)
      BY <1>1 DEF Talk, Spoken
    <3>3. ~Undisturbed'
      <4> SUFFICES ASSUME Undisturbed' PROVE FALSE
        OBVIOUS
      <4>1. peer = "open" /\ req.len + p <= BufSize
        BY DEF Undisturbed
      <4>2. rx # <<>>
        BY <2>2, <4>1
      <4>3. head + Len(buf) = BufSize
        BY <1>1, <1>8, <4>2, Receiving
      <4>4. Len(buf) \in Nat /\ BufSize \in Nat
        BY <1>5, LenProperties, ProxyRequestAssumption
      <4> QED
        BY <1>1, <1>2, <1>3, <1>8, <4>1, <4>3, <4>4
    <3>4. Talk'
      BY <1>1, <2>1, <2>2, <3>1, <3>2, <3>3, DropTalk
    <3>5. up' = "gone"
      BY <2>2 DEF Drop
    <3>6. Data' /\ Accounts'
      BY <1>1, <1>2, <1>4, <1>5, <1>8, <2>1, <3>5, GoneBytes
    <3> QED
      BY <3>4, <3>6 DEF Talk, Inv
  <2>3. CASE peer = "aborted" /\ Thrown(h, rx)
    <3>1. ~Undisturbed'
      BY <2>3 DEF Undisturbed
    <3>2. Talk' /\ up' = "gone"
      BY <1>1, <2>1, <2>3, <3>1, ThrownTalk
    <3>3. Data' /\ Accounts'
      BY <1>1, <1>2, <1>4, <1>5, <1>8, <2>1, <3>2, GoneBytes
    <3> QED
      BY <3>2, <3>3 DEF Talk, Inv
  <2>4. CASE Answer("failure")
    <3>1. "failure" \in OpCodes /\ up' = "gone"
      BY <2>4 DEF OpCodes, Answer, AssignSimple
    <3>2. Talk'
      BY <1>1, <2>1, <2>4, <3>1, AnswerOpTalk
    <3>3. Data' /\ Accounts'
      BY <1>1, <1>2, <1>4, <1>5, <1>8, <2>1, <3>1, GoneBytes
    <3> QED
      BY <3>2, <3>3 DEF Talk, Inv
  <2> QED
    BY <1>8, <2>2, <2>3, <2>4
<1> QED
  BY <1>6, <1>7, <1>8 DEF Payload

\* honorConnect.
LEMMA HonorConnectInv == ASSUME Inv, HonorConnect PROVE Inv'
<1>1. /\ at = "honor" /\ req.kind = "connect" /\ addr' = FixedUp(req)
      /\ \/ tfoPayload' = StackOptions(req) /\ Payload(tfoPayload', TRUE)
         \/ Fault /\ Answer("failure") /\ UNCHANGED <<tfoPayload, buf, head, rx, remote>>
      /\ UNCHANGED <<req, peer, wrote, got>>
  BY DEF HonorConnect
<1>2. Talk /\ Data /\ Accounts /\ faults \in 0..MaxFaults /\ req \in Requests /\ req.ok
  BY <1>1 DEF Inv, Talk, Objects, Phases
<1>3. addr' \in [1..4 -> 0..255]
  BY <1>1, <1>2, FixedUpAddr
<1>4. CASE tfoPayload' = StackOptions(req) /\ Payload(tfoPayload', TRUE)
  <2> DEFINE p == tfoPayload'
             h == TRUE
  <2>1. p = Least(req.tfo, MSS) /\ h \in BOOLEAN /\ Payload(p, h) /\ tfoPayload' = p
    BY <1>4 DEF StackOptions
  <2> HIDE DEF p, h
  <2> QED
    BY <1>1, <1>2, <1>3, <2>1, PayloadInv
<1>5. CASE Fault /\ Answer("failure") /\ UNCHANGED <<tfoPayload, buf, head, rx, remote>>
  <2>1. faults' \in 0..MaxFaults
    BY <1>2, <1>5, ProxyRequestAssumption DEF Fault
  <2>2. "failure" \in OpCodes /\ up' = "gone" /\ server' = server /\ sent' = sent
    BY <1>5 DEF OpCodes, Answer, AssignSimple, remote
  <2>3. server' \in {"none", "syn", "up", "refused"}
    BY <1>2, <2>2 DEF Talk, Objects
  <2>4. Talk'
    BY <1>1, <1>2, <1>5, <2>1, <2>2, <2>3, AnswerOpTalk, SMTT(60)
  <2>5. Data' /\ Accounts'
    BY <1>1, <1>2, <1>3, <1>5, <2>2, GoneBytes DEF Data
  <2> QED
    BY <2>4, <2>5 DEF Talk, Inv
<1> QED
  BY <1>1, <1>4, <1>5

\* More payload, or the end of it, in an event.
LEMMA PayloadArrivesInv == ASSUME Inv, PayloadArrives PROVE Inv'
<1> DEFINE p == tfoPayload
           h == FALSE
<1>1. /\ up = "payload" /\ Payload(p, h) /\ h \in BOOLEAN
      /\ UNCHANGED <<req, tfoPayload, addr, peer, wrote, got>>
  BY DEF PayloadArrives
<1>2. req.kind = "connect" /\ req.ok /\ p = Least(req.tfo, MSS) /\ addr \in [1..4 -> 0..255]
  BY <1>1 DEF Inv, Phases, Accounts, Data
<1>3. tfoPayload' = p
  BY <1>1
<1> HIDE DEF p, h
<1> QED
  BY <1>1, <1>2, <1>3, PayloadInv

\* A command without a connection is answered.
LEMMA HonorSimpleInv == ASSUME Inv, HonorSimple PROVE Inv'
<1>1. /\ at = "honor" /\ req.kind # "connect"
      /\ \/ Answer(SimpleAnswer(req.kind)) /\ faults' = faults
         \/ Fault /\ Answer("failure")
      /\ addr' = IF req.kind = "domain" THEN addr ELSE FixedUp(req)
      /\ UNCHANGED <<req, buf, head, tfoPayload, rx, peer, wrote, got, remote>>
  BY DEF HonorSimple, NoFault
<1>2. /\ Talk /\ Data /\ Accounts /\ faults \in 0..MaxFaults /\ req \in Requests
      /\ up = "auth" /\ server = "none" /\ server' = "none" /\ sent' = sent
      /\ req.kind \in {"domain", "noop", "other"}
  <2>1. up = "auth" /\ server = "none" /\ req.kind \notin {"badVersion", "malformed"}
    BY <1>1 DEF Inv, Phases
  <2>2. req.kind \in Kinds
    BY ProxyRequestAssumption DEF Inv, Objects
  <2> QED
    BY <1>1, <2>1, <2>2 DEF Inv, Talk, Objects, Kinds, remote
<1>3. faults' \in 0..MaxFaults
  BY <1>1, <1>2, ProxyRequestAssumption DEF Fault
<1>4. PICK c \in OpCodes : Answer(c)
  <2>1. SimpleAnswer(req.kind) \in OpCodes /\ "failure" \in OpCodes
    BY <1>2 DEF SimpleAnswer, OpCodes
  <2> QED
    BY <1>1, <2>1
<1>5. up' = "gone"
  BY <1>4 DEF Answer, AssignSimple
<1>6. Talk'
  BY <1>1, <1>2, <1>3, <1>4, AnswerOpTalk
<1>7. addr' \in [1..4 -> 0..255]
  BY <1>1, <1>2, FixedUpAddr, SMTT(60) DEF Data
<1>8. Data' /\ Accounts'
  BY <1>1, <1>2, <1>5, <1>7, GoneBytes DEF Data
<1> QED
  BY <1>6, <1>8 DEF Talk, Inv

\* The answer cannot be given.
LEMMA HonorFailsInv == ASSUME Inv, HonorFails PROVE Inv'
<1>1. /\ at = "honor" /\ Fault /\ Drop(rx, tx) /\ up' = "gone"
      /\ addr' = IF req.kind = "domain" THEN addr ELSE FixedUp(req)
      /\ UNCHANGED <<req, buf, head, tfoPayload, rx, peer, wrote, got, remote>>
  BY DEF HonorFails, Drop
<1>2. /\ Talk /\ Data /\ Accounts /\ faults \in 0..MaxFaults /\ req \in Requests
      /\ up = "auth" /\ server' = "none" /\ sent' = sent
      /\ tx \in Seq(AuthCells) /\ Len(tx) <= TxSize
  BY <1>1 DEF Inv, Talk, Objects, Phases, remote
<1>3. faults' \in 0..MaxFaults /\ faults' # 0
  BY <1>1, <1>2, ProxyRequestAssumption DEF Fault
<1>4. Listening => got \o tx = AuthReply(TRUE)
  BY <1>1 DEF Inv, Spoken
<1>5. ~Undisturbed'
  BY <1>3 DEF Undisturbed
<1>6. Talk'
  BY <1>1, <1>2, <1>3, <1>4, <1>5, DropTalk
<1>7. addr' \in [1..4 -> 0..255]
  BY <1>1, <1>2, FixedUpAddr, SMTT(60) DEF Data
<1>8. Data' /\ Accounts'
  BY <1>1, <1>2, <1>7, GoneBytes DEF Data
<1> QED
  BY <1>6, <1>8 DEF Talk, Inv

-----------------------------------------------------------------------------
(* Reading the request and authenticating *)

\* What holds while the request is read.
LEMMA ReadingState ==
    ASSUME Inv, up = "reading"
    PROVE  /\ Talk /\ Data /\ Accounts /\ faults \in 0..MaxFaults /\ req \in Requests
           /\ req.len \in Nat \ {0} /\ wrote \in 0..(req.len + MaxPayload)
           /\ at = "poll" /\ down = "none" /\ reply = <<>> /\ authBuf = <<>> /\ server = "none"
           /\ sent = <<>> /\ told # "fin"
           /\ tx \in Seq(AuthCells) /\ got \in Seq(AuthCells) /\ Len(tx) <= TxSize
           /\ Listening => got \o tx = <<>>
           /\ head = 0 /\ Len(buf) < req.len /\ buf \o rx = Padded(req.len, wrote)
<1>1. /\ Talk /\ Data /\ Accounts /\ faults \in 0..MaxFaults /\ req \in Requests
      /\ Len(tx) <= TxSize
  BY DEF Inv, Talk, Objects
<1>2. req.len \in Nat \ {0}
  BY <1>1, ProxyRequestAssumption
<1>3. at = "poll" /\ down = "none"
  BY DEF Inv, Phases, Objects
<1>4. /\ reply = <<>> /\ authBuf = <<>> /\ server = "none" /\ sent = <<>>
      /\ tx \in Seq(AuthCells) /\ got \in Seq(AuthCells)
  BY <1>3 DEF Inv, Phases
<1>5. told # "fin" /\ (Listening => got \o tx = <<>>)
  BY <1>3 DEF Inv, Endings, Spoken
<1>6. head = 0 /\ Len(buf) < req.len /\ buf \o rx = Padded(req.len, wrote)
  BY DEF Inv, Accounts
<1> QED
  BY <1>1, <1>2, <1>3, <1>4, <1>5, <1>6 DEF Data

\* The request is incomplete, wrong, or whole and taken out of the buffer.
LEMMA ReadRequestInv == ASSUME Inv, ReadRequest PROVE Inv'
<1> DEFINE used == buf \o Received
           rest == Rest
<1>1. /\ up = "reading" /\ rx' = rest /\ faults' = faults
      /\ UNCHANGED <<req, tfoPayload, addr, peer, wrote, got, remote>>
  BY DEF ReadRequest, NoFault
<1>2. /\ Talk /\ Data /\ Accounts /\ faults \in 0..MaxFaults /\ req \in Requests
      /\ req.len \in Nat \ {0} /\ wrote \in 0..(req.len + MaxPayload)
      /\ at = "poll" /\ down = "none" /\ reply = <<>> /\ authBuf = <<>> /\ server = "none"
      /\ sent = <<>> /\ told # "fin"
      /\ tx \in Seq(AuthCells) /\ got \in Seq(AuthCells) /\ Len(tx) <= TxSize
      /\ Listening => got \o tx = <<>>
      /\ head = 0 /\ buf \o rx = Padded(req.len, wrote)
  BY <1>1, ReadingState
<1>3. /\ used \in Seq(Byte) /\ rest \in Seq(Byte) /\ Len(rest) <= RxSize
      /\ head + Len(used) <= BufSize /\ used \o rest = Padded(req.len, wrote)
  BY <1>2, Receiving
<1>4. server' = "none" /\ sent' = <<>> /\ faults' \in 0..MaxFaults
  BY <1>1, <1>2 DEF remote
<1>5. \/ AssignSimple(VersionReply) /\ buf' = used /\ head' = head
      \/ Len(used) < req.len /\ buf' = used /\ UNCHANGED <<objects, tx, told, head>>
      \/ req.kind = "malformed" /\ Drop(rest, tx) /\ buf' = used /\ head' = head
      \/ /\ req.kind \notin {"badVersion", "malformed"} /\ Len(used) >= req.len
         /\ Unused(used, req.len)
         /\ up' = "auth" /\ at' = "auth" /\ authBuf' = AuthReply(req.ok)
         /\ UNCHANGED <<down, reply, streamState, tx, told>>
  BY DEF ReadRequest
<1> HIDE DEF used, rest
<1>6. CASE AssignSimple(VersionReply) /\ buf' = used /\ head' = head
  <2> DEFINE m == VersionReply
  <2>1. m \in Seq(Cells) /\ AssignSimple(m) /\ <<>> \o m = m
    BY <1>6, OtherReplies, ConcatEmptySeq
  <2>2. Listening => server' = "none" /\ got \o tx \o m = VersionReply
    BY <1>2, <1>4, <2>1
  <2> HIDE DEF m
  <2>3. Talk'
    BY <1>1, <1>2, <1>4, <2>1, <2>2, AnswerTalk
  <2>4. up' = "gone"
    BY <1>6 DEF AssignSimple
  <2>5. Data' /\ Accounts'
    BY <1>1, <1>2, <1>3, <1>4, <1>6, <2>4, GoneBytes DEF Data
  <2> QED
    BY <2>3, <2>5 DEF Talk, Inv
<1>7. CASE Len(used) < req.len /\ buf' = used /\ UNCHANGED <<objects, tx, told, head>>
  <2>1. UNCHANGED <<up, at, authBuf, down, reply, streamState, tx, told, head>>
    BY <1>7 DEF objects
  <2>2. Objects' /\ Phases'
    BY <1>1, <1>2, <1>4, <2>1 DEF Talk, Objects, Phases
  <2>3. Spoken' /\ Endings'
    BY <1>1, <1>2, <1>4, <2>1 DEF Talk, Spoken, Endings, Listening
  <2>4. Data'
    BY <1>1, <1>2, <1>3, <1>4, <1>7, <2>1 DEF Data
  <2>5. Accounts'
    BY <1>1, <1>2, <1>3, <1>7, <2>1 DEF Accounts
  <2> QED
    BY <2>2, <2>3, <2>4, <2>5 DEF Inv
<1>8. CASE req.kind = "malformed" /\ Drop(rest, tx) /\ buf' = used /\ head' = head
  <2>1. ~Undisturbed'
    BY <1>1, <1>8 DEF Undisturbed
  <2>2. Talk'
    BY <1>1, <1>2, <1>4, <1>8, <2>1, DropTalk
  <2>3. up' = "gone"
    BY <1>8 DEF Drop
  <2>4. Data' /\ Accounts'
    BY <1>1, <1>2, <1>3, <1>4, <1>8, <2>3, GoneBytes DEF Data
  <2> QED
    BY <2>2, <2>4 DEF Talk, Inv
<1>9. CASE /\ req.kind \notin {"badVersion", "malformed"} /\ Len(used) >= req.len
           /\ Unused(used, req.len)
           /\ up' = "auth" /\ at' = "auth" /\ authBuf' = AuthReply(req.ok)
           /\ UNCHANGED <<down, reply, streamState, tx, told>>
  <2> DEFINE a == AuthReply(req.ok)
  <2>1. a \in Seq(AuthCells) /\ a \in Seq(Cells) /\ <<>> \o a = a
    <3>1. req.ok \in BOOLEAN
      BY <1>2, ProxyRequestAssumption
    <3>2. a \in Seq(AuthCells)
      BY <3>1, AuthReplies
    <3>3. a \in Seq(Cells)
      BY <3>2, AuthAreCells
    <3> HIDE DEF a
    <3> QED
      BY <3>2, <3>3, ConcatEmptySeq
  <2>2. authBuf' = a
    BY <1>9
  <2>3. Listening => got \o tx \o a = AuthReply(req.ok)
    BY <1>2, <2>1
  <2> HIDE DEF a
  <2>4. Objects' /\ Phases'
    BY <1>1, <1>2, <1>4, <1>9, <2>1, <2>2 DEF Talk, Objects, Phases
  <2>5. Spoken' /\ Endings'
    BY <1>1, <1>2, <1>4, <1>9, <2>2, <2>3 DEF Talk, Spoken, Endings, Listening
  <2> DEFINE q == SubSeq(used, 1, req.len)
  <2>6. Len(used) \in Nat /\ req.len \in 0..Len(used) /\ head \in Nat
    BY <1>2, <1>3, <1>9, LenProperties
  <2>7. /\ q \in Seq(Byte) /\ Len(q) = req.len /\ buf' \in Seq(Byte) /\ q \o buf' = used
        /\ head' \in Nat /\ head' + Len(buf') <= BufSize /\ head' <= head + req.len
    BY <1>3, <1>9, <2>6, Unusing
  <2> HIDE DEF q
  <2>8. Data'
    BY <1>1, <1>2, <1>3, <1>4, <2>7 DEF Data
  <2>9. wrote >= req.len /\ buf' \o rest = Padded(0, wrote - req.len)
    <3> DEFINE u == buf' \o rest
    <3>1. u \in Seq(Byte)
      BY <1>3, <2>7, Conc
    <3>2. (q \o buf') \o rest = q \o (buf' \o rest)
      <4> DEFINE b == buf'
      <4>1. b \in Seq(Byte) /\ q \in Seq(Byte) /\ rest \in Seq(Byte)
        BY <1>3, <2>7
      <4> HIDE DEF b
      <4>2. (q \o b) \o rest = q \o (b \o rest)
        BY <4>1, AssocBytes
      <4> QED
        BY <4>2 DEF b
    <3>3. q \o u = Padded(req.len, wrote)
      BY <1>3, <2>7, <3>2
    <3>4. req.len \in Nat
      BY <1>2
    <3> HIDE DEF u
    <3>5. wrote >= req.len /\ u = Padded(0, wrote - req.len)
      BY <1>2, <2>7, <3>1, <3>3, <3>4, PaddedRest
    <3> QED
      BY <3>5 DEF u
  <2>10. Accounts'
    <3>1. head' <= req.len
      BY <1>2, <2>7
    <3> QED
      BY <1>1, <1>9, <2>9, <3>1 DEF Accounts
  <2> QED
    BY <2>4, <2>5, <2>8, <2>10 DEF Inv
<1> QED
  BY <1>5, <1>6, <1>7, <1>8, <1>9

\* The client has closed before its request was whole, or the buffer is full.
LEMMA ReadEndsInv == ASSUME Inv, ReadEnds PROVE Inv'
<1>1. /\ up = "reading" /\ (peer # "open" \/ (rx # <<>> /\ Received = <<>>))
      /\ Drop(rx, tx) /\ faults' = faults
      /\ UNCHANGED <<req, buf, head, tfoPayload, addr, rx, peer, wrote, got, server, sent>>
  <2>1. /\ up = "reading" /\ (peer # "open" \/ (rx # <<>> /\ Received = <<>>))
        /\ Drop(rx, tx)
    BY DEF ReadEnds
  <2>2. /\ faults' = faults
        /\ UNCHANGED <<req, buf, head, tfoPayload, addr, rx, peer, wrote, got, server, sent>>
    BY DEF ReadEnds, NoFault, queue, remote
  <2> QED
    BY <2>1, <2>2
<1>2. /\ Talk /\ Data /\ Accounts /\ faults \in 0..MaxFaults /\ req \in Requests
      /\ req.len \in Nat \ {0} /\ server = "none"
      /\ tx \in Seq(AuthCells) /\ Len(tx) <= TxSize
      /\ Listening => got \o tx = <<>>
      /\ head = 0 /\ Len(buf) < req.len
  BY <1>1, ReadingState
<1>3. ~Undisturbed'
  <2> SUFFICES ASSUME Undisturbed' PROVE FALSE
    OBVIOUS
  <2>1. peer = "open" /\ req.len + Least(req.tfo, MSS) <= BufSize
    BY <1>1 DEF Undisturbed
  <2>2. head + Len(buf) = BufSize
    BY <1>1, <1>2, <2>1, Receiving
  <2>3. Len(buf) \in Nat /\ BufSize \in Nat /\ Least(req.tfo, MSS) \in Nat
    BY <1>2, LenProperties, ProxyRequestAssumption DEF Data, Least
  <2> QED
    BY <1>2, <2>1, <2>2, <2>3
<1>4. Talk'
  BY <1>1, <1>2, <1>3, DropTalk
<1>5. up' = "gone"
  BY <1>1 DEF Drop
<1>6. Data' /\ Accounts'
  BY <1>1, <1>2, <1>5, SameBytes
<1> QED
  BY <1>4, <1>6 DEF Talk, Inv

\* A call fails on the way to the AuthServer.
LEMMA ReadFailsInv == ASSUME Inv, ReadFails PROVE Inv'
<1> DEFINE rest == Rest
<1>1. /\ up = "reading" /\ Fault /\ Drop(rest, tx) /\ rx' = rest
      /\ UNCHANGED <<req, buf, head, tfoPayload, addr, peer, wrote, got, server, sent>>
  BY DEF ReadFails, queue, remote
<1>2. /\ Talk /\ Data /\ Accounts /\ faults \in 0..MaxFaults /\ req \in Requests
      /\ server = "none" /\ tx \in Seq(AuthCells) /\ Len(tx) <= TxSize
      /\ Listening => got \o tx = <<>>
  BY <1>1, ReadingState
<1>3. rest \in Seq(Byte) /\ Len(rest) <= RxSize
  BY <1>2, Receiving
<1> HIDE DEF rest
<1>4. faults' \in 0..MaxFaults /\ faults' # 0
  BY <1>1, <1>2, ProxyRequestAssumption DEF Fault
<1>5. ~Undisturbed'
  BY <1>4 DEF Undisturbed
<1>6. Talk'
  BY <1>1, <1>2, <1>4, <1>5, DropTalk
<1>7. up' = "gone"
  BY <1>1 DEF Drop
<1>8. Data' /\ Accounts'
  BY <1>1, <1>2, <1>3, <1>7, GoneBytes DEF Data
<1> QED
  BY <1>6, <1>8 DEF Talk, Inv

\* The connection of a client being authenticated is lost.
LEMMA AuthFailsInv == ASSUME Inv, AuthFails PROVE Inv'
<1>1. /\ up = "auth" /\ peer = "aborted" /\ Drop(rx, tx) /\ faults' = faults
      /\ UNCHANGED <<req, buf, head, tfoPayload, addr, rx, peer, wrote, got, server, sent>>
  BY DEF AuthFails, NoFault, queue, remote
<1>2. /\ Talk /\ Data /\ Accounts /\ faults \in 0..MaxFaults /\ server = "none"
      /\ tx \in Seq(AuthCells) /\ Len(tx) <= TxSize
  BY <1>1 DEF Inv, Talk, Objects, Phases
<1>3. ~Listening /\ ~Undisturbed'
  BY <1>1 DEF Listening, Undisturbed
<1>4. Talk'
  BY <1>1, <1>2, <1>3, DropTalk
<1>5. up' = "gone"
  BY <1>1 DEF Drop
<1>6. Data' /\ Accounts'
  BY <1>1, <1>2, <1>5, SameBytes
<1> QED
  BY <1>4, <1>6 DEF Talk, Inv

\* The authentication reply, or the rest of it, is sent.
LEMMA AuthSendInv == ASSUME Inv, AuthSend PROVE Inv'
<1> DEFINE n == Least(Room, Len(authBuf))
           t == tx \o SubSeq(authBuf, 1, n)
           b == SubSeq(authBuf, n + 1, Len(authBuf))
<1>1. /\ up = "auth" /\ at \in {"auth", "poll"} /\ Room > 0 /\ faults' = faults
      /\ UNCHANGED <<req, buf, head, tfoPayload, addr, rx, peer, wrote, got, server, sent>>
      /\ \/ /\ n < Len(authBuf) \/ req.ok
            /\ at' = IF n < Len(authBuf) THEN "poll" ELSE "honor"
            /\ authBuf' = b /\ tx' = t
            /\ UNCHANGED <<up, down, reply, streamState, told>>
         \/ n = Len(authBuf) /\ ~req.ok /\ Drop(rx, t)
  BY DEF AuthSend, NoFault, queue, remote
<1>2. /\ Talk /\ Data /\ Accounts /\ faults \in 0..MaxFaults /\ server = "none" /\ sent = <<>>
      /\ tx \in Seq(AuthCells) /\ got \in Seq(AuthCells) /\ Len(tx) <= TxSize
      /\ authBuf \in Seq(AuthCells) /\ authBuf \in Seq(Cells)
      /\ tx \in Seq(Cells) /\ got \in Seq(Cells)
      /\ req.ok \in BOOLEAN /\ told # "fin" /\ down = "none" /\ reply = <<>>
  BY <1>1, ProxyRequestAssumption DEF Inv, Talk, Objects, Phases, Endings
<1>3. Listening => got \o tx \o authBuf = AuthReply(req.ok)
  BY <1>1 DEF Inv, Spoken
<1>4. n \in 0..Len(authBuf) /\ n <= Room /\ Len(authBuf) \in Nat
  <2>1. Len(authBuf) \in Nat /\ Room \in Nat
    BY <1>1, <1>2, LenProperties, ProxyRequestAssumption DEF Room
  <2> QED
    BY <2>1 DEF Least
<1>5. Len(tx) \in Nat /\ Len(tx) + n <= TxSize
  BY <1>2, <1>4, LenProperties, ProxyRequestAssumption DEF Room
<1> HIDE DEF n
<1>6. t \in Seq(Cells) /\ Len(t) = Len(tx) + n /\ (got \o t) \o b = (got \o tx) \o authBuf
  <2>1. /\ got \in Seq(Cells) /\ tx \in Seq(Cells) /\ authBuf \in Seq(Cells)
        /\ n \in 0..Len(authBuf)
    BY <1>2, <1>4
  <2>2. \A q \in Seq(Cells) : \A i \in 0..Len(q) :
           /\ tx \o SubSeq(q, 1, i) \in Seq(Cells) /\ Len(tx \o SubSeq(q, 1, i)) = Len(tx) + i
           /\ (got \o (tx \o SubSeq(q, 1, i))) \o SubSeq(q, i + 1, Len(q)) = (got \o tx) \o q
    BY <2>1, PassOn
  <2>3. /\ tx \o SubSeq(authBuf, 1, n) \in Seq(Cells)
        /\ Len(tx \o SubSeq(authBuf, 1, n)) = Len(tx) + n
        /\ (got \o (tx \o SubSeq(authBuf, 1, n))) \o SubSeq(authBuf, n + 1, Len(authBuf))
              = (got \o tx) \o authBuf
    BY <2>1, <2>2
  <2> QED
    BY <2>3
<1>7. b \in Seq(AuthCells) /\ t \in Seq(AuthCells) /\ Len(b) = Len(authBuf) - n
  <2> DEFINE a == SubSeq(authBuf, 1, n)
  <2>1. a \in Seq(AuthCells) /\ b \in Seq(AuthCells) /\ Len(b) = Len(authBuf) - n
    BY <1>2, <1>4, Cut
  <2> HIDE DEF a, b
  <2>2. tx \o a \in Seq(AuthCells)
    BY <1>2, <2>1, Conc
  <2> QED
    BY <2>1, <2>2 DEF a
<1>8. Len(t) <= TxSize
  BY <1>5, <1>6
<1>9. got \o t \in Seq(Cells)
  <2> HIDE DEF t
  <2> QED
    BY <1>2, <1>6, Conc
<1>10. n = Len(authBuf) => b = <<>> /\ (got \o t) \o b = got \o t
  <2>1. n = Len(authBuf) => b = <<>>
    BY <1>4, <1>7, EmptySeq
  <2> HIDE DEF b, t
  <2> QED
    BY <1>9, <2>1, ConcatEmptySeq
<1>11. b \in Seq(Cells)
  <2> HIDE DEF b
  <2> QED
    BY <1>7, AuthAreCells
<1> HIDE DEF t, b
<1>12. CASE /\ n < Len(authBuf) \/ req.ok
            /\ at' = IF n < Len(authBuf) THEN "poll" ELSE "honor"
            /\ authBuf' = b /\ tx' = t
            /\ UNCHANGED <<up, down, reply, streamState, told>>
  <2>1. \/ at' = "poll"
        \/ at' = "honor" /\ n = Len(authBuf) /\ req.ok
    BY <1>4, <1>12
  <2>2. Objects'
    BY <1>1, <1>2, <1>6, <1>8, <1>11, <1>12, <2>1 DEF Talk, Objects
  <2>3. Phases'
    BY <1>1, <1>2, <1>7, <1>10, <1>12, <2>1 DEF Talk, Phases
  <2>4. Listening' => (got' \o tx') \o authBuf' = AuthReply(req.ok)
    BY <1>1, <1>3, <1>6, <1>12 DEF Listening
  <2>5. at' = "honor" /\ Listening' => got' \o tx' = AuthReply(TRUE)
    BY <1>1, <1>10, <1>12, <2>1, <2>4
  <2>6. Spoken'
    BY <1>1, <1>2, <1>12, <2>1, <2>4, <2>5 DEF Spoken
  <2>7. Endings'
    BY <1>1, <1>2, <1>12 DEF Endings
  <2>8. Data' /\ Accounts'
    BY <1>1, <1>2, <1>12, SameBytes
  <2> QED
    BY <2>2, <2>3, <2>6, <2>7, <2>8 DEF Inv
<1>13. CASE n = Len(authBuf) /\ ~req.ok /\ Drop(rx, t)
  <2>1. Listening => got \o t = AuthReply(FALSE)
    BY <1>2, <1>3, <1>6, <1>10, <1>13
  <2>2. Undisturbed' => Listening
    BY <1>1, <1>13, Closing DEF Undisturbed, Listening, Drop
  <2>3. Talk'
    BY <1>1, <1>2, <1>7, <1>8, <1>13, <2>1, <2>2, DropTalk
  <2>4. up' = "gone"
    BY <1>13 DEF Drop
  <2>5. Data' /\ Accounts'
    BY <1>1, <1>2, <2>4, SameBytes
  <2> QED
    BY <2>3, <2>5 DEF Talk, Inv
<1> QED
  BY <1>1, <1>12, <1>13

-----------------------------------------------------------------------------
(* Connecting and answering *)

\* The connection stands or has failed.
LEMMA ConnectEndsInv == ASSUME Inv, ConnectEnds PROVE Inv'
<1>1. /\ up = "connecting" /\ at = "poll"
      /\ UNCHANGED <<req, buf, head, tfoPayload, addr, rx, peer, wrote, got, server, sent>>
      /\ \/ faults' = faults /\ Answer("refused")
         \/ Fault /\ Answer("failure")
         \/ Fault /\ Drop(rx, tx)
         \/ /\ server = "up"
            /\ up' = "stream"
            /\ streamState' = IF buf = <<>> THEN "receiving" ELSE "sending"
            /\ \/ faults' = faults /\ down' = "connect" /\ reply' = OpReply("success")
               \/ Fault /\ down' = "gone" /\ reply' = reply
            /\ UNCHANGED <<at, authBuf, tx, told>>
  BY DEF ConnectEnds, NoFault, queue, remote
<1>2. /\ Talk /\ Data /\ Accounts /\ faults \in 0..MaxFaults
      /\ server \in {"none", "syn", "up", "refused"}
      /\ req.kind = "connect" /\ req.ok /\ down = "none" /\ reply = <<>> /\ told # "fin"
      /\ tx \in Seq(AuthCells) /\ Len(tx) <= TxSize
      /\ Listening => got \o tx = AuthReply(TRUE)
  BY <1>1 DEF Inv, Talk, Objects, Phases, Spoken, Endings
<1>3. faults' \in 0..MaxFaults /\ (Fault => faults' # 0)
  BY <1>1, <1>2, ProxyRequestAssumption DEF Fault
<1>4. ASSUME NEW c \in OpCodes, Answer(c) PROVE Inv'
  <2>1. Talk'
    BY <1>1, <1>2, <1>3, <1>4, AnswerOpTalk
  <2>2. up' = "gone"
    BY <1>4 DEF Answer, AssignSimple
  <2>3. Data' /\ Accounts'
    BY <1>1, <1>2, <2>2, SameBytes
  <2> QED
    BY <2>1, <2>3 DEF Talk, Inv
<1>5. CASE Fault /\ Drop(rx, tx)
  <2>1. ~Undisturbed'
    BY <1>3, <1>5 DEF Undisturbed
  <2>2. Talk'
    BY <1>1, <1>2, <1>3, <1>5, <2>1, DropTalk
  <2>3. up' = "gone"
    BY <1>5 DEF Drop
  <2>4. Data' /\ Accounts'
    BY <1>1, <1>2, <2>3, SameBytes
  <2> QED
    BY <2>2, <2>4 DEF Talk, Inv
<1>6. CASE /\ server = "up"
           /\ up' = "stream"
           /\ streamState' = IF buf = <<>> THEN "receiving" ELSE "sending"
           /\ \/ faults' = faults /\ down' = "connect" /\ reply' = OpReply("success")
              \/ Fault /\ down' = "gone" /\ reply' = reply
           /\ UNCHANGED <<at, authBuf, tx, told>>
  <2>1. reply' \in Seq(Cells) /\ streamState' \in {"receiving", "sending"}
    <3> DEFINE m == OpReply("success")
    <3>1. m \in Seq(Cells)
      BY OtherReplies DEF OpCodes
    <3>2. reply' = m \/ reply' = reply
      BY <1>6
    <3> HIDE DEF m
    <3> QED
      BY <1>2, <1>6, <3>1, <3>2 DEF Talk, Objects
  <2>2. Objects'
    BY <1>1, <1>2, <1>3, <1>6, <2>1 DEF Talk, Objects
  <2>3. Phases'
    BY <1>1, <1>2, <1>6 DEF Talk, Phases
  <2>4. Spoken'
    BY <1>1, <1>2, <1>6 DEF Spoken, Listening
  <2>5. Endings'
    <3>1. Undisturbed' => down' # "gone"
      BY <1>3, <1>6 DEF Undisturbed
    <3> QED
      BY <1>2, <1>6, <3>1 DEF Endings
  <2>6. Data'
    BY <1>1, <1>2 DEF Data
  <2>7. Accounts'
    BY <1>1, <1>2, <1>6 DEF Accounts
  <2> QED
    BY <2>2, <2>3, <2>4, <2>5, <2>6, <2>7 DEF Inv
<1>7. "refused" \in OpCodes /\ "failure" \in OpCodes
  BY DEF OpCodes
<1> QED
  BY <1>1, <1>4, <1>5, <1>6, <1>7

\* What holds while a SimpleProxyDownstreamer has something to send.
LEMMA SimpleState ==
    ASSUME Inv, down = "simple"
    PROVE  /\ Talk /\ Data /\ Accounts /\ up = "gone" /\ authBuf = <<>> /\ told # "fin"
           /\ at = "poll"
           /\ Listening =>
                 \/ server = "none" /\ got \o tx \o reply = VersionReply
                 \/ /\ Len(reply) <= 2
                    /\ \E c \in OpCodes : got \o tx \o reply = AuthReply(TRUE) \o OpReply(c)
<1>1. up = "gone"
  BY DEF Inv, Objects, Phases
<1>2. authBuf = <<>> /\ told # "fin" /\ at = "poll"
  BY <1>1 DEF Inv, Objects, Phases, Endings
<1>3. Listening =>
         \/ server = "none" /\ got \o tx \o reply = VersionReply
         \/ /\ Len(reply) <= 2
            /\ \E c \in OpCodes : got \o tx \o reply = AuthReply(TRUE) \o OpReply(c)
  BY <1>1 DEF Inv, Spoken
<1> QED
  BY <1>1, <1>2, <1>3 DEF Inv, Talk

\* The reply, or the rest of it, is sent; behind its end the socket is closed.
LEMMA SimpleSendInv == ASSUME Inv, SimpleSend PROVE Inv'
<1> DEFINE n == Least(Room, Len(reply))
           t == tx \o SubSeq(reply, 1, n)
           b == SubSeq(reply, n + 1, Len(reply))
<1>1. /\ down = "simple" /\ Room > 0
      /\ reply' = b
      /\ \/ n < Len(reply) /\ tx' = t /\ down' = down /\ told' = told
         \/ n = Len(reply) /\ down' = "gone" /\ LastClose(rx, t)
      /\ UNCHANGED <<req, up, at, authBuf, streamState, buf, head, tfoPayload, addr,
                     rx, peer, wrote, got, server, sent, faults>>
  BY DEF SimpleSend, queue, remote
<1>2. /\ Talk /\ Data /\ Accounts /\ up = "gone" /\ authBuf = <<>> /\ told # "fin"
      /\ at = "poll"
      /\ Listening =>
            \/ server = "none" /\ got \o tx \o reply = VersionReply
            \/ /\ Len(reply) <= 2
               /\ \E c \in OpCodes : got \o tx \o reply = AuthReply(TRUE) \o OpReply(c)
  BY <1>1, SimpleState
<1>3. /\ reply \in Seq(Cells) /\ tx \in Seq(Cells) /\ got \in Seq(Cells)
      /\ Len(tx) <= TxSize /\ Len(tx) \in Nat /\ Len(reply) \in Nat /\ TxSize \in Nat
  BY <1>2, LenProperties, ProxyRequestAssumption DEF Talk, Objects
<1>4. n \in 0..Len(reply) /\ Len(tx) + n <= TxSize
  BY <1>1, <1>3 DEF Least, Room
<1> HIDE DEF n
<1>5. /\ t \in Seq(Cells) /\ Len(t) = Len(tx) + n
      /\ (got \o t) \o b = (got \o tx) \o reply
  <2>1. \A q \in Seq(Cells) : \A i \in 0..Len(q) :
           /\ tx \o SubSeq(q, 1, i) \in Seq(Cells) /\ Len(tx \o SubSeq(q, 1, i)) = Len(tx) + i
           /\ (got \o (tx \o SubSeq(q, 1, i))) \o SubSeq(q, i + 1, Len(q)) = (got \o tx) \o q
    BY <1>3, <1>4, PassOn
  <2>2. /\ tx \o SubSeq(reply, 1, n) \in Seq(Cells)
        /\ Len(tx \o SubSeq(reply, 1, n)) = Len(tx) + n
        /\ (got \o (tx \o SubSeq(reply, 1, n))) \o SubSeq(reply, n + 1, Len(reply))
              = (got \o tx) \o reply
    BY <1>3, <1>4, <2>1
  <2> QED
    BY <2>2
<1>6. b \in Seq(Cells) /\ Len(b) = Len(reply) - n
  BY <1>3, <1>4, Cut
<1>7. Len(t) <= TxSize /\ Len(b) <= Len(reply) /\ (n = Len(reply) => b = <<>>)
  <2>1. Len(t) <= TxSize /\ Len(b) <= Len(reply)
    BY <1>3, <1>4, <1>5, <1>6
  <2>2. n = Len(reply) => b = <<>>
    BY <1>3, <1>6, EmptySeq
  <2> QED
    BY <2>1, <2>2
<1> HIDE DEF t, b
<1>8. /\ (tx' = t /\ told' = told) \/ (tx' = <<>> /\ told' = "reset")
      /\ down' = "simple" \/ (down' = "gone" /\ reply' = <<>>)
  BY <1>1, <1>7, Closing
<1>9. Objects'
  <2>1. tx' \in Seq(Cells) /\ Len(tx') <= TxSize
    <3>1. <<>> \in Seq(Cells) /\ Len(<<>>) <= TxSize
      BY <1>3
    <3> QED
      BY <1>5, <1>7, <1>8, <3>1, Zenon
  <2> QED
    BY <1>1, <1>2, <1>6, <1>8, <2>1 DEF Talk, Objects
<1>10. Phases'
  BY <1>1, <1>2, <1>8 DEF Talk, Phases
<1>11. Spoken'
  <2>1. Listening' => Listening /\ tx' = t
    BY <1>1, <1>8 DEF Listening
  <2>2. Listening' => (got' \o tx') \o reply' = (got \o tx) \o reply
    BY <1>1, <1>5, <2>1
  <2>3. Len(reply) <= 2 => Len(reply') <= 2
    <3>1. Len(reply') \in Nat /\ Len(reply') <= Len(reply)
      BY <1>1, <1>6, <1>7, LenProperties
    <3> QED
      BY <1>3, <3>1
  <2> QED
    BY <1>1, <1>2, <1>8, <2>1, <2>2, <2>3 DEF Spoken
<1>12. Endings'
  BY <1>1, <1>2, <1>8 DEF Endings
<1>13. Data' /\ Accounts'
  BY <1>1, <1>2, SameBytes
<1> QED
  BY <1>9, <1>10, <1>11, <1>12, <1>13 DEF Inv

\* The client is gone before the reply is sent.
LEMMA SimpleFailsInv == ASSUME Inv, SimpleFails PROVE Inv'
<1>1. /\ down = "simple" /\ peer = "aborted" /\ down' = "gone"
      /\ UNCHANGED <<req, up, at, authBuf, reply, streamState, buf, head, tfoPayload, addr,
                     rx, tx, peer, wrote, got, told, server, sent, faults>>
  BY DEF SimpleFails, queue, client, remote
<1>2. Talk /\ Data /\ Accounts /\ up = "gone" /\ authBuf = <<>> /\ told # "fin" /\ at = "poll"
  BY <1>1, SimpleState
<1>3. Objects' /\ Phases'
  BY <1>1, <1>2 DEF Talk, Objects, Phases
<1>4. Spoken'
  BY <1>1 DEF Spoken, Listening
<1>5. Endings'
  BY <1>1, <1>2 DEF Endings, Undisturbed
<1>6. Data' /\ Accounts'
  BY <1>1, <1>2, SameBytes
<1> QED
  BY <1>3, <1>4, <1>5, <1>6 DEF Inv

-----------------------------------------------------------------------------
(* The client and the server *)

\* A byte more behind p and the receive buffer.
LEMMA WriteOne ==
    ASSUME NEW p \in Seq(Byte), NEW r \in Seq(Byte), NEW x \in Byte
    PROVE  /\ Append(r, x) \in Seq(Byte) /\ Len(Append(r, x)) = Len(r) + 1
           /\ p \o Append(r, x) = (p \o r) \o <<x>>
<1> DEFINE o == <<x>>
<1>1. /\ Append(r, x) \in Seq(Byte) /\ Len(Append(r, x)) = Len(r) + 1
      /\ o \in Seq(Byte) /\ Append(r, x) = r \o o
  BY AppendIsConcat, AppendProperties
<1> HIDE DEF o
<1>2. (p \o r) \o o = p \o (r \o o)
  BY <1>1, AssocBytes
<1> QED
  BY <1>1, <1>2 DEF o

\* The client writes a cell of its request or a byte of payload.
LEMMA ClientWritesInv == ASSUME Inv, ClientWrites PROVE Inv'
<1> DEFINE x == IF wrote < req.len THEN 0 ELSE wrote + 1 - req.len
<1>1. /\ wrote < req.len + MaxPayload /\ Len(rx) < RxSize
      /\ wrote' = wrote + 1 /\ rx' = Append(rx, x)
      /\ UNCHANGED <<req, up, at, authBuf, down, reply, streamState, buf, head, tfoPayload, addr,
                     tx, peer, got, told, server, sent, faults>>
  BY DEF ClientWrites, objects, queue, remote
<1>2. Talk'
  <2>1. Talk
    BY DEF Inv, Talk
  <2>2. Objects' /\ Phases'
    BY <1>1, <2>1 DEF Talk, Objects, Phases
  <2>3. Spoken' /\ Endings'
    BY <1>1, <2>1 DEF Talk, Spoken, Endings, Listening, Undisturbed
  <2> QED
    BY <2>2, <2>3 DEF Talk
<1>3. /\ req.len \in Nat /\ MaxPayload \in Nat /\ wrote \in Nat /\ RxSize \in Nat
      /\ buf \in Seq(Byte) /\ sent \in Seq(Byte) /\ rx \in Seq(Byte) /\ Len(rx) \in Nat
  BY ProxyRequestAssumption, LenProperties DEF Inv, Objects, Data
<1>4. /\ x \in Byte
      /\ Padded(req.len, wrote + 1) = Padded(req.len, wrote) \o <<x>>
  <2> DEFINE m == wrote
             z == req.len
  <2>1. /\ m \in Nat /\ m < z + MaxPayload /\ z \in Nat
        /\ x = IF m + 1 <= z THEN 0 ELSE m + 1 - z
    BY <1>1, <1>3
  <2> HIDE DEF m, z, x
  <2>2. x \in Byte /\ Padded(z, m + 1) = Padded(z, m) \o <<x>>
    BY <2>1, PaddedNext
  <2> QED
    BY <2>2 DEF m, z
<1>5. wrote >= req.len =>
         Padded(0, (wrote + 1) - req.len) = Padded(0, wrote - req.len) \o <<x>>
  <2> SUFFICES ASSUME wrote >= req.len
               PROVE  Padded(0, (wrote + 1) - req.len) = Padded(0, wrote - req.len) \o <<x>>
    OBVIOUS
  <2> DEFINE m == wrote - req.len
             z == 0
  <2>1. /\ m \in Nat /\ m < z + MaxPayload /\ (wrote + 1) - req.len = m + 1
        /\ z \in Nat
        /\ x = IF m + 1 <= z THEN 0 ELSE m + 1 - z
    BY <1>1, <1>3, SMTT(60)
  <2> HIDE DEF m, z, x
  <2>2. Padded(z, m + 1) = Padded(z, m) \o <<x>>
    BY <2>1, PaddedNext
  <2> QED
    BY <2>1, <2>2 DEF m, z
<1> HIDE DEF x
<1>6. rx' \in Seq(Byte) /\ Len(rx') = Len(rx) + 1 /\ buf \o rx' = (buf \o rx) \o <<x>>
  BY <1>1, <1>3, <1>4, WriteOne
<1>7. (sent \o buf) \o rx' = ((sent \o buf) \o rx) \o <<x>>
  <2> DEFINE p == sent \o buf
  <2>1. p \in Seq(Byte)
    BY <1>3, Conc
  <2> HIDE DEF p
  <2>2. p \o Append(rx, x) = (p \o rx) \o <<x>>
    BY <1>3, <1>4, <2>1, WriteOne
  <2> QED
    BY <1>1, <2>2 DEF p
<1>8. Data'
  <2>1. Len(rx') <= RxSize /\ wrote' \in 0..(req.len + MaxPayload)
    BY <1>1, <1>3, <1>6, SMTT(60)
  <2> QED
    BY <1>1, <1>6, <2>1 DEF Inv, Data
<1>9. Accounts'
  <2>1. wrote >= req.len => wrote' >= req.len
    BY <1>1, <1>3
  <2>2. up = "reading" => buf \o rx' = Padded(req.len, wrote')
    BY <1>1, <1>4, <1>6 DEF Inv, Accounts
  <2>3. up \in {"auth", "payload"} => buf \o rx' = Padded(0, wrote' - req.len)
    BY <1>1, <1>5, <1>6 DEF Inv, Accounts
  <2>4. up \in {"connecting", "stream"} => (sent \o buf) \o rx' = Padded(0, wrote' - req.len)
    BY <1>1, <1>5, <1>7 DEF Inv, Accounts
  <2> QED
    BY <1>1, <2>1, <2>2, <2>3, <2>4 DEF Inv, Accounts
<1> QED
  BY <1>2, <1>8, <1>9 DEF Talk, Inv

\* The client writes to a socket that is closed.
LEMMA ClientWritesLateInv == ASSUME Inv, ClientWritesLate PROVE Inv'
<1>1. /\ up = "gone" /\ wrote < req.len + MaxPayload
      /\ wrote' = wrote + 1 /\ tx' = <<>> /\ told' = "reset"
      /\ UNCHANGED <<req, up, at, authBuf, down, reply, streamState, buf, head, tfoPayload, addr,
                     rx, peer, got, server, sent, faults>>
  BY DEF ClientWritesLate, Closed, objects, queue, remote
<1>2. Objects'
  <2>1. tx' \in Seq(Cells) /\ Len(tx') <= TxSize
    BY <1>1, ProxyRequestAssumption
  <2> QED
    BY <1>1, <2>1 DEF Inv, Objects
<1>3. Phases'
  BY <1>1 DEF Inv, Phases
<1>4. Spoken' /\ Endings'
  BY <1>1 DEF Spoken, Listening, Endings, Undisturbed
<1>5. Data' /\ Accounts'
  <2>1. req.len \in Nat /\ MaxPayload \in Nat /\ wrote \in Nat
    BY ProxyRequestAssumption DEF Inv, Objects, Data
  <2>2. wrote' \in 0..(req.len + MaxPayload)
    BY <1>1, <2>1
  <2> QED
    BY <1>1, <2>2 DEF Inv, Data, Accounts
<1> QED
  BY <1>2, <1>3, <1>4, <1>5 DEF Inv

\* The client closes its side of the connection.
LEMMA ClientClosesInv == ASSUME Inv, ClientCloses PROVE Inv'
<1>1. /\ peer = "open" /\ peer' = "fin"
      /\ UNCHANGED <<req, up, at, authBuf, down, reply, streamState, buf, head, tfoPayload, addr,
                     rx, tx, wrote, got, told, server, sent, faults>>
  BY DEF ClientCloses, objects, queue, remote
<1>2. Objects' /\ Phases'
  BY <1>1 DEF Inv, Objects, Phases
<1>3. Spoken'
  BY <1>1 DEF Inv, Spoken, Listening
<1>4. Endings'
  BY <1>1 DEF Inv, Endings, Undisturbed
<1>5. Data' /\ Accounts'
  BY <1>1, SameBytes DEF Inv
<1> QED
  BY <1>2, <1>3, <1>4, <1>5 DEF Inv

\* The client aborts the connection.
LEMMA ClientAbortsInv == ASSUME Inv, ClientAborts PROVE Inv'
<1>1. /\ peer' = "aborted" /\ tx' = <<>>
      /\ UNCHANGED <<req, up, at, authBuf, down, reply, streamState, buf, head, tfoPayload, addr,
                     rx, wrote, got, told, server, sent, faults>>
  BY DEF ClientAborts, objects, queue, remote
<1>2. tx' \in Seq(Cells) /\ tx' \in Seq(AuthCells) /\ Len(tx') <= TxSize
  BY <1>1, ProxyRequestAssumption
<1>3. Objects' /\ Phases'
  BY <1>1, <1>2 DEF Inv, Objects, Phases
<1>4. Spoken'
  BY <1>1 DEF Spoken, Listening
<1>5. Endings'
  BY <1>1 DEF Inv, Endings, Undisturbed
<1>6. Data' /\ Accounts'
  BY <1>1, SameBytes DEF Inv
<1> QED
  BY <1>3, <1>4, <1>5, <1>6 DEF Inv

\* The client reads a cell.
LEMMA ClientReadsInv == ASSUME Inv, ClientReads PROVE Inv'
<1>1. /\ tx # <<>> /\ got' = Append(got, Head(tx)) /\ tx' = Tail(tx)
      /\ UNCHANGED <<req, up, at, authBuf, down, reply, streamState, buf, head, tfoPayload, addr,
                     rx, peer, wrote, told, server, sent, faults>>
  BY DEF ClientReads, objects, queue, remote
<1>2. tx \in Seq(Cells) /\ got \in Seq(Cells) /\ Len(tx) <= TxSize
  BY DEF Inv, Objects
<1>3. /\ got' \in Seq(Cells) /\ tx' \in Seq(Cells) /\ Len(tx') = Len(tx) - 1
      /\ got' \o tx' = got \o tx
  BY <1>1, <1>2, ReadOne, SMTT(60)
<1>4. up # "gone" => got' \in Seq(AuthCells) /\ tx' \in Seq(AuthCells)
  <2> SUFFICES ASSUME up # "gone" PROVE got' \in Seq(AuthCells) /\ tx' \in Seq(AuthCells)
    OBVIOUS
  <2>1. got \in Seq(AuthCells) /\ tx \in Seq(AuthCells)
    BY DEF Inv, Phases
  <2> QED
    BY <1>1, <2>1, ReadOne
<1>5. Objects'
  <2>1. Len(tx') <= TxSize
    BY <1>2, <1>3, LenProperties, ProxyRequestAssumption
  <2> QED
    BY <1>1, <1>3, <2>1 DEF Inv, Objects
<1>6. Phases'
  BY <1>1, <1>4 DEF Inv, Phases
<1>7. Spoken'
  <2>1. Listening' <=> Listening
    BY <1>1 DEF Listening
  <2> QED
    BY <1>1, <1>3, <2>1 DEF Inv, Spoken
<1>8. Endings'
  <2>1. Undisturbed' <=> Undisturbed
    BY <1>1 DEF Undisturbed
  <2> QED
    BY <1>1, <1>3, <2>1 DEF Inv, Endings
<1>9. Data' /\ Accounts'
  BY <1>1, SameBytes DEF Inv
<1> QED
  BY <1>5, <1>6, <1>7, <1>8, <1>9 DEF Inv

\* The client reads the end of the stream.
LEMMA ClientReadsFinInv == ASSUME Inv, ClientReadsFin PROVE Inv'
<1>1. /\ tx = <<>> /\ told = "no" /\ told' = "fin"
      /\ down = "gone" \/ (up = "gone" /\ down = "none")
      /\ UNCHANGED <<req, up, at, authBuf, down, reply, streamState, buf, head, tfoPayload, addr,
                     rx, tx, peer, wrote, got, server, sent, faults>>
  BY DEF ClientReadsFin, Closed, objects, queue, remote
<1>2. Objects' /\ Phases'
  BY <1>1 DEF Inv, Objects, Phases
<1>3. Spoken'
  BY <1>1 DEF Inv, Spoken, Listening
<1>4. Endings'
  BY <1>1 DEF Inv, Endings, Undisturbed
<1>5. Data' /\ Accounts'
  BY <1>1, SameBytes DEF Inv
<1> QED
  BY <1>2, <1>3, <1>4, <1>5 DEF Inv

\* The connection to the server is made or refused.
LEMMA ServerAnswersInv == ASSUME Inv, ServerAnswers PROVE Inv'
<1>1. /\ server = "syn" /\ up = "connecting" /\ server' \in {"up", "refused"}
      /\ UNCHANGED <<req, up, at, authBuf, down, reply, streamState, buf, head, tfoPayload, addr,
                     rx, tx, peer, wrote, got, told, sent, faults>>
  BY DEF ServerAnswers, objects, queue, client
<1>2. Objects' /\ Phases'
  BY <1>1 DEF Inv, Objects, Phases
<1>3. Spoken'
  BY <1>1 DEF Inv, Spoken, Listening
<1>4. Endings'
  BY <1>1 DEF Inv, Endings, Undisturbed
<1>5. Data' /\ Accounts'
  BY <1>1, SameBytes DEF Inv
<1> QED
  BY <1>2, <1>3, <1>4, <1>5 DEF Inv

-----------------------------------------------------------------------------
(* The invariant *)

\* It holds when the connection has been accepted.
LEMMA InitInv == Init => Inv
<1> SUFFICES ASSUME Init PROVE Inv
  OBVIOUS
<1>1. /\ req \in Requests
      /\ up = "reading" /\ at = "poll" /\ authBuf = <<>>
      /\ down = "none" /\ reply = <<>> /\ streamState = "receiving"
      /\ buf = <<>> /\ head = 0 /\ tfoPayload = 0 /\ addr = <<0, 0, 0, 0>>
      /\ rx = <<>> /\ tx = <<>> /\ peer = "open" /\ wrote = 0 /\ got = <<>> /\ told = "no"
      /\ server = "none" /\ sent = <<>> /\ faults = 0
  BY DEF Init, ZeroAddr
<1>2. /\ req.len \in Nat \ {0} /\ req.tfo \in Nat /\ 0 \in 0..MSS /\ 0 \in 0..MaxFaults
      /\ 0 <= TxSize /\ 0 <= RxSize /\ 0 <= BufSize /\ 0 <= req.tfo
      /\ 0 \in 0..(req.len + MaxPayload)
  BY <1>1, ProxyRequestAssumption
<1>3. /\ <<>> \in Seq(Cells) /\ <<>> \in Seq(AuthCells) /\ <<>> \in Seq(Byte)
      /\ Len(<<>>) = 0 /\ <<>> \o <<>> = <<>>
  OBVIOUS
<1>4. Objects
  BY <1>1, <1>2, <1>3 DEF Objects
<1>5. Data
  <2>1. <<0, 0, 0, 0>> \in [1..4 -> 0..255]
    OBVIOUS
  <2> QED
    BY <1>1, <1>2, <1>3, <2>1 DEF Data
<1>6. Phases
  BY <1>1, <1>3 DEF Phases
<1>7. Spoken /\ Endings
  BY <1>1, <1>3 DEF Spoken, Endings
<1>8. Accounts
  <2>1. Padded(req.len, 0) = <<>>
    <3> DEFINE z == req.len
               m == 0
    <3>1. z \in Nat /\ m \in 0..(z + MaxPayload)
      BY <1>2
    <3> HIDE DEF z, m
    <3>2. Padded(z, m) \in Seq(Byte) /\ Len(Padded(z, m)) = m
      BY <3>1, PaddedSeq
    <3> HIDE DEF Padded
    <3>3. Padded(z, m) = <<>>
      BY <3>2, EmptySeq DEF m
    <3> QED
      BY <3>3 DEF z, m
  <2>2. Len(buf) < req.len /\ buf \o rx = Padded(req.len, wrote)
    BY <1>1, <1>2, <1>3, <2>1
  <2> QED
    BY <1>1, <2>2 DEF Accounts
<1> QED
  BY <1>4, <1>5, <1>6, <1>7, <1>8 DEF Inv

\* Every step keeps it.
LEMMA NextInv == Inv /\ [Next]_vars => Inv'
<1> SUFFICES ASSUME Inv, [Next]_vars PROVE Inv'
  OBVIOUS
<1>1. CASE Handler
  BY <1>1, ReadRequestInv, ReadEndsInv, ReadFailsInv, AuthSendInv, AuthFailsInv, HonorSimpleInv,
     HonorConnectInv, HonorFailsInv, PayloadArrivesInv, ConnectEndsInv, SimpleSendInv,
     SimpleFailsInv DEF Handler
<1>2. CASE UNCHANGED vars
  <2>1. UNCHANGED <<req, up, at, authBuf, down, reply, streamState, buf, head, tfoPayload, addr,
                    rx, tx, peer, wrote, got, told, server, sent, faults>>
    BY <1>2 DEF vars, objects, queue, client, remote
  <2>2. Objects' /\ Phases'
    BY <2>1 DEF Inv, Objects, Phases
  <2>3. Spoken' /\ Endings'
    BY <2>1 DEF Inv, Spoken, Endings, Listening, Undisturbed
  <2>4. Data' /\ Accounts'
    BY <2>1, SameBytes DEF Inv
  <2> QED
    BY <2>2, <2>3, <2>4 DEF Inv
<1> QED
  BY <1>1, <1>2, ClientWritesInv, ClientWritesLateInv, ClientClosesInv, ClientAbortsInv,
     ClientReadsInv, ClientReadsFinInv, ServerAnswersInv DEF Next

(***************************************************************************)
(* The inductive invariant of the request phase: which reactor exists in   *)
(* which phase, what has been said to the client by then, where each byte  *)
(* is that the client has written, and how an undisturbed session ends.    *)
(***************************************************************************)
THEOREM ProxyRequestInvariant == Spec => []Inv
BY InitInv, NextInv, PTL DEF Spec

\* The variables of the request phase keep their types; no buffer overflows.
THEOREM ProxyRequestTypeCorrect == Spec => []TypeOK
<1>1. Inv => TypeOK
  <2> SUFFICES ASSUME Inv PROVE TypeOK
    OBVIOUS
  <2>1. \A q \in {authBuf, reply, tx, got} : \A i \in DOMAIN q : q[i] \in Cells
    <3>1. \A s \in Seq(Cells) : \A i \in DOMAIN s : s[i] \in Cells
      OBVIOUS
    <3> QED
      BY <3>1 DEF Inv, Objects
  <2>2. \A q \in {buf, rx, sent} : \A i \in DOMAIN q : q[i] \in 0..MaxPayload
    <3>1. \A s \in Seq(Byte) : \A i \in DOMAIN s : s[i] \in Byte
      OBVIOUS
    <3> QED
      BY <3>1 DEF Inv, Data, Byte
  <2>3. \A i \in 1..4 : addr[i] \in 0..255
    BY DEF Inv, Data
  <2> QED
    BY <2>1, <2>2, <2>3 DEF TypeOK, Inv, Objects, Data
<1> QED
  BY <1>1, ProxyRequestInvariant, PTL

\* Only payload that the client has promised to be idempotent is in the SYN.
THEOREM ProxyRequestOnlyPromised == Spec => []OnlyPromised
<1>1. Inv => OnlyPromised
  <2> SUFFICES ASSUME Inv PROVE Len(sent) <= req.tfo
    BY DEF OnlyPromised
  <2>1. /\ Len(sent) \in Nat /\ Len(sent) <= tfoPayload /\ tfoPayload \in 0..MSS
        /\ tfoPayload <= req.tfo /\ req.tfo \in Nat /\ MSS \in Nat
    <3>1. req \in Requests
      BY DEF Inv, Objects
    <3>2. /\ sent \in Seq(Byte) /\ Len(sent) <= tfoPayload /\ tfoPayload \in 0..MSS
          /\ tfoPayload <= req.tfo
      BY DEF Inv, Data
    <3>3. Len(sent) \in Nat
      BY <3>2, LenProperties
    <3> QED
      BY <3>1, <3>2, <3>3, ProxyRequestAssumption
  <2> QED
    BY <2>1
<1> QED
  BY <1>1, ProxyRequestInvariant, PTL

-----------------------------------------------------------------------------
(* Answers *)

\* A sequence is a start of whatever follows from it.
LEMMA Starts ==
    ASSUME NEW s \in Seq(Cells), NEW t \in Seq(Cells)
    PROVE  StartOf(s, s \o t)
<1>1. Len(s) \in Nat /\ Len(t) \in Nat
  BY LenProperties
<1>2. /\ s \o t \in Seq(Cells) /\ Len(s \o t) = Len(s) + Len(t)
      /\ \A i \in 1..(Len(s) + Len(t)) :
            (s \o t)[i] = IF i <= Len(s) THEN s[i] ELSE t[i - Len(s)]
  BY ConcatProperties
<1> DEFINE u == s \o t
<1> HIDE DEF u
<1>3. /\ u \in Seq(Cells) /\ Len(u) = Len(s) + Len(t)
      /\ \A i \in 1..(Len(s) + Len(t)) : u[i] = IF i <= Len(s) THEN s[i] ELSE t[i - Len(s)]
  BY <1>2 DEF u
<1>4. Len(s) <= Len(u) /\ Len(s) \in 0..Len(u) /\ \A i \in 1..Len(s) : u[i] = s[i]
  BY <1>1, <1>3
<1> DEFINE v == SubSeq(u, 1, Len(s))
<1>5. v \in Seq(Cells) /\ Len(v) = Len(s)
  BY <1>3, <1>4, Cut
<1>6. \A i \in 1..Len(s) : v[i] = u[i]
  BY <1>1, <1>3, <1>4, SubSeqProperties
<1> HIDE DEF v
<1>7. s = v
  <2>1. \A i \in 1..Len(s) : s[i] = v[i]
    BY <1>4, <1>6
  <2> QED
    BY <1>5, <2>1, SeqEqual, Zenon
<1> QED
  BY <1>4, <1>7 DEF StartOf, v, u

\* Of two starts of the same sequence the shorter is a start of the longer.
LEMMA ShorterStart ==
    ASSUME NEW p \in Seq(Cells), NEW r \in Seq(Cells), NEW a \in Seq(Cells), NEW o \in Seq(Cells),
           p \o r = a \o o, Len(a) <= Len(p)
    PROVE  StartOf(a, p)
<1>1. /\ Len(p) \in Nat /\ Len(r) \in Nat /\ Len(a) \in Nat /\ Len(o) \in Nat
  BY LenProperties
<1>2. \A i \in 1..(Len(p) + Len(r)) :
         (p \o r)[i] = IF i <= Len(p) THEN p[i] ELSE r[i - Len(p)]
  BY ConcatProperties
<1>3. \A i \in 1..(Len(a) + Len(o)) :
         (a \o o)[i] = IF i <= Len(a) THEN a[i] ELSE o[i - Len(a)]
  BY ConcatProperties
<1>4. ASSUME NEW i \in 1..Len(a) PROVE p[i] = a[i]
  <2>1. /\ i \in 1..(Len(p) + Len(r)) /\ i <= Len(p)
        /\ i \in 1..(Len(a) + Len(o)) /\ i <= Len(a)
    BY <1>1
  <2>2. (p \o r)[i] = p[i]
    BY <1>2, <2>1
  <2>3. (a \o o)[i] = a[i]
    BY <1>3, <2>1
  <2> QED
    BY <2>2, <2>3
<1> DEFINE v == SubSeq(p, 1, Len(a))
<1>5. Len(a) \in 0..Len(p)
  BY <1>1
<1>6. v \in Seq(Cells) /\ Len(v) = Len(a)
  BY <1>5, Cut
<1>7. \A i \in 1..Len(a) : v[i] = p[i]
  BY <1>1, <1>5, SubSeqProperties
<1> HIDE DEF v
<1>8. a = v
  <2>1. \A i \in 1..Len(a) : a[i] = v[i]
    BY <1>4, <1>7
  <2> QED
    BY <1>6, <2>1, SeqEqual, Zenon
<1> QED
  BY <1>8 DEF StartOf, v

\* The replies as members of Seq(Cells).
LEMMA Replies ==
    /\ AuthReply(TRUE) \in Seq(Cells) /\ AuthReply(FALSE) \in Seq(Cells)
    /\ Len(AuthReply(TRUE)) = 2
    /\ VersionReply \in Seq(Cells) /\ <<>> \in Seq(Cells)
    /\ \A c \in OpCodes : OpReply(c) \in Seq(Cells) /\ Len(OpReply(c)) = 2
<1> DEFINE yes == TRUE
           no == FALSE
<1>1. yes \in BOOLEAN /\ no \in BOOLEAN
  OBVIOUS
<1> HIDE DEF yes, no
<1>2. /\ AuthReply(yes) \in Seq(AuthCells) /\ AuthReply(no) \in Seq(AuthCells)
      /\ Len(AuthReply(yes)) = 2
  BY <1>1, AuthReplies
<1>3. AuthReply(yes) \in Seq(Cells) /\ AuthReply(no) \in Seq(Cells)
  BY <1>2, AuthAreCells
<1>4. <<>> \in Seq(Cells)
  OBVIOUS
<1> QED
  BY <1>2, <1>3, <1>4, OtherReplies DEF yes, no

\* What has been said, and is about to be, can be continued to one legal answer.
LEMMA LegalDialogue ==
    ASSUME Inv, Listening
    PROVE  \E a \in Answers : \E z \in Seq(Cells) :
              Dialogue \in Seq(Cells) /\ Dialogue \o z = a
<1>1. /\ got \in Seq(Cells) /\ tx \in Seq(Cells) /\ authBuf \in Seq(Cells) /\ reply \in Seq(Cells)
      /\ up \in {"reading", "auth", "payload", "connecting", "stream", "gone"}
  BY DEF Inv, Objects
<1> DEFINE g == got \o tx
           d == g \o authBuf
           e == g \o reply
<1>2. g \in Seq(Cells)
  BY <1>1, Conc
<1>3. Dialogue = d \o reply
  BY DEF Dialogue
<1>4. d \in Seq(Cells) /\ e \in Seq(Cells)
  <2> HIDE DEF g
  <2> QED
    BY <1>1, <1>2, Conc
<1>5. authBuf = <<>> => Dialogue = e
  <2>1. authBuf = <<>> => d = g
    <3> HIDE DEF g
    <3> QED
      BY <1>2, ConcatEmptySeq
  <2> QED
    BY <1>3, <2>1
<1>6. reply = <<>> => Dialogue = d
  <2> HIDE DEF d
  <2> QED
    BY <1>3, <1>4, ConcatEmptySeq
<1>7. Dialogue \in Seq(Cells)
  <2> HIDE DEF d
  <2> QED
    BY <1>1, <1>3, <1>4, Conc
<1>8. e \in Seq(Cells) /\ (reply = <<>> => e = g)
  <2> HIDE DEF g
  <2> QED
    BY <1>1, <1>2, Conc, ConcatEmptySeq
<1> HIDE DEF g, d, e
<1>9. \A s \in Seq(Cells) : <<>> \o s = s /\ s \o <<>> = s
  BY ConcatEmptySeq
<1>10. /\ VersionReply \in Answers /\ AuthReply(FALSE) \in Answers
       /\ \A c \in OpCodes : AuthReply(TRUE) \o OpReply(c) \in Answers
  BY DEF Answers
<1>11. CASE up = "reading"
  <2>1. authBuf = <<>> /\ reply = <<>> /\ g = <<>>
    BY <1>11 DEF Inv, Phases, Spoken, g
  <2>2. Dialogue \o VersionReply = VersionReply
    BY <1>5, <1>8, <1>9, <2>1, Replies
  <2> QED
    BY <1>7, <1>10, <2>2, Replies
<1>12. "success" \in OpCodes
  BY DEF OpCodes
<1>13. CASE up = "auth" /\ at # "honor"
  <2>1. reply = <<>> /\ d = AuthReply(req.ok)
    BY <1>13 DEF Inv, Phases, Spoken, d, g
  <2>2. req.ok \in BOOLEAN
    BY ProxyRequestAssumption DEF Inv, Objects
  <2>3. CASE req.ok = TRUE
    <3>1. Dialogue \o OpReply("success") = AuthReply(TRUE) \o OpReply("success")
      BY <1>6, <2>1, <2>3
    <3> QED
      BY <1>7, <1>10, <1>12, <3>1, Replies
  <2>4. CASE req.ok = FALSE
    <3>1. Dialogue \o <<>> = AuthReply(FALSE)
      BY <1>6, <1>9, <2>1, <2>4, Replies
    <3> QED
      BY <1>7, <1>10, <3>1, Replies
  <2> QED
    BY <2>2, <2>3, <2>4
<1>14. CASE /\ at = "honor" \/ up \in {"payload", "connecting", "stream"}
            /\ down # "connect"
  <2>1. authBuf = <<>> /\ reply = <<>> /\ g = AuthReply(TRUE)
    BY <1>14 DEF Inv, Objects, Phases, Spoken, g
  <2>2. Dialogue \o OpReply("success") = AuthReply(TRUE) \o OpReply("success")
    BY <1>5, <1>8, <2>1
  <2> QED
    BY <1>7, <1>10, <1>12, <2>2, Replies
<1>15. CASE down = "connect"
  <2>1. up = "stream" /\ reply = OpReply("success")
    BY <1>15 DEF Inv, Phases
  <2>2. authBuf = <<>> /\ g = AuthReply(TRUE)
    BY <2>1 DEF Inv, Phases, Spoken, g
  <2>3. e = AuthReply(TRUE) \o OpReply("success")
    BY <2>1, <2>2 DEF e
  <2>4. Dialogue \o <<>> = AuthReply(TRUE) \o OpReply("success")
    BY <1>5, <1>7, <1>9, <2>2, <2>3
  <2> QED
    BY <1>7, <1>10, <1>12, <2>4, Replies
<1>16. CASE up = "gone" /\ down = "none"
  <2>1. /\ authBuf = <<>> /\ reply = <<>>
        /\ g = <<>> \/ g = AuthReply(FALSE) \/ g = AuthReply(TRUE)
    BY <1>16 DEF Inv, Phases, Spoken, g
  <2>2. Dialogue = g
    BY <1>5, <1>8, <2>1
  <2>3. CASE g = <<>>
    <3>1. Dialogue \o VersionReply = VersionReply
      BY <1>9, <2>2, <2>3, Replies
    <3> QED
      BY <1>7, <1>10, <3>1, Replies
  <2>4. CASE g = AuthReply(FALSE)
    <3>1. Dialogue \o <<>> = AuthReply(FALSE)
      BY <1>7, <1>9, <2>2, <2>4
    <3> QED
      BY <1>7, <1>10, <3>1, Replies
  <2>5. CASE g = AuthReply(TRUE)
    <3>1. Dialogue \o OpReply("success") = AuthReply(TRUE) \o OpReply("success")
      BY <2>2, <2>5
    <3> QED
      BY <1>7, <1>10, <1>12, <3>1, Replies
  <2> QED
    BY <2>1, <2>3, <2>4, <2>5
<1>17. CASE up = "gone" /\ down # "none"
  <2>1. authBuf = <<>>
    BY <1>17 DEF Inv, Phases
  <2>2. e = VersionReply \/ \E c \in OpCodes : e = AuthReply(TRUE) \o OpReply(c)
    BY <1>17 DEF Inv, Spoken, e, g
  <2>3. e \in Answers
    BY <1>10, <2>2
  <2>4. Dialogue \o <<>> = e
    BY <1>5, <1>7, <1>9, <2>1
  <2> QED
    BY <1>7, <2>3, <2>4, Replies
<1> QED
  BY <1>1, <1>11, <1>13, <1>14, <1>15, <1>16, <1>17

(***************************************************************************)
(* authserver.cc:22-44, proxyupstreamer.cc:12-57: of the three reactors    *)
(* that write to a client none writes out of turn.  What the client has    *)
(* got is the start of one legal answer.                                   *)
(***************************************************************************)
THEOREM ProxyRequestOneAnswer == Spec => []OneAnswer
<1>1. Inv => OneAnswer
  <2> SUFFICES ASSUME Inv, Listening PROVE \E a \in Answers : StartOf(Dialogue, a)
    BY DEF OneAnswer, Listening
  <2>1. PICK a \in Answers, z \in Seq(Cells) : Dialogue \in Seq(Cells) /\ Dialogue \o z = a
    BY LegalDialogue
  <2> DEFINE s == Dialogue
  <2>2. s \in Seq(Cells) /\ s \o z = a
    BY <2>1
  <2> HIDE DEF s
  <2>3. StartOf(s, s \o z)
    BY <2>2, Starts
  <2> QED
    BY <2>2, <2>3 DEF s
<1> QED
  BY <1>1, ProxyRequestInvariant, PTL

(***************************************************************************)
(* authserver.cc:32-43, proxyupstreamer.cc:59-71: nothing goes to a server *)
(* before the client has been authenticated and told so.                   *)
(***************************************************************************)
THEOREM ProxyRequestNothingUnauthenticated == Spec => []NothingUnauthenticated
<1>1. Inv => NothingUnauthenticated
  <2> SUFFICES ASSUME Inv, server # "none"
               PROVE  /\ req.ok /\ req.kind = "connect" /\ authBuf = <<>>
                      /\ Listening => StartOf(AuthReply(TRUE), got \o tx)
    BY DEF NothingUnauthenticated, Listening
  <2>1. req.ok /\ req.kind = "connect" /\ authBuf = <<>> /\ up \in {"connecting", "stream", "gone"}
    BY DEF Inv, Objects, Phases
  <2>2. ASSUME Listening PROVE StartOf(AuthReply(TRUE), got \o tx)
    <3> DEFINE a == AuthReply(TRUE)
               g == got \o tx
    <3>1. a \in Seq(Cells) /\ Len(a) = 2
      BY Replies
    <3>2. g \in Seq(Cells) /\ reply \in Seq(Cells)
      BY Conc DEF Inv, Objects
    <3>3. \/ g = a
          \/ Len(reply) <= 2 /\ \E c \in OpCodes : g \o reply = a \o OpReply(c)
      BY <2>1, <2>2 DEF Inv, Objects, Spoken
    <3> HIDE DEF a, g
    <3>4. CASE g = a
      <4>1. a \o <<>> = a /\ <<>> \in Seq(Cells)
        BY <3>1, ConcatEmptySeq
      <4>2. StartOf(a, a \o <<>>)
        BY <3>1, <4>1, Starts
      <4> QED
        BY <3>4, <4>1, <4>2 DEF a, g
    <3>5. CASE Len(reply) <= 2 /\ \E c \in OpCodes : g \o reply = a \o OpReply(c)
      <4>1. PICK c \in OpCodes : g \o reply = a \o OpReply(c)
        BY <3>5
      <4> DEFINE o == OpReply(c)
      <4>2. o \in Seq(Cells) /\ Len(o) = 2
        BY Replies
      <4>3. g \o reply = a \o o
        BY <4>1
      <4> HIDE DEF o
      <4>4. Len(g \o reply) = Len(g) + Len(reply) /\ Len(a \o o) = Len(a) + Len(o)
        BY <3>1, <3>2, <4>2, Conc
      <4>5. Len(g) \in Nat /\ Len(reply) \in Nat /\ Len(g) + Len(reply) = 4
        BY <3>1, <3>2, <4>2, <4>3, <4>4, LenProperties
      <4>6. Len(a) <= Len(g)
        BY <3>1, <3>5, <4>5
      <4>7. StartOf(a, g)
        BY <3>1, <3>2, <4>2, <4>3, <4>6, ShorterStart
      <4> QED
        BY <4>7 DEF a, g
    <3> QED
      BY <3>3, <3>4, <3>5
  <2> QED
    BY <2>1, <2>2
<1> QED
  BY <1>1, ProxyRequestInvariant, PTL

(***************************************************************************)
(* proxyupstreamer.cc:107-131: unless something fails, an end of the       *)
(* stream comes behind a whole answer.                                     *)
(***************************************************************************)
THEOREM ProxyRequestEndMeansAnswered == Spec => []EndMeansAnswered
<1>1. Inv => EndMeansAnswered
  <2> SUFFICES ASSUME Inv, told = "fin", Undisturbed PROVE got \in Answers
    BY DEF EndMeansAnswered, Undisturbed
  <2>1. tx = <<>> /\ (down = "gone" \/ (up = "gone" /\ down = "none")) /\ got \in Seq(Cells)
    BY DEF Inv, Endings, Objects
  <2>2. got \o tx = got /\ Listening
    BY <2>1, ConcatEmptySeq DEF Undisturbed, Listening
  <2>3. CASE up = "gone" /\ down = "none"
    BY <2>2, <2>3 DEF Inv, Endings, Answers
  <2>4. CASE down = "gone"
    <3>1. up = "gone" /\ reply = <<>>
      BY <2>4 DEF Inv, Endings
    <3>2. got \o tx \o reply = got
      BY <2>1, <2>2, <3>1, ConcatEmptySeq
    <3>3. got = VersionReply \/ \E c \in OpCodes : got = AuthReply(TRUE) \o OpReply(c)
      BY <2>2, <2>4, <3>1, <3>2 DEF Inv, Spoken
    <3> QED
      BY <3>3 DEF Answers
  <2> QED
    BY <2>1, <2>3, <2>4
<1> QED
  BY <1>1, ProxyRequestInvariant, PTL

-----------------------------------------------------------------------------
(* The hand-over to streaming *)

\* l bytes behind the first k.
Run(k, l) == [i \in 1..l |-> k + i]

\* The bytes 1, 2, ..., n are in s, b and r together, ...
Together(s, b, r, n) == (s \o b) \o r = Padded(0, n)

\* ... and s, b and r are runs of them.
InRuns(s, b, r, n) == /\ Len(s) + Len(b) + Len(r) = n
                      /\ s = Run(0, Len(s)) /\ b = Run(Len(s), Len(b))
                      /\ r = Run(n - Len(r), Len(r))

\* The bytes 1, 2, ..., n in three places are three runs of them.
LEMMA Runs ==
    ASSUME NEW s \in Seq(Byte), NEW b \in Seq(Byte), NEW r \in Seq(Byte), NEW n \in 0..MaxPayload,
           Together(s, b, r, n)
    PROVE  InRuns(s, b, r, n)
<1> DEFINE p == s \o b
           w == Padded(0, n)
<1>1. Len(s) \in Nat /\ Len(b) \in Nat /\ Len(r) \in Nat
  BY LenProperties
<1>2. /\ p \in Seq(Byte) /\ Len(p) = Len(s) + Len(b)
      /\ \A i \in 1..(Len(s) + Len(b)) : p[i] = IF i <= Len(s) THEN s[i] ELSE b[i - Len(s)]
  BY ConcatProperties
<1> HIDE DEF p
<1>3. /\ Len(p \o r) = Len(p) + Len(r)
      /\ \A i \in 1..(Len(p) + Len(r)) : (p \o r)[i] = IF i <= Len(p) THEN p[i] ELSE r[i - Len(p)]
  <2>1. p \in Seq(Byte)
    BY <1>2
  <2> QED
    BY <2>1, ConcatProperties
<1>4. Len(w) = n /\ \A i \in 1..n : w[i] = i
  <2> DEFINE z == 0
  <2>1. z \in Nat /\ n \in 0..(z + MaxPayload)
    BY ProxyRequestAssumption
  <2> HIDE DEF z
  <2>2. /\ Len(Padded(z, n)) = n
        /\ \A i \in 1..n : Padded(z, n)[i] = IF i <= z THEN 0 ELSE i - z
    BY <2>1, PaddedSeq
  <2>3. \A i \in 1..n : ~(i <= z) /\ i - z = i
    BY DEF z
  <2> QED
    BY <2>2, <2>3 DEF z
<1>5. p \o r = w
  BY DEF p, Together
<1> HIDE DEF w
<1>6. Len(s) + Len(b) + Len(r) = n
  BY <1>1, <1>2, <1>3, <1>4, <1>5
<1>7. \A i \in 1..Len(s) : s[i] = i
  <2> SUFFICES ASSUME NEW i \in 1..Len(s) PROVE s[i] = i
    OBVIOUS
  <2>1. /\ i \in 1..(Len(s) + Len(b)) /\ i <= Len(s) /\ i <= Len(p)
        /\ i \in 1..(Len(p) + Len(r)) /\ i \in 1..n
    BY <1>1, <1>2, <1>6
  <2> QED
    BY <1>2, <1>3, <1>4, <1>5, <2>1
<1>8. \A i \in 1..Len(b) : b[i] = Len(s) + i
  <2> SUFFICES ASSUME NEW i \in 1..Len(b) PROVE b[i] = Len(s) + i
    OBVIOUS
  <2> DEFINE j == Len(s) + i
  <2>1. /\ j \in 1..(Len(s) + Len(b)) /\ ~(j <= Len(s)) /\ j - Len(s) = i /\ j <= Len(p)
        /\ j \in 1..(Len(p) + Len(r)) /\ j \in 1..n
    BY <1>1, <1>2, <1>6
  <2> HIDE DEF j
  <2>2. p[j] = b[i]
    BY <1>2, <2>1
  <2>3. p[j] = j
    BY <1>3, <1>4, <1>5, <2>1
  <2> QED
    BY <2>2, <2>3 DEF j
<1>9. \A i \in 1..Len(r) : r[i] = n - Len(r) + i
  <2> SUFFICES ASSUME NEW i \in 1..Len(r) PROVE r[i] = n - Len(r) + i
    OBVIOUS
  <2> DEFINE j == Len(p) + i
  <2>1. /\ j \in 1..(Len(p) + Len(r)) /\ ~(j <= Len(p)) /\ j - Len(p) = i /\ j \in 1..n
        /\ j = n - Len(r) + i
    <3>1. Len(p) = Len(s) + Len(b) /\ Len(p) + Len(r) = n
      BY <1>1, <1>2, <1>6
    <3>2. \A l, x \in Nat : \A y \in 1..x :
             /\ l + y \in 1..(l + x) /\ ~(l + y <= l) /\ (l + y) - l = y
             /\ l + y = (l + x) - x + y
      OBVIOUS
    <3>3. Len(p) \in Nat
      BY <1>1, <3>1
    <3> QED
      BY <1>1, <3>1, <3>2, <3>3
  <2> HIDE DEF j
  <2>2. r[i] = j
    BY <1>3, <1>4, <1>5, <2>1
  <2> QED
    BY <2>1, <2>2
<1>10. s = [i \in 1..Len(s) |-> s[i]] /\ b = [i \in 1..Len(b) |-> b[i]] /\ r = [i \in 1..Len(r) |-> r[i]]
  OBVIOUS
<1>11. \A i \in 1..Len(s) : s[i] = 0 + i
  BY <1>1, <1>7
<1> QED
  BY <1>6, <1>8, <1>9, <1>10, <1>11 DEF Run, InRuns

\* Nothing of an authentication reply is seen as an operation reply.
LEMMA NoGreeting ==
    ASSUME NEW q \in Seq(AuthCells)
    PROVE  Greeted(q) = <<>>
<1>1. \A c \in AuthCells : c.msg = "auth"
  BY DEF AuthCells
<1>2. \A i \in DOMAIN q : q[i] \in AuthCells
  OBVIOUS
<1> QED
  BY <1>1, <1>2 DEF Greeted

(***************************************************************************)
(* proxyupstreamer.cc:193-211: when both reactors stream the state is an   *)
(* initial state of module Tunnel, whose theorems hold from there on: each *)
(* byte that the client has written is in the SYN, in the buffer or still  *)
(* to be received, in order.                                               *)
(***************************************************************************)
THEOREM ProxyRequestHandsOver == Spec => []HandsOver
<1>1. Inv => HandsOver
  <2> SUFFICES ASSUME Inv, up = "stream", down = "connect" PROVE T!Init
    BY DEF HandsOver
  <2> DEFINE n == wrote - req.len
             k == Len(sent)
             m == Len(rx)
  <2>1. /\ sent \in Seq(Byte) /\ buf \in Seq(Byte) /\ rx \in Seq(Byte)
        /\ (sent \o buf) \o rx = Padded(0, n) /\ wrote >= req.len
        /\ reply = OpReply("success")
        /\ streamState = IF buf = <<>> THEN "receiving" ELSE "sending"
        /\ told # "reset" /\ told \in {"no", "fin", "reset"}
        /\ peer \in {"open", "fin", "aborted"}
    BY DEF Inv, Objects, Data, Phases, Accounts
  <2>2. told = "no"
    BY <2>1 DEF Inv, Endings
  <2>3. Greeted(tx) = <<>> /\ Greeted(got) = <<>>
    BY NoGreeting DEF Inv, Phases
  <2>4. /\ Len(sent) \in Nat /\ Len(rx) \in Nat /\ Len(buf) \in Nat
        /\ Len(sent) <= tfoPayload /\ tfoPayload \in 0..MSS /\ MSS \in Nat
        /\ Len(rx) <= RxSize /\ RxSize \in Nat
        /\ head \in Nat /\ head + Len(buf) <= BufSize /\ BufSize \in Nat
        /\ wrote \in 0..(req.len + MaxPayload)
    BY <2>1, LenProperties, ProxyRequestAssumption DEF Inv, Data
  <2>5. req.len \in Nat /\ MaxPayload \in Nat
    BY ProxyRequestAssumption DEF Inv, Objects
  <2>6. n \in 0..MaxPayload /\ k \in 0..MSS /\ m \in 0..RxSize /\ ~(wrote < req.len)
    BY <2>1, <2>4, <2>5, SMTT(60)
  <2>7. /\ Len(sent) + Len(buf) + Len(rx) = n
        /\ sent = Run(0, Len(sent)) /\ buf = Run(Len(sent), Len(buf))
        /\ rx = Run(n - Len(rx), Len(rx))
    <3> HIDE DEF n, k, m
    <3>1. sent \in Seq(Byte) /\ buf \in Seq(Byte) /\ rx \in Seq(Byte) /\ n \in 0..MaxPayload
      BY <2>1, <2>6
    <3>2. Together(sent, buf, rx, n)
      BY <2>1 DEF Together
    <3>3. InRuns(sent, buf, rx, n)
      BY <3>1, <3>2, Runs
    <3> QED
      BY <3>3 DEF InRuns
  <2>8. k + m <= n /\ n - k - m <= BufSize /\ Len(buf) = n - k - m
    <3> DEFINE y == Len(buf)
    <3>1. /\ k \in Nat /\ y \in Nat /\ m \in Nat /\ k + y + m = n
          /\ head \in Nat /\ BufSize \in Nat /\ head + y <= BufSize
      BY <2>4, <2>7
    <3>2. n \in Nat
      BY <2>6
    <3> HIDE DEF k, y, m, n
    <3>3. k + m <= n /\ n - k - m <= BufSize /\ y = n - k - m
      BY <3>1, <3>2
    <3> QED
      BY <3>3 DEF y
  <2>9. /\ sent = [i \in 1..k |-> i] /\ buf = [i \in 1..(n - k - m) |-> k + i]
        /\ rx = [i \in 1..m |-> n - m + i]
    <3>1. sent = [i \in 1..k |-> i]
      <4>1. sent = [i \in 1..k |-> 0 + i]
        BY <2>7 DEF Run
      <4> QED
        BY <2>4, <4>1
    <3> QED
      BY <2>7, <2>8, <3>1 DEF Run
  <2>10. /\ T!Dir = {"up", "down"} /\ T!Sock = {"client", "server"} /\ T!HoldsPeer
         /\ T!Greeting("down") = <<0>>
    BY DEF T!Dir, T!Sock, T!HoldsPeer, T!Greeting
  <2> DEFINE w == BySock(IF wrote < req.len THEN 0 ELSE wrote - req.len, 0)
             t == BySock(Greeted(tx), sent)
             b == ByDir(buf, IF reply = OpReply("success") THEN <<0>> ELSE <<>>)
             r == BySock(rx, <<>>)
  <2>11. w = [s \in {"client", "server"} |-> IF s = "client" THEN n ELSE 0]
    BY <2>6 DEF BySock
  <2>12. t = [s \in {"client", "server"} |-> IF s = "server" THEN [i \in 1..k |-> i] ELSE <<>>]
    <3>1. t = [s \in {"client", "server"} |-> IF s = "server" THEN sent ELSE <<>>]
      BY <2>3 DEF BySock
    <3> HIDE DEF k, t
    <3> QED
      BY <2>9, <3>1
  <2>13. b = [d \in {"up", "down"} |-> IF d = "up" THEN buf ELSE <<0>>]
    BY <2>1 DEF ByDir
  <2>14. r = [s \in {"client", "server"} |-> IF s = "client" THEN rx ELSE <<>>]
    BY DEF BySock
  <2>15. /\ b = [d \in T!Dir |-> IF d = "up" THEN [i \in 1..(n - k - m) |-> k + i]
                                              ELSE T!Greeting(d)]
         /\ r = [s \in T!Sock |-> IF s = "client" THEN [i \in 1..m |-> n - m + i] ELSE <<>>]
    <3>1. r = [s \in T!Sock |-> IF s = "client" THEN [i \in 1..m |-> n - m + i] ELSE <<>>]
      <4> HIDE DEF r, n, m
      <4> QED
        BY <2>9, <2>10, <2>14
    <3>2. b = [d \in T!Dir |-> IF d = "up" THEN [i \in 1..(n - k - m) |-> k + i]
                                            ELSE T!Greeting(d)]
      <4> DEFINE u == [i \in 1..(n - k - m) |-> k + i]
      <4>1. buf = u
        BY <2>9
      <4> HIDE DEF b, u
      <4>2. \A d \in {"up", "down"} : (IF d = "up" THEN buf ELSE <<0>>)
                                        = IF d = "up" THEN u ELSE T!Greeting(d)
        BY <2>10, <4>1
      <4>3. b = [d \in T!Dir |-> IF d = "up" THEN u ELSE T!Greeting(d)]
        BY <2>10, <2>13, <4>2
      <4> QED
        BY <4>3 DEF u
    <3> QED
      BY <3>1, <3>2
  <2>16. \E i \in 0..MaxPayload, j \in 0..MSS, l \in 0..RxSize :
            /\ j + l <= i /\ i - j - l <= BufSize
            /\ w = [s \in T!Sock |-> IF s = "client" THEN i ELSE 0]
            /\ t = [s \in T!Sock |-> IF s = "server" THEN [x \in 1..j |-> x] ELSE <<>>]
            /\ b = [d \in T!Dir |-> IF d = "up" THEN [x \in 1..(i - j - l) |-> j + x]
                                                ELSE T!Greeting(d)]
            /\ r = [s \in T!Sock |-> IF s = "client" THEN [x \in 1..l |-> i - l + x] ELSE <<>>]
    <3> HIDE DEF n, k, m, w, t, b, r
    <3>1. /\ w = [s \in T!Sock |-> IF s = "client" THEN n ELSE 0]
          /\ t = [s \in T!Sock |-> IF s = "server" THEN [x \in 1..k |-> x] ELSE <<>>]
      BY <2>10, <2>11, <2>12
    <3> USE <2>6
    <3> WITNESS n \in 0..MaxPayload, k \in 0..MSS, m \in 0..RxSize
    <3> QED
      BY <2>8, <2>15, <3>1
  <2>17. ByDir(streamState, "sending")
           = [d \in T!Dir |-> IF b[d] = <<>> THEN "receiving" ELSE "sending"]
    <3>1. /\ b["up"] = buf /\ b["down"] = <<0>> /\ <<0>> # <<>>
      <4>1. b["up"] = buf
        BY <2>13
      <4>2. b["down"] = <<0>>
        BY <2>13
      <4> QED
        BY <4>1, <4>2
    <3> HIDE DEF b
    <3> QED
      BY <2>1, <2>10, <3>1 DEF ByDir
  <2>18. /\ ByDir("running", IF down = "connect" THEN "running" ELSE "gone")
              = [d \in T!Dir |-> "running"]
         /\ BySock(up # "gone", down = "connect") = [s \in T!Sock |-> TRUE]
         /\ BySock(down = "connect", up # "gone") = [s \in T!Sock |-> TRUE]
         /\ BySock(Greeted(got), <<>>) = [s \in T!Sock |-> <<>>]
         /\ BySock(told, "no") = [s \in T!Sock |-> "no"]
    BY <2>2, <2>3, <2>10 DEF ByDir, BySock
  <2>19. BySock(peer, "open") \in {[s \in T!Sock |-> IF s = "client" THEN p ELSE "open"] :
                                      p \in {"open", "fin", "aborted"}}
    BY <2>1, <2>10 DEF BySock
  <2> QED
    BY <2>16, <2>17, <2>18, <2>19 DEF T!Init
<1> QED
  BY <1>1, ProxyRequestInvariant, PTL

-----------------------------------------------------------------------------
(* Answers have a cause *)

\* The cells of a sequence.
Words(q) == {q[i] : i \in DOMAIN q}

Op(code) == [msg |-> "op", code |-> code]

\* The cells of a concatenation are those of its parts.
LEMMA WordsOf ==
    ASSUME NEW s \in Seq(Cells), NEW t \in Seq(Cells)
    PROVE  Words(s \o t) = Words(s) \cup Words(t)
<1>1. /\ Len(s) \in Nat /\ Len(t) \in Nat /\ DOMAIN s = 1..Len(s) /\ DOMAIN t = 1..Len(t)
  BY LenProperties
<1> DEFINE u == s \o t
<1>2. /\ u \in Seq(Cells) /\ Len(u) = Len(s) + Len(t)
      /\ \A i \in 1..(Len(s) + Len(t)) : u[i] = IF i <= Len(s) THEN s[i] ELSE t[i - Len(s)]
  BY ConcatProperties
<1>3. DOMAIN u = 1..(Len(s) + Len(t))
  BY <1>2, LenProperties
<1> HIDE DEF u
<1>4. ASSUME NEW i \in DOMAIN u PROVE u[i] \in Words(s) \cup Words(t)
  <2>1. CASE i <= Len(s)
    <3>1. i \in DOMAIN s /\ u[i] = s[i]
      BY <1>1, <1>2, <1>3, <2>1
    <3> QED
      BY <3>1 DEF Words
  <2>2. CASE ~(i <= Len(s))
    <3>1. i - Len(s) \in DOMAIN t /\ u[i] = t[i - Len(s)]
      BY <1>1, <1>2, <1>3, <2>2
    <3> QED
      BY <3>1 DEF Words
  <2> QED
    BY <2>1, <2>2
<1>5. ASSUME NEW i \in DOMAIN s PROVE s[i] \in Words(u)
  <2>1. i \in DOMAIN u /\ u[i] = s[i]
    BY <1>1, <1>2, <1>3
  <2> QED
    BY <2>1 DEF Words
<1>6. ASSUME NEW i \in DOMAIN t PROVE t[i] \in Words(u)
  <2> DEFINE j == Len(s) + i
  <2>1. j \in DOMAIN u /\ ~(j <= Len(s)) /\ j - Len(s) = i
    BY <1>1, <1>3
  <2> HIDE DEF j
  <2>2. u[j] = t[i]
    BY <1>2, <1>3, <2>1
  <2> QED
    BY <2>1, <2>2 DEF Words
<1>7. Words(u) \subseteq Words(s) \cup Words(t)
  BY <1>4 DEF Words
<1>8. Words(s) \subseteq Words(u) /\ Words(t) \subseteq Words(u)
  BY <1>5, <1>6 DEF Words
<1> QED
  BY <1>7, <1>8 DEF u

\* The cells of four sequences in a row.
LEMMA WordsOfFour ==
    ASSUME NEW g \in Seq(Cells), NEW t \in Seq(Cells), NEW a \in Seq(Cells), NEW r \in Seq(Cells)
    PROVE  Words(((g \o t) \o a) \o r) = Words(g) \cup Words(t) \cup Words(a) \cup Words(r)
<1> DEFINE p == g \o t
           q == p \o a
<1>1. p \in Seq(Cells) /\ Words(p) = Words(g) \cup Words(t)
  BY Conc, WordsOf
<1> HIDE DEF p
<1>2. q \in Seq(Cells) /\ Words(q) = Words(p) \cup Words(a)
  BY <1>1, Conc, WordsOf
<1> HIDE DEF q
<1>3. Words(q \o r) = Words(q) \cup Words(r)
  BY <1>2, WordsOf
<1> QED
  BY <1>1, <1>2, <1>3 DEF p, q

\* What is said is said in one of the four places.
LEMMA SaidWhere ==
    ASSUME Objects, NEW code
    PROVE  Said(code) <=> Op(code) \in Words(got) \cup Words(tx) \cup Words(authBuf) \cup Words(reply)
<1> DEFINE g == got
           t == tx
           a == authBuf
           r == reply
<1>1. g \in Seq(Cells) /\ t \in Seq(Cells) /\ a \in Seq(Cells) /\ r \in Seq(Cells)
  BY DEF Objects
<1>2. Said(code) <=> Op(code) \in Words(((g \o t) \o a) \o r)
  BY DEF Said, Dialogue, Op, Words
<1> HIDE DEF g, t, a, r
<1>3. Words(((g \o t) \o a) \o r) = Words(g) \cup Words(t) \cup Words(a) \cup Words(r)
  BY <1>1, WordsOfFour
<1> QED
  BY <1>2, <1>3 DEF g, t, a, r

\* No operation reply is in an authentication reply, a version reply or in nothing.
LEMMA Silent ==
    /\ \A q \in Seq(AuthCells) : \A code : Op(code) \notin Words(q)
    /\ \A code : Op(code) \notin Words(VersionReply) /\ Op(code) \notin Words(<<>>)
<1>1. ASSUME NEW q \in Seq(AuthCells), NEW code PROVE Op(code) \notin Words(q)
  <2>1. \A i \in DOMAIN q : q[i] \in AuthCells
    OBVIOUS
  <2>2. Op(code) \notin AuthCells
    BY DEF Op, AuthCells
  <2> QED
    BY <2>1, <2>2 DEF Words
<1>2. ASSUME NEW code PROVE Op(code) \notin Words(VersionReply)
  <2> DEFINE d == [msg |-> "version", code |-> "mismatch"]
  <2>1. Op(code) # d
    BY DEF Op
  <2> HIDE DEF d
  <2>2. \A i \in DOMAIN <<d>> : <<d>>[i] = d
    OBVIOUS
  <2>3. Op(code) \notin Words(<<d>>)
    BY <2>1, <2>2 DEF Words
  <2> QED
    BY <2>3 DEF VersionReply, d
<1>3. \A code : Op(code) \notin Words(<<>>)
  BY DEF Words
<1> QED
  BY <1>1, <1>2, <1>3

\* An operation reply says one thing.
LEMMA SaysOne == \A c, code : Op(code) \in Words(OpReply(c)) => code = c
<1> SUFFICES ASSUME NEW c, NEW code, Op(code) \in Words(OpReply(c)) PROVE code = c
  OBVIOUS
<1>1. OpReply(c) = [i \in 1..2 |-> Op(c)]
  BY DEF OpReply, Op
<1>2. Op(code) = Op(c)
  <2> DEFINE d == Op(c)
             e == Op(code)
  <2>1. e \in Words([i \in 1..2 |-> d])
    BY <1>1
  <2> HIDE DEF d, e
  <2>2. e = d
    BY <2>1 DEF Words
  <2> QED
    BY <2>2 DEF d, e
<1>3. Op(code).code = code /\ Op(c).code = c
  BY DEF Op
<1> QED
  BY <1>2, <1>3

\* SUCCESS is true, ...
TrueSuccess == req.kind = "noop" \/ (req.kind = "connect" /\ server' = "up")

\* ... and so is FAILURE.
TrueFailure ==
    req.kind = "connect" =>
        \/ faults' > faults \/ server' = "refused"
        \/ wrote < req.len + Least(req.tfo, MSS)

\* The reply that is assigned, if any, says the truth.
Justified ==
    \/ reply' = <<>> \/ reply' = VersionReply
    \/ \E c \in OpCodes : /\ reply' = OpReply(c)
                          /\ c = "success" => TrueSuccess
                          /\ c = "failure" => TrueFailure

\* What a step says for the first time is true.
Truthful ==
    /\ ~Said("success") /\ Said("success")' => TrueSuccess
    /\ ~Said("failure") /\ Said("failure")' => TrueFailure

\* As long as only the authentication reply has been sent, all depends on the reply.
LEMMA FirstWords ==
    ASSUME Inv', got' \in Seq(AuthCells), tx' \in Seq(AuthCells), Justified
    PROVE  Truthful
<1>1. ASSUME NEW code, Said(code)' PROVE Op(code) \in Words(reply')
  <2> DEFINE g == got'
             t == tx'
             a == authBuf'
             r == reply'
  <2>1. g \in Seq(Cells) /\ t \in Seq(Cells) /\ a \in Seq(Cells) /\ r \in Seq(Cells)
    BY DEF Inv, Objects
  <2>2. g \in Seq(AuthCells) /\ t \in Seq(AuthCells) /\ a \in Seq(AuthCells)
    BY DEF Inv, Phases
  <2>3. Op(code) \in Words(((g \o t) \o a) \o r)
    BY <1>1 DEF Said, Dialogue, Op, Words
  <2> HIDE DEF g, t, a, r
  <2>4. Words(((g \o t) \o a) \o r) = Words(g) \cup Words(t) \cup Words(a) \cup Words(r)
    BY <2>1, WordsOfFour
  <2>5. Op(code) \in Words(r)
    BY <2>2, <2>3, <2>4, Silent
  <2> QED
    BY <2>5 DEF r
<1>2. CASE reply' = <<>> \/ reply' = VersionReply
  <2>1. ASSUME NEW code PROVE ~Said(code)'
    BY <1>1, <1>2, Silent
  <2> QED
    BY <2>1 DEF Truthful
<1>3. CASE \E c \in OpCodes : /\ reply' = OpReply(c)
                              /\ c = "success" => TrueSuccess
                              /\ c = "failure" => TrueFailure
  <2>1. PICK c \in OpCodes : /\ reply' = OpReply(c)
                             /\ c = "success" => TrueSuccess
                             /\ c = "failure" => TrueFailure
    BY <1>3
  <2>2. ASSUME NEW code, Said(code)' PROVE code = c
    BY <1>1, <2>1, <2>2, SaysOne
  <2> QED
    BY <2>1, <2>2 DEF Truthful
<1> QED
  BY <1>2, <1>3 DEF Justified

\* A step that moves cells says nothing new.
LEMMA OldWords ==
    ASSUME Inv, Inv', Words(got') \subseteq Words(got) \cup Words(tx) \cup Words(reply),
           Words(tx') \subseteq Words(got) \cup Words(tx) \cup Words(reply),
           Words(reply') \subseteq Words(got) \cup Words(tx) \cup Words(reply)
    PROVE  Truthful
<1>1. ASSUME NEW code, Said(code)' PROVE Said(code)
  <2> DEFINE g == got'
             t == tx'
             a == authBuf'
             r == reply'
  <2>1. g \in Seq(Cells) /\ t \in Seq(Cells) /\ a \in Seq(Cells) /\ r \in Seq(Cells)
    BY DEF Inv, Objects
  <2>2. a \in Seq(AuthCells)
    BY DEF Inv, Phases
  <2>3. Op(code) \in Words(((g \o t) \o a) \o r)
    BY <1>1 DEF Said, Dialogue, Op, Words
  <2>4. /\ Words(g) \subseteq Words(got) \cup Words(tx) \cup Words(reply)
        /\ Words(t) \subseteq Words(got) \cup Words(tx) \cup Words(reply)
        /\ Words(r) \subseteq Words(got) \cup Words(tx) \cup Words(reply)
    OBVIOUS
  <2> HIDE DEF g, t, a, r
  <2>5. Words(((g \o t) \o a) \o r) = Words(g) \cup Words(t) \cup Words(a) \cup Words(r)
    BY <2>1, WordsOfFour
  <2>6. Op(code) \in Words(got) \cup Words(tx) \cup Words(reply)
    BY <2>2, <2>3, <2>4, <2>5, Silent
  <2> QED
    BY <2>6, SaidWhere DEF Inv
<1> QED
  BY <1>1 DEF Truthful

\* What has been said before a downstreamer exists.
LEMMA BeforeReply ==
    ASSUME Inv, up \in {"reading", "auth", "payload", "connecting"}
    PROVE  /\ reply = <<>> /\ got \in Seq(AuthCells) /\ tx \in Seq(AuthCells)
           /\ authBuf \in Seq(AuthCells) /\ down = "none"
BY DEF Inv, Phases

\* A dropped upstreamer assigns no reply.
LEMMA DropSays ==
    ASSUME reply = <<>>, NEW r, NEW t \in Seq(AuthCells), Drop(r, t)
    PROVE  Justified /\ tx' \in Seq(AuthCells)
<1>1. reply' = <<>> /\ (tx' = t \/ tx' = <<>>)
  BY Closing DEF Drop
<1>2. <<>> \in Seq(AuthCells)
  OBVIOUS
<1> QED
  BY <1>1, <1>2 DEF Justified

\* An answer is as true as its code.
LEMMA AnswerSays ==
    ASSUME tx \in Seq(AuthCells), NEW c \in OpCodes, Answer(c),
           c = "success" => TrueSuccess, c = "failure" => TrueFailure
    PROVE  Justified /\ tx' \in Seq(AuthCells)
BY DEF Answer, AssignSimple, Justified

\* The exception of a failed call.
LEMMA ThrownSays ==
    ASSUME tx \in Seq(AuthCells), reply = <<>>, NEW h \in BOOLEAN, NEW r, Thrown(h, r), TrueFailure
    PROVE  Justified /\ tx' \in Seq(AuthCells)
<1>1. "failure" \in OpCodes /\ "failure" # "success"
  BY DEF OpCodes
<1>2. CASE h
  <2>1. Answer("failure")
    BY <1>2 DEF Thrown
  <2> QED
    BY <1>1, <2>1, AnswerSays
<1>3. CASE ~h
  <2>1. Drop(r, tx)
    BY <1>3 DEF Thrown
  <2> QED
    BY <2>1, DropSays
<1> QED
  BY <1>2, <1>3

\* A failed call is counted.
LEMMA FaultCounts == ASSUME Inv, Fault PROVE faults' > faults
<1>1. faults \in Nat
  BY ProxyRequestAssumption DEF Inv, Objects
<1> QED
  BY <1>1 DEF Fault

\* Starting the connection.
LEMMA ConnectSays ==
    ASSUME Inv, tx \in Seq(AuthCells), reply = <<>>,
           NEW used, NEW p, NEW h \in BOOLEAN, NEW r, Connect(used, p, h, r)
    PROVE  Justified /\ tx' \in Seq(AuthCells)
<1>1. CASE server' = "refused" /\ Answer("failure")
  <2>1. TrueFailure /\ "failure" \in OpCodes /\ "failure" # "success"
    BY <1>1 DEF TrueFailure, OpCodes
  <2> QED
    BY <1>1, <2>1, AnswerSays
<1>2. CASE UNCHANGED <<reply, tx>>
  BY <1>2 DEF Justified
<1>3. CASE Fault /\ Thrown(h, r)
  <2>1. TrueFailure
    BY <1>3, FaultCounts DEF TrueFailure
  <2> QED
    BY <1>3, <2>1, ThrownSays
<1> QED
  BY <1>1, <1>2, <1>3 DEF Connect

\* Reading the payload: FAILURE if less than the promise has come.
LEMMA PayloadSays ==
    ASSUME Inv, up \in {"auth", "payload"}, NEW p, p = Least(req.tfo, MSS),
           NEW h \in BOOLEAN, Payload(p, h)
    PROVE  Justified /\ tx' \in Seq(AuthCells)
<1>1. tx \in Seq(AuthCells) /\ reply = <<>>
  BY BeforeReply
<1>2. ASSUME NEW used, NEW r, Connect(used, p, h, r) PROVE Justified /\ tx' \in Seq(AuthCells)
  BY <1>1, <1>2, ConnectSays
<1>3. CASE UNCHANGED <<reply, tx>>
  BY <1>1, <1>3 DEF Justified
<1>4. ASSUME NEW r, Fault, Thrown(h, r) PROVE Justified /\ tx' \in Seq(AuthCells)
  <2>1. TrueFailure
    BY <1>4, FaultCounts DEF TrueFailure
  <2> QED
    BY <1>1, <1>4, <2>1, ThrownSays
<1>5. CASE Drop(rx, tx)
  BY <1>1, <1>5, DropSays
<1>6. ASSUME Len(buf) < p, rx = <<>> PROVE TrueFailure
  <2>1. /\ buf \in Seq(Byte) /\ buf \o rx = Padded(0, wrote - req.len) /\ wrote >= req.len
        /\ wrote \in 0..(req.len + MaxPayload)
    BY DEF Inv, Data, Accounts
  <2>2. req.len \in Nat /\ req.tfo \in Nat /\ MSS \in Nat /\ MaxPayload \in Nat
    BY ProxyRequestAssumption DEF Inv, Objects
  <2> DEFINE z == 0
             m == wrote - req.len
  <2>3. m \in 0..(z + MaxPayload) /\ z \in Nat /\ m \in Nat
    BY <2>1, <2>2
  <2>4. buf = Padded(z, m)
    BY <1>6, <2>1, ConcatEmptySeq
  <2> HIDE DEF z, m
  <2>5. Len(Padded(z, m)) = m
    BY <2>3, PaddedSeq
  <2>6. m < p
    BY <1>6, <2>4, <2>5
  <2>7. p \in Nat
    BY <2>2 DEF Least
  <2>8. wrote < req.len + p
    BY <2>1, <2>2, <2>6, <2>7 DEF m
  <2> QED
    BY <2>8 DEF TrueFailure
<1>7. ASSUME Len(buf) < p, rx = <<>>, Thrown(h, rx) \/ Answer("failure")
      PROVE  Justified /\ tx' \in Seq(AuthCells)
  <2>1. TrueFailure /\ "failure" \in OpCodes /\ "failure" # "success"
    BY <1>6, <1>7 DEF OpCodes
  <2>2. CASE Thrown(h, rx)
    BY <1>1, <2>1, <2>2, ThrownSays
  <2>3. CASE Answer("failure")
    BY <1>1, <2>1, <2>3, AnswerSays
  <2> QED
    BY <1>7, <2>2, <2>3
<1> QED
  BY <1>2, <1>3, <1>4, <1>5, <1>7 DEF Payload

\* The handlers of the upstreamer and of the AuthServer say only what is true.
LEMMA UpstreamerSays ==
    ASSUME Inv, Inv',
           \/ ReadRequest \/ ReadEnds \/ ReadFails \/ AuthSend \/ AuthFails
           \/ HonorSimple \/ HonorConnect \/ HonorFails \/ PayloadArrives
    PROVE  Truthful
<1> SUFFICES got' \in Seq(AuthCells) /\ tx' \in Seq(AuthCells) /\ Justified
  BY FirstWords
<1>1. up \in {"reading", "auth", "payload", "connecting"} /\ got' = got
  BY DEF Inv, Phases, ReadRequest, ReadEnds, ReadFails, AuthSend, AuthFails, HonorSimple,
         HonorConnect, HonorFails, PayloadArrives
<1>2. reply = <<>> /\ got' \in Seq(AuthCells) /\ tx \in Seq(AuthCells) /\ authBuf \in Seq(AuthCells)
  BY <1>1, BeforeReply
<1>3. ASSUME NEW r, Drop(r, tx) PROVE tx' \in Seq(AuthCells) /\ Justified
  BY <1>2, <1>3, DropSays
<1>4. ASSUME UNCHANGED reply, up' # "gone" PROVE tx' \in Seq(AuthCells) /\ Justified
  BY <1>2, <1>4 DEF Inv, Phases, Justified
<1>5. ASSUME NEW c \in OpCodes, Answer(c), c = "success" => TrueSuccess, c = "failure" => TrueFailure
      PROVE  tx' \in Seq(AuthCells) /\ Justified
  BY <1>2, <1>5, AnswerSays
<1>6. CASE ReadRequest
  <2>1. CASE AssignSimple(VersionReply)
    BY <1>2, <2>1 DEF AssignSimple, Justified
  <2>2. CASE UNCHANGED <<objects, tx>>
    BY <1>1, <1>2, <1>4, <2>2 DEF objects
  <2>3. CASE Drop(Rest, tx)
    BY <1>2, <1>3, <2>3
  <2>4. CASE up' = "auth" /\ reply' = reply
    BY <1>2, <1>4, <2>4
  <2> QED
    BY <1>2, <1>6, <2>1, <2>2, <2>3, <2>4 DEF ReadRequest
<1>7. CASE ReadEnds \/ ReadFails \/ AuthFails \/ HonorFails
  BY <1>2, <1>3, <1>7 DEF ReadEnds, ReadFails, AuthFails, HonorFails
<1>8. CASE AuthSend
  <2> DEFINE n == Least(Room, Len(authBuf))
             t == tx \o SubSeq(authBuf, 1, n)
  <2>1. up = "auth" /\ Room > 0
    BY <1>8 DEF AuthSend
  <2>2. (up' = up /\ reply' = reply) \/ Drop(rx, t)
    BY <1>8 DEF AuthSend
  <2>3. t \in Seq(AuthCells)
    <3>1. Len(authBuf) \in Nat /\ Len(tx) \in Nat /\ TxSize \in Nat
      BY <1>2, LenProperties, ProxyRequestAssumption
    <3>2. n \in 0..Len(authBuf)
      BY <2>1, <3>1 DEF Room, Least
    <3> HIDE DEF n
    <3> DEFINE a == SubSeq(authBuf, 1, n)
    <3>3. a \in Seq(AuthCells)
      BY <1>2, <3>2, Cut
    <3> HIDE DEF a
    <3>4. tx \o a \in Seq(AuthCells)
      BY <1>2, <3>3, Conc
    <3> QED
      BY <3>4 DEF a
  <2> HIDE DEF t
  <2>4. CASE Drop(rx, t)
    BY <1>2, <2>3, <2>4, DropSays
  <2>5. CASE up' = up /\ reply' = reply
    BY <1>2, <1>4, <2>1, <2>5
  <2> QED
    BY <1>2, <2>2, <2>4, <2>5
<1>9. CASE HonorSimple
  <2>1. /\ at = "honor" /\ req.kind # "connect"
        /\ Answer(SimpleAnswer(req.kind)) \/ Answer("failure")
    BY <1>9 DEF HonorSimple
  <2>2. req.kind \in {"noop", "other", "domain"}
    <3>1. req.kind \in Kinds
      BY ProxyRequestAssumption DEF Inv, Objects
    <3> QED
      BY <2>1, <3>1 DEF Inv, Phases, Kinds
  <2>3. /\ SimpleAnswer(req.kind) \in OpCodes /\ "failure" \in OpCodes
        /\ SimpleAnswer(req.kind) = "success" => req.kind = "noop"
    BY <2>2 DEF SimpleAnswer, OpCodes
  <2>4. TrueFailure /\ (req.kind = "noop" => TrueSuccess)
    BY <2>1 DEF TrueFailure, TrueSuccess
  <2> QED
    BY <1>2, <1>5, <2>1, <2>3, <2>4
<1>10. CASE HonorConnect
  <2>1. CASE tfoPayload' = StackOptions(req) /\ Payload(tfoPayload', TRUE)
    <3> DEFINE p == Least(req.tfo, MSS)
               h == TRUE
    <3>1. Payload(p, h) /\ h \in BOOLEAN /\ p = Least(req.tfo, MSS)
      BY <2>1 DEF StackOptions
    <3>2. up \in {"auth", "payload"}
      BY <1>10 DEF HonorConnect, Inv, Phases
    <3> HIDE DEF p, h
    <3> QED
      BY <1>2, <3>1, <3>2, PayloadSays
  <2>2. CASE Fault /\ Answer("failure")
    <3>1. TrueFailure /\ "failure" \in OpCodes
      BY <2>2, FaultCounts DEF TrueFailure, OpCodes
    <3> QED
      BY <1>2, <1>5, <2>2, <3>1
  <2> QED
    BY <1>10, <2>1, <2>2 DEF HonorConnect
<1>11. CASE PayloadArrives
  <2> DEFINE p == tfoPayload
             h == FALSE
  <2>1. up = "payload" /\ Payload(p, h) /\ h \in BOOLEAN
    BY <1>11 DEF PayloadArrives
  <2>2. p = Least(req.tfo, MSS)
    BY <2>1 DEF Inv, Accounts
  <2> HIDE DEF p, h
  <2> QED
    BY <1>2, <2>1, <2>2, PayloadSays
<1> QED
  BY <1>6, <1>7, <1>8, <1>9, <1>10, <1>11

\* The end of the connection attempt is reported as it is.
LEMMA ConnectEndsSays == ASSUME Inv, Inv', ConnectEnds PROVE Truthful
<1>1. /\ up = "connecting" /\ got' = got /\ server' = server
      /\ \/ Answer("refused")
         \/ Fault /\ Answer("failure")
         \/ Drop(rx, tx)
         \/ /\ server = "up" /\ up' = "stream" /\ tx' = tx
            /\ reply' = OpReply("success") \/ reply' = reply
  BY DEF ConnectEnds, remote
<1>2. /\ reply = <<>> /\ got' \in Seq(AuthCells) /\ tx \in Seq(AuthCells) /\ req.kind = "connect"
  BY <1>1, BeforeReply DEF Inv, Phases
<1>3. {"success", "failure", "refused"} \subseteq OpCodes
  BY DEF OpCodes
<1>4. tx' \in Seq(AuthCells) /\ Justified
  <2>1. CASE Answer("refused")
    BY <1>2, <1>3, <2>1, AnswerSays
  <2>2. CASE Fault /\ Answer("failure")
    <3>1. TrueFailure
      BY <2>2, FaultCounts DEF TrueFailure
    <3> QED
      BY <1>2, <1>3, <2>2, <3>1, AnswerSays
  <2>3. CASE Drop(rx, tx)
    BY <1>2, <2>3, DropSays
  <2>4. CASE /\ server = "up" /\ up' = "stream" /\ tx' = tx
             /\ reply' = OpReply("success") \/ reply' = reply
    <3>1. TrueSuccess
      BY <1>1, <1>2, <2>4 DEF TrueSuccess
    <3> QED
      BY <1>2, <1>3, <2>4, <3>1 DEF Justified
  <2> QED
    BY <1>1, <2>1, <2>2, <2>3, <2>4
<1> QED
  BY <1>2, <1>4, FirstWords

\* Sending a reply says nothing that was not in it.
LEMMA SimpleSendSays == ASSUME Inv, Inv', SimpleSend PROVE Truthful
<1> DEFINE n == Least(Room, Len(reply))
           a == SubSeq(reply, 1, n)
           b == SubSeq(reply, n + 1, Len(reply))
           t == tx \o a
<1>1. /\ Room > 0 /\ got' = got /\ reply' = b
      /\ tx' = t \/ LastClose(rx, t)
  BY DEF SimpleSend
<1>2. /\ reply \in Seq(Cells) /\ tx \in Seq(Cells) /\ Len(tx) \in Nat /\ Len(reply) \in Nat
      /\ TxSize \in Nat
  BY LenProperties, ProxyRequestAssumption DEF Inv, Objects
<1>3. n \in 0..Len(reply)
  BY <1>1, <1>2 DEF Room, Least
<1> HIDE DEF n
<1>4. a \o b = reply
  BY <1>2, <1>3, Cut
<1>5. a \in Seq(Cells) /\ b \in Seq(Cells)
  BY <1>2, <1>3, Cut
<1>6. tx' = t \/ tx' = <<>>
  BY <1>1, Closing
<1> HIDE DEF a, b
<1>7. Words(reply) = Words(a) \cup Words(b)
  <2>1. Words(a \o b) = Words(a) \cup Words(b)
    BY <1>5, WordsOf
  <2> QED
    BY <1>4, <2>1
<1>8. Words(t) = Words(tx) \cup Words(a)
  BY <1>2, <1>5, WordsOf
<1>9. Words(<<>>) = {}
  BY DEF Words
<1> HIDE DEF t
<1>10. /\ Words(got') \subseteq Words(got) \cup Words(tx) \cup Words(reply)
       /\ Words(tx') \subseteq Words(got) \cup Words(tx) \cup Words(reply)
       /\ Words(reply') \subseteq Words(got) \cup Words(tx) \cup Words(reply)
  BY <1>1, <1>6, <1>7, <1>8, <1>9
<1> QED
  BY <1>10, OldWords

\* Neither do the client and the server, nor a downstreamer that fails.
LEMMA OthersSay ==
    ASSUME Inv, Inv',
           \/ SimpleFails \/ ClientWrites \/ ClientWritesLate \/ ClientCloses \/ ClientAborts
           \/ ClientReads \/ ClientReadsFin \/ ServerAnswers \/ UNCHANGED vars
    PROVE  Truthful
<1>1. CASE ClientReads
  <2>1. tx # <<>> /\ got' = Append(got, Head(tx)) /\ tx' = Tail(tx) /\ reply' = reply
    BY <1>1 DEF ClientReads, objects
  <2>2. tx \in Seq(Cells) /\ got \in Seq(Cells)
    BY DEF Inv, Objects
  <2> DEFINE g == got'
             t == tx'
  <2>3. g \in Seq(Cells) /\ t \in Seq(Cells) /\ g \o t = got \o tx
    BY <2>1, <2>2, ReadOne
  <2> HIDE DEF g, t
  <2>4. Words(g \o t) = Words(g) \cup Words(t) /\ Words(got \o tx) = Words(got) \cup Words(tx)
    BY <2>2, <2>3, WordsOf
  <2>5. /\ Words(g) \subseteq Words(got) \cup Words(tx) \cup Words(reply)
        /\ Words(t) \subseteq Words(got) \cup Words(tx) \cup Words(reply)
    BY <2>3, <2>4
  <2>6. Words(reply') \subseteq Words(got) \cup Words(tx) \cup Words(reply)
    BY <2>1
  <2> QED
    BY <2>5, <2>6, OldWords DEF g, t
<1>2. CASE got' = got /\ reply' = reply /\ (tx' = tx \/ tx' = <<>>)
  <2>1. Words(<<>>) = {}
    BY DEF Words
  <2>2. /\ Words(got') \subseteq Words(got) \cup Words(tx) \cup Words(reply)
        /\ Words(tx') \subseteq Words(got) \cup Words(tx) \cup Words(reply)
        /\ Words(reply') \subseteq Words(got) \cup Words(tx) \cup Words(reply)
    BY <1>2, <2>1
  <2> QED
    BY <2>2, OldWords
<1>3. CASE \/ SimpleFails \/ ClientWrites \/ ClientWritesLate \/ ClientCloses \/ ClientAborts
           \/ ClientReadsFin \/ ServerAnswers \/ UNCHANGED vars
  <2>1. got' = got /\ reply' = reply /\ (tx' = tx \/ tx' = <<>>)
    BY <1>3 DEF SimpleFails, ClientWrites, ClientWritesLate, ClientCloses, ClientAborts,
                ClientReadsFin, ServerAnswers, vars, objects, client
  <2> QED
    BY <1>2, <2>1
<1> QED
  BY <1>1, <1>3

(***************************************************************************)
(* proxyupstreamer.cc:41-56, 133-206: SUCCESS is said of a connection that *)
(* stands, and FAILURE of a CONNECT only if a call has failed, the server  *)
(* cannot be reached or promised payload has not been written.             *)
(***************************************************************************)
THEOREM ProxyRequestAnswersHaveCause == Spec => AnswersHaveCause
<1> DEFINE Step == /\ (~Said("success") /\ Said("success")') =>
                         req.kind = "noop" \/ (req.kind = "connect" /\ server' = "up")
                   /\ (req.kind = "connect" /\ ~Said("failure") /\ Said("failure")') =>
                         \/ faults' > faults \/ server' = "refused"
                         \/ wrote < req.len + Least(req.tfo, MSS)
<1>1. Inv /\ [Next]_vars => [Step]_vars
  <2> SUFFICES ASSUME Inv, [Next]_vars PROVE Step
    OBVIOUS
  <2>1. Inv'
    BY NextInv
  <2>2. Truthful
    BY <2>1, UpstreamerSays, ConnectEndsSays, SimpleSendSays, OthersSay DEF Next, Handler
  <2> QED
    BY <2>2 DEF Truthful, TrueSuccess, TrueFailure
<1> QED
  BY <1>1, ProxyRequestInvariant, PTL DEF Spec, AnswersHaveCause

=============================================================================
