---------------------------- MODULE TunnelProofs ----------------------------
(***************************************************************************)
(* Proofs about Tunnel: no byte is lost, duplicated or reordered between   *)
(* the two peers, a reactor receives into an empty buffer only, and a FIN  *)
(* is passed on behind everything that came before it, for buffers of any  *)
(* size and any number of bytes.                                           *)
(***************************************************************************)
EXTENDS Tunnel, SequenceTheorems, TLAPS

Byte == 0..MaxBytes

\* TypeOK, and that the buffers are functions.
Types ==
    /\ TypeOK
    /\ buf \in [Dir -> Seq(Byte)]
    /\ rx \in [Sock -> Seq(Byte)]
    /\ tx \in [Sock -> Seq(Byte)]
    /\ got \in [Sock -> Seq(Byte)]

\* uniqfd.hh:55-59: a reactor's two descriptors are open as long as it exists.
Owned == \A d \in Dir : /\ rd[Src(d)] <=> obj[d] # "gone"
                        /\ wr[Dst(d)] <=> obj[d] # "gone"

(***************************************************************************)
(* What makes FinMeansComplete inductive: while no peer aborts, a reactor  *)
(* ends only after its source has closed and with nothing left to receive  *)
(* or to send, and its destination reads the FIN behind the last byte.     *)
(***************************************************************************)
Orderly ==
    (\A s \in Sock : peer[s] # "aborted") =>
        \A d \in Dir :
            /\ obj[d] # "inert"
            /\ told[Dst(d)] # "reset"
            /\ obj[d] = "gone" => /\ peer[Src(d)] = "fin"
                                  /\ rx[Src(d)] = <<>>
                                  /\ got[Dst(d)] \o tx[Dst(d)] = Stream(d)
            /\ told[Dst(d)] = "fin" => obj[d] = "gone" /\ tx[Dst(d)] = <<>>

Inv == Types /\ Owned /\ ReceivesIntoEmpty /\ Conservation /\ Orderly

-----------------------------------------------------------------------------
(* Bytes that move from the front of one queue to the end of another. *)

\* Four queues, one behind another.
Line(s, t, u, v) == s \o t \o u \o v

\* Concatenation is associative.
LEMMA Assoc == \A s, t, u \in Seq(Byte) : (s \o t) \o u = s \o (t \o u)
BY ConcatAssociative

\* The type and the length of a concatenation.
LEMMA Conc == \A s, t \in Seq(Byte) : /\ s \o t \in Seq(Byte)
                                      /\ Len(s \o t) = Len(s) + Len(t)
BY ConcatProperties

\* Cutting a sequence in two loses nothing.
LEMMA Cut ==
    ASSUME NEW s \in Seq(Byte), NEW n \in 0..Len(s)
    PROVE  /\ SubSeq(s, 1, n) \in Seq(Byte) /\ Len(SubSeq(s, 1, n)) = n
           /\ SubSeq(s, n + 1, Len(s)) \in Seq(Byte)
           /\ Len(SubSeq(s, n + 1, Len(s))) = Len(s) - n
           /\ SubSeq(s, 1, n) \o SubSeq(s, n + 1, Len(s)) = s
<1>1. Len(s) \in Nat /\ \A i \in 1..Len(s) : s[i] \in Byte
  BY LenProperties
<1>2. SubSeq(s, 1, n) \in Seq(Byte) /\ Len(SubSeq(s, 1, n)) = n
  BY <1>1, SubSeqProperties
<1>3. /\ SubSeq(s, n + 1, Len(s)) \in Seq(Byte)
      /\ Len(SubSeq(s, n + 1, Len(s))) = Len(s) - n
  BY <1>1, SubSeqProperties
<1>4. SubSeq(s, 1, n) \o SubSeq(s, n + 1, Len(s)) = SubSeq(s, 1, Len(s))
  <2>1. /\ 1 \in 1..(Len(s) + 1)
        /\ n \in (1 - 1)..Len(s)
        /\ Len(s) \in n..Len(s)
    BY <1>1
  <2> QED
    BY <2>1, ConcatAdjacentSubSeq, Zenon
<1> QED
  BY <1>2, <1>3, <1>4, SubSeqFull, Zenon

\* Moving the first n bytes of t to the end of s.
LEMMA Shift ==
    ASSUME NEW s \in Seq(Byte), NEW t \in Seq(Byte), NEW n \in 0..Len(t)
    PROVE  (s \o SubSeq(t, 1, n)) \o SubSeq(t, n + 1, Len(t)) = s \o t
<1> DEFINE a == SubSeq(t, 1, n)
           b == SubSeq(t, n + 1, Len(t))
<1>1. a \in Seq(Byte) /\ b \in Seq(Byte)
  BY Cut, Zenon
<1>2. a \o b = t
  BY Cut, Zenon
<1> HIDE DEF a, b
<1>3. (s \o a) \o b = s \o (a \o b)
  BY <1>1, Assoc
<1> QED
  BY <1>2, <1>3 DEF a, b

\* Moving the first byte of t to the end of s.
LEMMA ShiftOne ==
    ASSUME NEW s \in Seq(Byte), NEW t \in Seq(Byte), t # <<>>
    PROVE  /\ Append(s, Head(t)) \in Seq(Byte) /\ Tail(t) \in Seq(Byte)
           /\ Len(Tail(t)) = Len(t) - 1
           /\ Append(s, Head(t)) \o Tail(t) = s \o t
<1>1. Head(t) \in Byte /\ Tail(t) \in Seq(Byte) /\ Len(Tail(t)) = Len(t) - 1
  BY HeadTailProperties, Zenon
<1>2. t = <<Head(t)>> \o Tail(t)
  <2>1. Len(t) \in Nat \ {0} /\ Head(t) = t[1] /\ Tail(t) = SubSeq(t, 1 + 1, Len(t))
    BY EmptySeq, TailIsSubSeq
  <2>2. 1 \in 1..Len(t) /\ Len(t) \in 1..Len(t)
    BY <2>1
  <2>3. SubSeq(t, 1, Len(t)) = <<t[1]>> \o SubSeq(t, 1 + 1, Len(t))
    BY <2>2, SubSeqRecursiveFirst, Zenon
  <2>4. SubSeq(t, 1, Len(t)) = t
    BY SubSeqFull, Zenon
  <2> QED
    BY <2>1, <2>3, <2>4
<1>3. /\ Append(s, Head(t)) = s \o <<Head(t)>> /\ <<Head(t)>> \in Seq(Byte)
      /\ Append(s, Head(t)) \in Seq(Byte)
  BY <1>1, AppendIsConcat
<1> DEFINE h == <<Head(t)>>
           r == Tail(t)
<1>4. h \in Seq(Byte) /\ r \in Seq(Byte) /\ t = h \o r /\ Append(s, Head(t)) = s \o h
  BY <1>1, <1>2, <1>3
<1> HIDE DEF h, r
<1>5. (s \o h) \o r = s \o (h \o r)
  BY <1>4, Assoc
<1> QED
  BY <1>1, <1>3, <1>4, <1>5 DEF r

\* The stream is the same wherever its bytes are: sockRecv moves bytes from the
\* front of the last queue to the end of the one ahead of it, ...
LEMMA MovedIn ==
    ASSUME NEW s \in Seq(Byte), NEW t \in Seq(Byte), NEW u \in Seq(Byte), NEW v \in Seq(Byte),
           NEW n \in 0..Len(v)
    PROVE  Line(s, t, u \o SubSeq(v, 1, n), SubSeq(v, n + 1, Len(v))) = Line(s, t, u, v)
<1> DEFINE a == u \o SubSeq(v, 1, n)
           b == SubSeq(v, n + 1, Len(v))
           p == s \o t
<1>1. a \in Seq(Byte) /\ b \in Seq(Byte)
  BY Cut, Conc, Zenon
<1>2. a \o b = u \o v
  BY Shift, Zenon
<1>3. p \in Seq(Byte)
  BY Conc, Zenon
<1> HIDE DEF a, b, p
<1>4. p \o a \o b = p \o (a \o b)
  BY <1>1, <1>3, Assoc, ZenonT(60)
<1>5. p \o u \o v = p \o (u \o v)
  BY <1>3, Assoc
<1>6. p \o a \o b = p \o u \o v
  BY <1>2, <1>4, <1>5, Zenon
<1> QED
  BY <1>6, Zenon DEF Line, a, b, p

\* ... sockSend from the third queue to the second, ...
LEMMA MovedOut ==
    ASSUME NEW s \in Seq(Byte), NEW t \in Seq(Byte), NEW u \in Seq(Byte), NEW v \in Seq(Byte),
           NEW n \in 0..Len(u)
    PROVE  Line(s, t \o SubSeq(u, 1, n), SubSeq(u, n + 1, Len(u)), v) = Line(s, t, u, v)
<1> DEFINE a == t \o SubSeq(u, 1, n)
           b == SubSeq(u, n + 1, Len(u))
<1>1. a \in Seq(Byte) /\ b \in Seq(Byte)
  BY Cut, Conc, Zenon
<1>2. a \o b = t \o u
  BY Shift, Zenon
<1> HIDE DEF a, b
<1>3. s \o a \o b = s \o (a \o b)
  BY <1>1, Assoc, SMTT(60)
<1>4. s \o t \o u = s \o (t \o u)
  BY Assoc, ZenonT(60)
<1>5. s \o a \o b \o v = s \o t \o u \o v
  BY <1>2, <1>3, <1>4, Zenon
<1> QED
  BY <1>5, Zenon DEF Line, a, b

\* ... and the peer's read takes one byte from the second queue to the first.
LEMMA MovedOn ==
    ASSUME NEW s \in Seq(Byte), NEW t \in Seq(Byte), NEW u \in Seq(Byte), NEW v \in Seq(Byte),
           t # <<>>
    PROVE  Line(Append(s, Head(t)), Tail(t), u, v) = Line(s, t, u, v)
BY ShiftOne, Zenon DEF Line

\* The bytes of "more" come behind those of "old".
Extended(new, old, more) == new = old \o more

\* What the source adds comes last.
LEMMA Grown ==
    ASSUME NEW s \in Seq(Byte), NEW t \in Seq(Byte), NEW u \in Seq(Byte), NEW v \in Seq(Byte),
           NEW y \in Seq(Byte)
    PROVE  Extended(Line(s, t, u, v \o y), Line(s, t, u, v), y)
<1> DEFINE p == s \o t \o u
<1>1. p \in Seq(Byte)
  BY Conc, Zenon
<1> HIDE DEF p
<1>2. p \o v \o y = p \o (v \o y)
  BY <1>1, Assoc, SMTT(60)
<1> QED
  BY <1>2, Zenon DEF Extended, Line, p

-----------------------------------------------------------------------------
(* One lemma per action. *)

\* The two directions use different queues of either socket.
LEMMA Apart ==
    \A d, e \in Dir : /\ Src(d) \in Sock /\ Dst(d) \in Sock
                      /\ Src(d) = Src(e) => d = e
                      /\ Dst(d) = Dst(e) => d = e
                      /\ Src(d) # Dst(d)
                      /\ d # e => Src(d) = Dst(e)
BY DEF Dir, Sock, Src, Dst

\* Both sockets are the source of a direction and the destination of one.
LEMMA Covered == \A s \in Sock : (\E d \in Dir : s = Src(d)) /\ (\E d \in Dir : s = Dst(d))
BY DEF Dir, Sock, Src, Dst

\* sockRecv moves bytes from the socket to the empty buffer.
LEMMA ReceiveInv ==
    ASSUME Inv, NEW d \in Dir, NEW n \in 1..RxSize, Receive(d, n)
    PROVE  Inv'
<1>1. /\ n \in 0..Len(rx[Src(d)]) /\ Len(buf[d]) + n <= BufSize
      /\ obj[d] = "running"
      /\ buf[d] \in Seq(Byte) /\ rx[Src(d)] \in Seq(Byte)
      /\ Len(rx[Src(d)]) \in Nat /\ Len(rx[Src(d)]) <= RxSize
  BY Apart, TunnelAssumption, LenProperties DEF Receive, InProcess, Inv, Types, TypeOK
<1>2. /\ buf' = [buf EXCEPT ![d] = buf[d] \o SubSeq(rx[Src(d)], 1, n)]
      /\ rx' = [rx EXCEPT ![Src(d)] = SubSeq(rx[Src(d)], n + 1, Len(rx[Src(d)]))]
      /\ streamState' = [streamState EXCEPT ![d] = "sending"]
      /\ busy' = d
      /\ UNCHANGED <<role, obj, rd, wr, tx, peer, wrote, got, told>>
  BY DEF Receive, peers
<1> DEFINE b == buf[d] \o SubSeq(rx[Src(d)], 1, n)
           r == SubSeq(rx[Src(d)], n + 1, Len(rx[Src(d)]))
<1>3. /\ SubSeq(rx[Src(d)], 1, n) \in Seq(Byte) /\ Len(SubSeq(rx[Src(d)], 1, n)) = n
      /\ r \in Seq(Byte) /\ Len(r) = Len(rx[Src(d)]) - n
  BY <1>1, Cut, Zenon
<1>4. b \in Seq(Byte) /\ Len(b) = Len(buf[d]) + n
  BY <1>1, <1>3, Conc
<1> HIDE DEF b, r
<1>5. /\ buf' = [buf EXCEPT ![d] = b]
      /\ rx' = [rx EXCEPT ![Src(d)] = r]
  BY <1>2 DEF b, r
<1>6. Types'
  <2>1. buf' \in [Dir -> Seq(Byte)] /\ rx' \in [Sock -> Seq(Byte)]
    BY <1>3, <1>4, <1>5, Apart DEF Inv, Types
  <2>2. /\ \A e \in Dir : Len(buf'[e]) <= BufSize
        /\ \A s \in Sock : Len(rx'[s]) <= RxSize
    <3>1. /\ \A e \in Dir : buf'[e] = IF e = d THEN b ELSE buf[e]
          /\ \A s \in Sock : rx'[s] = IF s = Src(d) THEN r ELSE rx[s]
      BY <1>5, Apart DEF Inv, Types
    <3>2. Len(b) <= BufSize /\ Len(r) <= RxSize
      BY <1>1, <1>3, <1>4, TunnelAssumption
    <3> QED
      BY <3>1, <3>2 DEF Inv, Types, TypeOK
  <2>3. /\ streamState' \in [Dir -> {"receiving", "sending"}]
        /\ busy' \in Dir \cup {"none"}
    BY <1>2 DEF Inv, Types, TypeOK
  <2> QED
    BY <1>2, <2>1, <2>2, <2>3 DEF Inv, Types, TypeOK, Byte
<1>7. Owned'
  BY <1>2 DEF Inv, Owned
<1>8. ReceivesIntoEmpty'
  BY <1>2 DEF Inv, Types, TypeOK, ReceivesIntoEmpty
<1>9. Conservation'
  <2> SUFFICES ASSUME NEW e \in Dir, obj'[e] # "gone", peer'[Dst(e)] # "aborted"
               PROVE  InTransit(e)' = Stream(e)'
    BY DEF Conservation
  <2>1. InTransit(e) = Stream(e) /\ Stream(e)' = Stream(e)
    BY <1>2 DEF Inv, Conservation, Stream, Greeting, HoldsPeer
  <2>2. CASE e = d
    <3>1. Line(got[Dst(d)], tx[Dst(d)], b, r) = Line(got[Dst(d)], tx[Dst(d)], buf[d], rx[Src(d)])
      <4>1. got[Dst(d)] \in Seq(Byte) /\ tx[Dst(d)] \in Seq(Byte)
        BY Apart DEF Inv, Types
      <4> QED
        BY <1>1, <4>1, MovedIn DEF b, r
    <3>2. InTransit(d)' = Line(got[Dst(d)], tx[Dst(d)], b, r)
      <4>1. buf'[d] = b /\ rx'[Src(d)] = r
        BY <1>5, Apart DEF Inv, Types
      <4> QED
        BY <1>2, <4>1 DEF InTransit, Line
    <3> QED
      BY <2>1, <2>2, <3>1, <3>2, Zenon DEF InTransit, Line
  <2>3. CASE e # d
    <3>1. buf'[e] = buf[e] /\ rx'[Src(e)] = rx[Src(e)]
      BY <1>5, <2>3, Apart DEF Inv, Types
    <3> QED
      BY <1>2, <2>1, <3>1 DEF InTransit
  <2> QED
    BY <2>2, <2>3
<1>10. Orderly'
  <2> SUFFICES ASSUME \A s \in Sock : peer[s] # "aborted", NEW e \in Dir
               PROVE  /\ obj[e] # "inert"
                      /\ told[Dst(e)] # "reset"
                      /\ obj[e] = "gone" => /\ peer[Src(e)] = "fin"
                                            /\ rx'[Src(e)] = <<>>
                                            /\ got[Dst(e)] \o tx[Dst(e)] = Stream(e)'
                      /\ told[Dst(e)] = "fin" => obj[e] = "gone" /\ tx[Dst(e)] = <<>>
    BY <1>2 DEF Orderly
  <2>1. Stream(e)' = Stream(e)
    BY <1>2 DEF Stream, Greeting, HoldsPeer
  <2>2. obj[e] = "gone" => rx'[Src(e)] = rx[Src(e)]
    BY <1>1, <1>5, Apart DEF Inv, Types
  <2> QED
    BY <2>1, <2>2 DEF Inv, Orderly
<1> QED
  BY <1>6, <1>7, <1>8, <1>9, <1>10 DEF Inv

\* sockSend moves bytes from the buffer to the socket.
LEMMA SendInv ==
    ASSUME Inv, NEW d \in Dir, NEW n \in 1..TxSize, Send(d, n)
    PROVE  Inv'
<1>1. /\ n \in 0..Len(buf[d]) /\ Len(tx[Dst(d)]) + n <= TxSize
      /\ obj[d] = "running"
      /\ buf[d] \in Seq(Byte) /\ tx[Dst(d)] \in Seq(Byte)
      /\ Len(buf[d]) \in Nat /\ Len(buf[d]) <= BufSize
  BY Apart, TunnelAssumption, LenProperties DEF Send, InSend, Inv, Types, TypeOK
<1> DEFINE t == tx[Dst(d)] \o SubSeq(buf[d], 1, n)
           b == SubSeq(buf[d], n + 1, Len(buf[d]))
<1>2. /\ SubSeq(buf[d], 1, n) \in Seq(Byte) /\ Len(SubSeq(buf[d], 1, n)) = n
      /\ b \in Seq(Byte) /\ Len(b) = Len(buf[d]) - n
  BY <1>1, Cut, Zenon
<1>3. t \in Seq(Byte) /\ Len(t) = Len(tx[Dst(d)]) + n
  BY <1>1, <1>2, Conc
<1>4. /\ buf' = [buf EXCEPT ![d] = b]
      /\ tx' = [tx EXCEPT ![Dst(d)] = t]
      /\ streamState' = [streamState EXCEPT ![d] =
                            IF n = Len(buf[d]) THEN "receiving" ELSE "sending"]
      /\ busy' = "none"
      /\ UNCHANGED <<role, obj, rd, wr, rx, peer, wrote, got, told>>
  BY DEF Send, peers
<1> HIDE DEF b, t
<1>5. /\ \A e \in Dir : buf'[e] = IF e = d THEN b ELSE buf[e]
      /\ \A s \in Sock : tx'[s] = IF s = Dst(d) THEN t ELSE tx[s]
  BY <1>4, Apart DEF Inv, Types
<1>6. Types'
  <2>1. buf' \in [Dir -> Seq(Byte)] /\ tx' \in [Sock -> Seq(Byte)]
    BY <1>2, <1>3, <1>4, Apart DEF Inv, Types
  <2>2. /\ \A e \in Dir : Len(buf'[e]) <= BufSize
        /\ \A s \in Sock : Len(tx'[s]) <= TxSize
    <3>1. Len(b) <= BufSize /\ Len(t) <= TxSize
      BY <1>1, <1>2, <1>3, TunnelAssumption
    <3> QED
      BY <1>5, <3>1 DEF Inv, Types, TypeOK
  <2>3. /\ streamState' \in [Dir -> {"receiving", "sending"}]
        /\ busy' \in Dir \cup {"none"}
    BY <1>4 DEF Inv, Types, TypeOK
  <2> QED
    BY <1>4, <2>1, <2>2, <2>3 DEF Inv, Types, TypeOK, Byte
<1>7. Owned'
  BY <1>4 DEF Inv, Owned
<1>8. ReceivesIntoEmpty'
  <2>1. n = Len(buf[d]) => b = <<>>
    BY <1>1, <1>2, EmptySeq
  <2> QED
    BY <1>4, <1>5, <2>1 DEF Inv, Types, TypeOK, ReceivesIntoEmpty
<1>9. Conservation'
  <2> SUFFICES ASSUME NEW e \in Dir, obj'[e] # "gone", peer'[Dst(e)] # "aborted"
               PROVE  InTransit(e)' = Stream(e)'
    BY DEF Conservation
  <2>1. InTransit(e) = Stream(e) /\ Stream(e)' = Stream(e)
    BY <1>4 DEF Inv, Conservation, Stream, Greeting, HoldsPeer
  <2>2. CASE e = d
    <3>1. Line(got[Dst(d)], t, b, rx[Src(d)]) = Line(got[Dst(d)], tx[Dst(d)], buf[d], rx[Src(d)])
      <4>1. got[Dst(d)] \in Seq(Byte) /\ rx[Src(d)] \in Seq(Byte)
        BY Apart DEF Inv, Types
      <4> QED
        BY <1>1, <4>1, MovedOut DEF b, t
    <3>2. InTransit(d)' = Line(got[Dst(d)], t, b, rx[Src(d)])
      <4>1. buf'[d] = b /\ tx'[Dst(d)] = t
        BY <1>5, Apart
      <4> QED
        BY <1>4, <4>1 DEF InTransit, Line
    <3> QED
      BY <2>1, <2>2, <3>1, <3>2, Zenon DEF InTransit, Line
  <2>3. CASE e # d
    <3>1. buf'[e] = buf[e] /\ tx'[Dst(e)] = tx[Dst(e)]
      BY <1>5, <2>3, Apart
    <3> QED
      BY <1>4, <2>1, <3>1 DEF InTransit
  <2> QED
    BY <2>2, <2>3
<1>10. Orderly'
  <2> SUFFICES ASSUME \A s \in Sock : peer[s] # "aborted", NEW e \in Dir
               PROVE  /\ obj[e] # "inert"
                      /\ told[Dst(e)] # "reset"
                      /\ obj[e] = "gone" => /\ peer[Src(e)] = "fin"
                                            /\ rx[Src(e)] = <<>>
                                            /\ got[Dst(e)] \o tx'[Dst(e)] = Stream(e)'
                      /\ told[Dst(e)] = "fin" => obj[e] = "gone" /\ tx'[Dst(e)] = <<>>
    BY <1>4 DEF Orderly
  <2>1. Stream(e)' = Stream(e)
    BY <1>4 DEF Stream, Greeting, HoldsPeer
  <2>2. obj[e] = "gone" => tx'[Dst(e)] = tx[Dst(e)]
    BY <1>1, <1>5, Apart
  <2> QED
    BY <2>1, <2>2 DEF Inv, Orderly
<1> QED
  BY <1>6, <1>7, <1>8, <1>9, <1>10 DEF Inv

\* EAGAIN changes nothing but who runs.
LEMMA SendBlocksInv ==
    ASSUME Inv, NEW d \in Dir, SendBlocks(d)
    PROVE  Inv'
<1>1. /\ busy' = "none"
      /\ UNCHANGED <<role, streamState, buf, obj, rd, wr, rx, tx, peer, wrote, got, told>>
  BY DEF SendBlocks, sockets, peers
<1>2. \A e \in Dir : Stream(e)' = Stream(e) /\ InTransit(e)' = InTransit(e)
  BY <1>1 DEF Stream, Greeting, HoldsPeer, InTransit
<1>3. Types' /\ Owned' /\ ReceivesIntoEmpty'
  BY <1>1 DEF Inv, Types, TypeOK, Owned, ReceivesIntoEmpty
<1>4. Conservation' /\ Orderly'
  BY <1>1, <1>2 DEF Inv, Conservation, Orderly
<1> QED
  BY <1>3, <1>4 DEF Inv

(***************************************************************************)
(* A reactor is destroyed and its descriptors are closed.  If no peer has  *)
(* aborted, nothing may be left to deliver in its direction.               *)
(***************************************************************************)
LEMMA GoneInv ==
    ASSUME Inv, NEW d \in Dir, obj[d] = "running", Gone(d),
           (\A s \in Sock : peer[s] # "aborted") =>
               /\ peer[Src(d)] = "fin" /\ rx[Src(d)] = <<>>
               /\ got[Dst(d)] \o tx[Dst(d)] = Stream(d)
    PROVE  Inv'
<1> DEFINE R == {Src(e) : e \in Released(d)}
           W == {Dst(e) : e \in Released(d)}
           open(s) == (rd[s] /\ s \notin R) \/ (wr[s] /\ s \notin W)
           reset(s) == ~open(s) /\ (rd[s] \/ wr[s]) /\ rx[s] # <<>> /\ peer[s] # "aborted"
<1>1. /\ rd' = [s \in Sock |-> rd[s] /\ s \notin R]
      /\ wr' = [s \in Sock |-> wr[s] /\ s \notin W]
      /\ tx' = [s \in Sock |-> IF reset(s) THEN <<>> ELSE tx[s]]
      /\ told' = [s \in Sock |-> IF reset(s) THEN "reset" ELSE told[s]]
      /\ obj' = [e \in Dir |-> IF e \in Released(d) THEN "gone" ELSE obj[e]]
      /\ busy' = "none"
      /\ UNCHANGED <<role, streamState, buf, rx, peer, wrote, got>>
  BY DEF Gone, Close
<1>2. Released(d) \subseteq Dir /\ d \in Released(d)
  BY DEF Released
<1>3. \A e \in Dir : /\ Src(e) \in R <=> e \in Released(d)
                     /\ Dst(e) \in W <=> e \in Released(d)
  BY <1>2, Apart
<1>4. \A e \in Dir : (e \notin Released(d) /\ obj[e] # "gone") => ~reset(Dst(e))
  BY <1>3 DEF Inv, Owned
<1>5. ASSUME \A s \in Sock : peer[s] # "aborted"
      PROVE  Released(d) = {d} /\ \A s \in Sock : ~reset(s)
  <2>1. Released(d) = {d}
    BY <1>5 DEF Released, Inv, Orderly, Dir
  <2>2. ASSUME NEW e \in Dir
        PROVE  ~reset(Src(e))
    <3>1. CASE e = d
      BY <1>5, <3>1
    <3>2. CASE obj[e] = "gone"
      BY <1>5, <3>2 DEF Inv, Orderly
    <3>3. CASE e # d /\ obj[e] # "gone"
      BY <1>3, <2>1, <3>3 DEF Inv, Owned
    <3> QED
      BY <3>1, <3>2, <3>3
  <2> QED
    BY <2>1, <2>2, Covered
<1> HIDE DEF R, W, reset
<1>6. Types'
  <2>1. <<>> \in Seq(Byte) /\ Len(<<>>) = 0
    BY EmptySeq
  <2>2. /\ \A s \in Sock : tx'[s] = <<>> \/ tx'[s] = tx[s]
        /\ tx' = [s \in Sock |-> tx'[s]]
    BY <1>1
  <2>3. tx' \in [Sock -> Seq(Byte)] /\ \A s \in Sock : Len(tx'[s]) <= TxSize
    <3>1. ASSUME NEW s \in Sock
          PROVE  tx'[s] \in Seq(Byte) /\ Len(tx'[s]) <= TxSize
      <4>1. tx[s] \in Seq(Byte) /\ Len(tx[s]) <= TxSize /\ 0 <= TxSize
        BY TunnelAssumption DEF Inv, Types, TypeOK
      <4>2. CASE tx'[s] = <<>>
        BY <2>1, <4>1, <4>2
      <4>3. CASE tx'[s] = tx[s]
        BY <4>1, <4>3
      <4> QED
        BY <2>2, <4>2, <4>3
    <3> QED
      BY <2>2, <3>1
  <2>4. /\ rd' \in [Sock -> BOOLEAN] /\ wr' \in [Sock -> BOOLEAN]
        /\ told' \in [Sock -> {"no", "fin", "reset"}]
        /\ obj' \in [Dir -> {"running", "inert", "gone"}]
        /\ busy' \in Dir \cup {"none"}
    BY <1>1 DEF Inv, Types, TypeOK
  <2> QED
    BY <1>1, <2>3, <2>4 DEF Inv, Types, TypeOK, Byte
<1>7. Owned'
  BY <1>1, <1>3, Apart DEF Inv, Owned
<1>8. ReceivesIntoEmpty'
  BY <1>1 DEF Inv, ReceivesIntoEmpty
<1>9. \A e \in Dir : Stream(e)' = Stream(e)
  BY <1>1 DEF Stream, Greeting, HoldsPeer
<1>10. Conservation'
  <2> SUFFICES ASSUME NEW e \in Dir, obj'[e] # "gone", peer'[Dst(e)] # "aborted"
               PROVE  InTransit(e)' = Stream(e)'
    BY DEF Conservation
  <2>1. e \notin Released(d) /\ obj[e] # "gone" /\ tx'[Dst(e)] = tx[Dst(e)]
    BY <1>1, <1>4, Apart
  <2>2. InTransit(e) = Stream(e)
    BY <1>1, <2>1 DEF Inv, Conservation
  <2> QED
    BY <1>1, <1>9, <2>1, <2>2 DEF InTransit
<1>11. Orderly'
  <2> SUFFICES ASSUME \A s \in Sock : peer[s] # "aborted", NEW e \in Dir
               PROVE  /\ obj'[e] # "inert"
                      /\ told'[Dst(e)] # "reset"
                      /\ obj'[e] = "gone" => /\ peer[Src(e)] = "fin"
                                             /\ rx[Src(e)] = <<>>
                                             /\ got[Dst(e)] \o tx'[Dst(e)] = Stream(e)'
                      /\ told'[Dst(e)] = "fin" => obj'[e] = "gone" /\ tx'[Dst(e)] = <<>>
    BY <1>1 DEF Orderly
  <2>1. tx'[Dst(e)] = tx[Dst(e)] /\ told'[Dst(e)] = told[Dst(e)]
    BY <1>1, <1>5, Apart
  <2>2. obj'[e] = IF e = d THEN "gone" ELSE obj[e]
    BY <1>1, <1>5
  <2> QED
    BY <1>9, <2>1, <2>2 DEF Inv, Orderly
<1> QED
  BY <1>6, <1>7, <1>8, <1>10, <1>11 DEF Inv

\* An exception after a peer has aborted destroys the reactor or leaves it inert.
LEMMA FailInv ==
    ASSUME Inv, NEW d \in Dir, obj[d] = "running", Fail(d),
           \E s \in Sock : peer[s] = "aborted"
    PROVE  Inv'
<1>1. CASE Gone(d)
  BY <1>1, GoneInv
<1>2. CASE /\ obj' = [obj EXCEPT !["up"] = "inert"]
           /\ d = "up" /\ busy' = "none"
           /\ UNCHANGED <<role, streamState, buf, sockets, peers>>
  <2>1. UNCHANGED <<role, streamState, buf, rd, wr, rx, tx, peer, wrote, got, told>>
    BY <1>2 DEF sockets, peers
  <2>2. \A e \in Dir : Stream(e)' = Stream(e) /\ InTransit(e)' = InTransit(e)
    BY <2>1 DEF Stream, Greeting, HoldsPeer, InTransit
  <2>3. \A e \in Dir : obj'[e] = "gone" <=> obj[e] = "gone"
    BY <1>2 DEF Inv, Types, TypeOK, Dir
  <2>4. Types' /\ Owned' /\ ReceivesIntoEmpty'
    BY <1>2, <2>1, <2>3 DEF Inv, Types, TypeOK, Owned, ReceivesIntoEmpty, Dir
  <2>5. Conservation' /\ Orderly'
    BY <2>1, <2>2, <2>3, ZenonT(60) DEF Inv, Conservation, Orderly
  <2> QED
    BY <2>4, <2>5 DEF Inv
<1> QED
  BY <1>1, <1>2 DEF Fail

\* A recv that returns 0 ends a direction in which everything was passed on, or
\* whose source has aborted.
LEMMA EndOfStreamInv ==
    ASSUME Inv, NEW d \in Dir, EndOfStream(d)
    PROVE  Inv'
<1>1. /\ obj[d] = "running" /\ streamState[d] = "receiving" /\ rx[Src(d)] = <<>>
      /\ peer[Src(d)] # "open" /\ Gone(d)
  BY DEF EndOfStream, InProcess
<1>2. ASSUME \A s \in Sock : peer[s] # "aborted"
      PROVE  /\ peer[Src(d)] = "fin" /\ rx[Src(d)] = <<>>
             /\ got[Dst(d)] \o tx[Dst(d)] = Stream(d)
  <2>1. peer[Src(d)] = "fin"
    BY <1>1, <1>2, Apart DEF Inv, Types, TypeOK
  <2>2. buf[d] = <<>> /\ InTransit(d) = Stream(d)
    BY <1>1, <1>2, Apart DEF Inv, ReceivesIntoEmpty, Conservation
  <2> DEFINE p == got[Dst(d)] \o tx[Dst(d)]
  <2>3. p \in Seq(Byte)
    BY Apart, Conc DEF Inv, Types
  <2>4. InTransit(d) = p \o <<>> \o <<>>
    BY <1>1, <2>2 DEF InTransit
  <2> HIDE DEF p
  <2>5. p \o <<>> = p
    BY <2>3, ConcatEmptySeq
  <2>6. p \o <<>> \o <<>> = p
    BY <2>5, Zenon
  <2>7. p = Stream(d)
    BY <2>2, <2>4, <2>6, Zenon
  <2> QED
    BY <1>1, <2>1, <2>7 DEF p
<1> QED
  BY <1>1, <1>2, GoneInv

\* The stream of a direction grows by the byte that its source writes.
LEMMA StreamGrows ==
    ASSUME NEW n \in Nat, NEW g \in Seq(Nat)
    PROVE  g \o [i \in 1..(n + 1) |-> i] = g \o [i \in 1..n |-> i] \o <<n + 1>>
<1>1. g \o [i \in 1..(n + 1) |-> i] = Append(g \o [i \in 1..n |-> i], n + 1)
  OBVIOUS
<1>2. [i \in 1..n |-> i] \in Seq(Nat)
  OBVIOUS
<1>3. g \o [i \in 1..n |-> i] \in Seq(Nat)
  BY <1>2, ConcatProperties, Zenon
<1>4. n + 1 \in Nat
  OBVIOUS
<1> QED
  BY <1>1, <1>3, <1>4, AppendIsConcat, Zenon

\* A byte that a peer writes is added at the end of its direction.
LEMMA PeerWritesInv ==
    ASSUME Inv, NEW s \in Sock, PeerWrites(s)
    PROVE  Inv'
<1>1. /\ peer[s] = "open" /\ wrote[s] < MaxBytes /\ Len(rx[s]) < RxSize
      /\ wrote' = [wrote EXCEPT ![s] = wrote[s] + 1]
      /\ rx' = [rx EXCEPT ![s] = Append(rx[s], wrote[s] + 1)]
      /\ UNCHANGED <<role, streamState, buf, obj, busy, rd, wr, tx, peer, got, told>>
  BY DEF PeerWrites, reactors
<1>2. PICK d \in Dir : s = Src(d)
  BY Covered
<1>3. wrote[s] \in Nat /\ wrote[s] + 1 \in Byte /\ rx[s] \in Seq(Byte)
  BY <1>1, TunnelAssumption DEF Inv, Types, TypeOK, Byte
<1>4. /\ Append(rx[s], wrote[s] + 1) \in Seq(Byte)
      /\ Len(Append(rx[s], wrote[s] + 1)) <= RxSize
  <2>1. Len(rx[s]) \in Nat
    BY <1>3, LenProperties
  <2> QED
    BY <1>1, <1>3, <2>1, TunnelAssumption, AppendProperties
<1>5. \A e \in Dir : e # d => /\ rx'[Src(e)] = rx[Src(e)]
                              /\ wrote'[Src(e)] = wrote[Src(e)]
  BY <1>1, <1>2, Apart DEF Inv, Types, TypeOK
<1>6. \A e \in Dir : e # d => Stream(e)' = Stream(e) /\ InTransit(e)' = InTransit(e)
  BY <1>1, <1>5 DEF Stream, Greeting, HoldsPeer, InTransit
<1>7. Types'
  <2>1. rx' \in [Sock -> Seq(Byte)] /\ \A q \in Sock : Len(rx'[q]) <= RxSize
    BY <1>1, <1>4 DEF Inv, Types, TypeOK
  <2>2. wrote' \in [Sock -> 0..MaxBytes]
    BY <1>1, <1>3 DEF Inv, Types, TypeOK, Byte
  <2> QED
    BY <1>1, <2>1, <2>2 DEF Inv, Types, TypeOK, Byte
<1>8. Owned' /\ ReceivesIntoEmpty'
  BY <1>1 DEF Inv, Owned, ReceivesIntoEmpty
<1>9. Conservation'
  <2> SUFFICES ASSUME NEW e \in Dir, obj[e] # "gone", peer[Dst(e)] # "aborted"
               PROVE  InTransit(e)' = Stream(e)'
    BY <1>1 DEF Conservation
  <2>1. InTransit(e) = Stream(e)
    BY DEF Inv, Conservation
  <2>2. CASE e = d
    <3>1. Stream(d)' = Stream(d) \o <<wrote[s] + 1>>
      <4>1. Greeting(d) \in Seq(Nat) /\ Greeting(d)' = Greeting(d)
        BY <1>1 DEF Greeting, HoldsPeer
      <4>2. wrote'[Src(d)] = wrote[s] + 1 /\ wrote[Src(d)] = wrote[s]
        BY <1>1, <1>2 DEF Inv, Types, TypeOK
      <4>3. Stream(d)' = Greeting(d) \o [i \in 1..(wrote[s] + 1) |-> i]
        BY <4>1, <4>2 DEF Stream
      <4>4. Stream(d) = Greeting(d) \o [i \in 1..wrote[s] |-> i]
        BY <4>2 DEF Stream
      <4> HIDE DEF Greeting
      <4> QED
        BY <1>3, <4>1, <4>3, <4>4, StreamGrows, Zenon
    <3>2. InTransit(d)' = InTransit(d) \o <<wrote[s] + 1>>
      <4>1. /\ got[Dst(d)] \in Seq(Byte) /\ tx[Dst(d)] \in Seq(Byte)
            /\ buf[d] \in Seq(Byte)
        BY Apart DEF Inv, Types
      <4> DEFINE y == <<wrote[s] + 1>>
      <4>2. y \in Seq(Byte)
        BY <1>3
      <4>3. Append(rx[s], wrote[s] + 1) = rx[s] \o y
        BY <1>3, AppendIsConcat, Zenon
      <4>4. rx'[Src(d)] = rx[s] \o y
        BY <1>1, <1>2, <4>3 DEF Inv, Types
      <4> HIDE DEF y
      <4>5. InTransit(d)' = Line(got[Dst(d)], tx[Dst(d)], buf[d], rx[s] \o y)
        BY <1>1, <4>4 DEF InTransit, Line
      <4>6. InTransit(d) = Line(got[Dst(d)], tx[Dst(d)], buf[d], rx[s])
        BY <1>2 DEF InTransit, Line
      <4>7. Extended(Line(got[Dst(d)], tx[Dst(d)], buf[d], rx[s] \o y),
                     Line(got[Dst(d)], tx[Dst(d)], buf[d], rx[s]), y)
        BY <1>3, <4>1, <4>2, Grown
      <4> QED
        BY <4>5, <4>6, <4>7 DEF Extended, y
    <3> QED
      BY <2>1, <2>2, <3>1, <3>2
  <2> QED
    BY <1>6, <2>1, <2>2
<1>10. Orderly'
  <2>1. (\A q \in Sock : peer[q] # "aborted") => obj[d] # "gone"
    BY <1>1, <1>2 DEF Inv, Orderly
  <2> QED
    BY <1>1, <1>5, <1>6, <2>1 DEF Inv, Orderly
<1> QED
  BY <1>7, <1>8, <1>9, <1>10 DEF Inv

\* A peer that closes its side leaves every byte where it is.
LEMMA PeerClosesInv ==
    ASSUME Inv, NEW s \in Sock, PeerCloses(s)
    PROVE  Inv'
<1>1. /\ peer[s] = "open"
      /\ peer' = [peer EXCEPT ![s] = "fin"]
      /\ UNCHANGED <<role, streamState, buf, obj, busy, rd, wr, rx, tx, wrote, got, told>>
  BY DEF PeerCloses, reactors, sockets
<1>2. \A e \in Dir : Stream(e)' = Stream(e) /\ InTransit(e)' = InTransit(e)
  BY <1>1 DEF Stream, Greeting, HoldsPeer, InTransit
<1>3. \A q \in Sock : /\ peer'[q] = "aborted" <=> peer[q] = "aborted"
                      /\ peer[q] = "fin" => peer'[q] = "fin"
  BY <1>1 DEF Inv, Types, TypeOK
<1>4. Types' /\ Owned' /\ ReceivesIntoEmpty'
  BY <1>1 DEF Inv, Types, TypeOK, Owned, ReceivesIntoEmpty
<1>5. Conservation'
  BY <1>1, <1>2, <1>3, Apart DEF Inv, Conservation
<1>6. Orderly'
  <2> SUFFICES ASSUME \A q \in Sock : peer[q] # "aborted", NEW e \in Dir
               PROVE  /\ obj[e] # "inert"
                      /\ told[Dst(e)] # "reset"
                      /\ obj[e] = "gone" => /\ peer'[Src(e)] = "fin"
                                            /\ rx[Src(e)] = <<>>
                                            /\ got[Dst(e)] \o tx[Dst(e)] = Stream(e)'
                      /\ told[Dst(e)] = "fin" => obj[e] = "gone" /\ tx[Dst(e)] = <<>>
    BY <1>1, <1>3 DEF Orderly
  <2> QED
    BY <1>2, <1>3, Apart, ZenonT(60) DEF Inv, Orderly
<1> QED
  BY <1>4, <1>5, <1>6 DEF Inv

\* A reset loses what waited to be sent to the peer that reset, and nothing else.
LEMMA PeerAbortsInv ==
    ASSUME Inv, NEW s \in Sock, PeerAborts(s)
    PROVE  Inv'
<1>1. /\ peer' = [peer EXCEPT ![s] = "aborted"]
      /\ tx' = [tx EXCEPT ![s] = <<>>]
      /\ UNCHANGED <<role, streamState, buf, obj, busy, rd, wr, rx, wrote, got, told>>
  BY DEF PeerAborts, reactors
<1>2. peer'[s] = "aborted" /\ \A q \in Sock : q # s => peer'[q] = peer[q] /\ tx'[q] = tx[q]
  BY <1>1 DEF Inv, Types, TypeOK
<1>3. <<>> \in Seq(Byte) /\ Len(<<>>) <= TxSize
  BY TunnelAssumption, EmptySeq
<1>4. Types'
  <2>1. tx' \in [Sock -> Seq(Byte)] /\ peer' \in [Sock -> {"open", "fin", "aborted"}]
    BY <1>1, <1>3 DEF Inv, Types, TypeOK
  <2>2. \A q \in Sock : Len(tx'[q]) <= TxSize
    <3>1. tx'[s] = <<>>
      BY <1>1 DEF Inv, Types
    <3> QED
      BY <1>2, <1>3, <3>1 DEF Inv, Types, TypeOK
  <2> QED
    BY <1>1, <2>1, <2>2 DEF Inv, Types, TypeOK, Byte
<1>5. Owned' /\ ReceivesIntoEmpty' /\ Orderly'
  BY <1>1, <1>2 DEF Inv, Owned, ReceivesIntoEmpty, Orderly
<1>6. Conservation'
  BY <1>1, <1>2, Apart DEF Inv, Conservation, InTransit, Stream, Greeting, HoldsPeer
<1> QED
  BY <1>4, <1>5, <1>6 DEF Inv

\* A byte that a peer reads stays in its place in the stream.
LEMMA PeerReadsInv ==
    ASSUME Inv, NEW s \in Sock, PeerReads(s)
    PROVE  Inv'
<1>1. /\ peer[s] # "aborted" /\ tx[s] # <<>>
      /\ got' = [got EXCEPT ![s] = Append(got[s], Head(tx[s]))]
      /\ tx' = [tx EXCEPT ![s] = Tail(tx[s])]
      /\ UNCHANGED <<role, streamState, buf, obj, busy, rd, wr, rx, peer, wrote, told>>
  BY DEF PeerReads, reactors
<1>2. PICK d \in Dir : s = Dst(d)
  BY Covered
<1>3. got[s] \in Seq(Byte) /\ tx[s] \in Seq(Byte) /\ Len(tx[s]) \in Nat /\ Len(tx[s]) <= TxSize
  BY LenProperties DEF Inv, Types, TypeOK
<1> DEFINE g == Append(got[s], Head(tx[s]))
           t == Tail(tx[s])
<1>4. g \in Seq(Byte) /\ t \in Seq(Byte) /\ Len(t) = Len(tx[s]) - 1 /\ g \o t = got[s] \o tx[s]
  BY <1>1, <1>3, ShiftOne, Zenon
<1>5. ASSUME NEW u \in Seq(Byte), NEW v \in Seq(Byte)
      PROVE  Line(g, t, u, v) = Line(got[s], tx[s], u, v)
  BY <1>1, <1>3, MovedOn
<1> HIDE DEF g, t
<1>6. got' = [got EXCEPT ![s] = g] /\ tx' = [tx EXCEPT ![s] = t]
  BY <1>1 DEF g, t
<1>7. /\ got'[Dst(d)] = g /\ tx'[Dst(d)] = t
      /\ \A e \in Dir : e # d => got'[Dst(e)] = got[Dst(e)] /\ tx'[Dst(e)] = tx[Dst(e)]
  BY <1>2, <1>6, Apart DEF Inv, Types
<1>8. \A e \in Dir : Stream(e)' = Stream(e)
  BY <1>1 DEF Stream, Greeting, HoldsPeer
<1>9. Types'
  <2>1. got' \in [Sock -> Seq(Byte)] /\ tx' \in [Sock -> Seq(Byte)]
    BY <1>4, <1>6 DEF Inv, Types
  <2>2. \A q \in Sock : Len(tx'[q]) <= TxSize
    <3>1. \A q \in Sock : tx'[q] = IF q = s THEN t ELSE tx[q]
      BY <1>6 DEF Inv, Types
    <3>2. Len(t) <= TxSize
      BY <1>3, <1>4, TunnelAssumption
    <3> QED
      BY <3>1, <3>2 DEF Inv, Types, TypeOK
  <2> QED
    BY <1>1, <2>1, <2>2 DEF Inv, Types, TypeOK, Byte
<1>10. Owned' /\ ReceivesIntoEmpty'
  BY <1>1 DEF Inv, Owned, ReceivesIntoEmpty
<1>11. Conservation'
  <2> SUFFICES ASSUME NEW e \in Dir, obj[e] # "gone", peer[Dst(e)] # "aborted"
               PROVE  InTransit(e)' = InTransit(e)
    BY <1>1, <1>8 DEF Inv, Conservation
  <2>1. CASE e = d
    <3>1. buf[d] \in Seq(Byte) /\ rx[Src(d)] \in Seq(Byte)
      BY Apart DEF Inv, Types
    <3>2. InTransit(d)' = Line(g, t, buf[d], rx[Src(d)])
      BY <1>1, <1>7 DEF InTransit, Line
    <3>3. InTransit(d) = Line(got[s], tx[s], buf[d], rx[Src(d)])
      BY <1>2 DEF InTransit, Line
    <3> QED
      BY <1>5, <2>1, <3>1, <3>2, <3>3, Zenon
  <2>2. CASE e # d
    BY <1>1, <1>7, <2>2 DEF InTransit
  <2> QED
    BY <2>1, <2>2
<1>12. Orderly'
  <2> SUFFICES ASSUME \A q \in Sock : peer[q] # "aborted", NEW e \in Dir
               PROVE  /\ obj[e] # "inert"
                      /\ told[Dst(e)] # "reset"
                      /\ obj[e] = "gone" => /\ peer[Src(e)] = "fin"
                                            /\ rx[Src(e)] = <<>>
                                            /\ got'[Dst(e)] \o tx'[Dst(e)] = Stream(e)'
                      /\ told[Dst(e)] = "fin" => obj[e] = "gone" /\ tx'[Dst(e)] = <<>>
    BY <1>1 DEF Orderly
  <2>1. got'[Dst(e)] \o tx'[Dst(e)] = got[Dst(e)] \o tx[Dst(e)]
    BY <1>2, <1>4, <1>7
  <2>2. told[Dst(e)] = "fin" => e # d
    BY <1>1, <1>2 DEF Inv, Orderly
  <2> QED
    BY <1>7, <1>8, <2>1, <2>2 DEF Inv, Orderly
<1> QED
  BY <1>9, <1>10, <1>11, <1>12 DEF Inv

\* A peer reads the FIN once the writing descriptor is closed and the last byte read.
LEMMA PeerReadsFinInv ==
    ASSUME Inv, NEW s \in Sock, PeerReadsFin(s)
    PROVE  Inv'
<1>1. /\ tx[s] = <<>> /\ ~wr[s]
      /\ told' = [told EXCEPT ![s] = "fin"]
      /\ UNCHANGED <<role, streamState, buf, obj, busy, rd, wr, rx, tx, peer, wrote, got>>
  BY DEF PeerReadsFin, reactors, sockets
<1>2. PICK d \in Dir : s = Dst(d)
  BY Covered
<1>3. obj[d] = "gone" /\ told'[Dst(d)] = "fin"
  BY <1>1, <1>2 DEF Inv, Types, TypeOK, Owned
<1>4. \A e \in Dir : e # d => told'[Dst(e)] = told[Dst(e)]
  BY <1>1, <1>2, Apart DEF Inv, Types, TypeOK
<1>5. \A e \in Dir : Stream(e)' = Stream(e) /\ InTransit(e)' = InTransit(e)
  BY <1>1 DEF Stream, Greeting, HoldsPeer, InTransit
<1>6. Types' /\ Owned' /\ ReceivesIntoEmpty'
  BY <1>1 DEF Inv, Types, TypeOK, Owned, ReceivesIntoEmpty
<1>7. Conservation' /\ Orderly'
  BY <1>1, <1>2, <1>3, <1>4, <1>5, ZenonT(60) DEF Inv, Conservation, Orderly
<1> QED
  BY <1>6, <1>7 DEF Inv

-----------------------------------------------------------------------------

\* Streaming starts with the client's first bytes spread over the queues in order.
LEMMA InitInv == Init => Inv
<1> SUFFICES ASSUME Init PROVE Inv
  OBVIOUS
<1>1. PICK n \in 0..MaxBytes, k \in 0..TxSize, m \in 0..RxSize :
        /\ k + m <= n /\ n - k - m <= BufSize
        /\ wrote = [s \in Sock |-> IF s = "client" THEN n ELSE 0]
        /\ tx = [s \in Sock |-> IF s = "server" THEN [i \in 1..k |-> i] ELSE <<>>]
        /\ buf = [d \in Dir |-> IF d = "up" THEN [i \in 1..(n - k - m) |-> k + i]
                                            ELSE Greeting(d)]
        /\ rx = [s \in Sock |-> IF s = "client" THEN [i \in 1..m |-> n - m + i] ELSE <<>>]
  BY DEF Init
<1> DEFINE a == [i \in 1..k |-> i]
           b == [i \in 1..(n - k - m) |-> k + i]
           c == [i \in 1..m |-> n - m + i]
           w == [i \in 1..n |-> i]
<1>2. /\ k \in Nat /\ m \in Nat /\ n \in Nat /\ n <= MaxBytes
      /\ k <= TxSize /\ m <= RxSize /\ n - k - m \in Nat
  BY <1>1, TunnelAssumption
<1>3. /\ a \in Seq(Byte) /\ Len(a) = k
      /\ b \in Seq(Byte) /\ Len(b) = n - k - m
      /\ c \in Seq(Byte) /\ Len(c) = m
      /\ w \in Seq(Byte) /\ Len(w) = n
  BY <1>1, <1>2, TunnelAssumption DEF Byte
<1>4. /\ Greeting("up") = <<>>
      /\ Greeting("down") \in Seq(Byte) /\ Len(Greeting("down")) <= BufSize
      /\ <<>> \in Seq(Byte) /\ Len(<<>>) = 0
  <2>1. <<>> \in Seq(Byte) /\ Len(<<>>) = 0
    BY EmptySeq
  <2>2. <<0>> \in Seq(Byte) /\ Len(<<0>>) = 1
    BY TunnelAssumption DEF Byte
  <2>3. 1 <= BufSize /\ 0 <= BufSize
    BY TunnelAssumption
  <2>4. Greeting("up") = <<>> /\ (Greeting("down") = <<>> \/ Greeting("down") = <<0>>)
    BY DEF Greeting
  <2> QED
    BY <2>1, <2>2, <2>3, <2>4
<1>5. /\ got = [s \in Sock |-> <<>>] /\ told = [s \in Sock |-> "no"]
      /\ obj = [d \in Dir |-> "running"] /\ busy = "none" /\ role \in Roles
      /\ rd = [s \in Sock |-> TRUE] /\ wr = [s \in Sock |-> TRUE]
      /\ streamState = [d \in Dir |-> IF buf[d] = <<>> THEN "receiving" ELSE "sending"]
      /\ peer \in [Sock -> {"open", "fin", "aborted"}]
  <2>1. PICK p \in {"open", "fin", "aborted"} :
            peer = [s \in Sock |-> IF s = "client" THEN p ELSE "open"]
    BY DEF Init
  <2> QED
    BY <2>1 DEF Init
<1>6. /\ wrote["client"] = n /\ wrote["server"] = 0
      /\ tx["server"] = a /\ tx["client"] = <<>>
      /\ rx["client"] = c /\ rx["server"] = <<>>
      /\ buf["up"] = b /\ buf["down"] = Greeting("down")
      /\ got["client"] = <<>> /\ got["server"] = <<>>
  BY <1>1, <1>5 DEF Sock, Dir
<1>7. /\ tx \in [Sock -> Seq(Byte)] /\ rx \in [Sock -> Seq(Byte)]
      /\ buf \in [Dir -> Seq(Byte)] /\ got \in [Sock -> Seq(Byte)]
      /\ wrote \in [Sock -> 0..MaxBytes]
  <2> HIDE DEF a, b, c, w
  <2>1. /\ tx = [s \in Sock |-> IF s = "server" THEN a ELSE <<>>]
        /\ buf = [d \in Dir |-> IF d = "up" THEN b ELSE Greeting(d)]
        /\ rx = [s \in Sock |-> IF s = "client" THEN c ELSE <<>>]
    BY <1>1 DEF a, b, c
  <2> QED
    <3>1. \A d \in Dir : d # "up" => d = "down"
      BY DEF Dir
    <3>2. buf \in [Dir -> Seq(Byte)]
      BY <1>3, <1>4, <2>1, <3>1
    <3>3. tx \in [Sock -> Seq(Byte)] /\ rx \in [Sock -> Seq(Byte)]
      BY <1>3, <1>4, <2>1
    <3>4. got \in [Sock -> Seq(Byte)]
      BY <1>4, <1>5
    <3>5. wrote \in [Sock -> 0..MaxBytes]
      BY <1>1, <1>2, TunnelAssumption
    <3> QED
      BY <3>2, <3>3, <3>4, <3>5
<1> HIDE DEF a, b, c, w
<1>8. Types
  <2>1. /\ \A d \in Dir : Len(buf[d]) <= BufSize
        /\ \A s \in Sock : Len(rx[s]) <= RxSize /\ Len(tx[s]) <= TxSize
    BY <1>1, <1>2, <1>3, <1>4, <1>6, TunnelAssumption DEF Sock, Dir
  <2> QED
    BY <1>5, <1>7, <2>1 DEF Types, TypeOK, Byte
<1>9. Owned /\ ReceivesIntoEmpty /\ Orderly
  BY <1>5, Apart DEF Owned, ReceivesIntoEmpty, Orderly
<1>10. Conservation
  <2>1. InTransit("up") = Stream("up")
    <3>1. a \o b \o c = w
      BY <1>2, <1>3, ConcatProperties, SeqEqual DEF a, b, c, w
    <3>2. InTransit("up") = <<>> \o a \o b \o c /\ Stream("up") = <<>> \o w
      BY <1>4, <1>6 DEF InTransit, Stream, Src, Dst, w
    <3>3. <<>> \o a = a /\ <<>> \o w = w
      BY <1>3, ConcatEmptySeq
    <3> QED
      BY <3>1, <3>2, <3>3
  <2>2. InTransit("down") = Stream("down")
    <3>1. InTransit("down") = <<>> \o <<>> \o Greeting("down") \o <<>>
      BY <1>6 DEF InTransit, Src, Dst
    <3>2. Stream("down") = Greeting("down") \o <<>>
      <4>1. [i \in 1..0 |-> i] = <<>>
        OBVIOUS
      <4>2. Stream("down") = Greeting("down") \o [i \in 1..0 |-> i]
        BY <1>6 DEF Stream, Src
      <4> QED
        BY <4>1, <4>2
    <3>3. <<>> \o <<>> = <<>>
      BY <1>4, ConcatEmptySeq
    <3>4. <<>> \o Greeting("down") = Greeting("down")
      BY <1>4, ConcatEmptySeq
    <3> QED
      BY <3>1, <3>2, <3>3, <3>4
  <2> QED
    BY <2>1, <2>2 DEF Conservation, Dir
<1> QED
  BY <1>8, <1>9, <1>10 DEF Inv

\* Every step of a reactor or of a peer keeps the invariant.
LEMMA NextInv == Inv /\ [Next]_vars => Inv'
<1> SUFFICES ASSUME Inv, [Next]_vars PROVE Inv'
  OBVIOUS
<1>1. ASSUME NEW d \in Dir, Step(d) PROVE Inv'
  <2>1. ASSUME RecvFails(d) PROVE Inv'
    BY <2>1, FailInv, Apart DEF RecvFails, InProcess
  <2>2. ASSUME SendFails(d) PROVE Inv'
    <3>1. obj[d] = "running" /\ \E s \in Sock : peer[s] = "aborted"
      BY <2>2, Apart DEF SendFails, InSend
    <3>2. CASE Gone(d)
      BY <3>1, <3>2, GoneInv
    <3>3. CASE Fail(d)
      BY <3>1, <3>3, FailInv
    <3> QED
      BY <2>2, <3>2, <3>3 DEF SendFails
  <2> QED
    BY <1>1, <2>1, <2>2, ReceiveInv, EndOfStreamInv, SendInv, SendBlocksInv DEF Step
<1>2. CASE UNCHANGED vars
  <2>1. UNCHANGED <<role, streamState, buf, obj, busy, rd, wr, rx, tx, peer, wrote, got, told>>
    BY <1>2 DEF vars, reactors, sockets, peers
  <2>2. \A e \in Dir : Stream(e)' = Stream(e) /\ InTransit(e)' = InTransit(e)
    BY <2>1 DEF Stream, Greeting, HoldsPeer, InTransit
  <2>3. Types' /\ Owned' /\ ReceivesIntoEmpty'
    BY <2>1 DEF Inv, Types, TypeOK, Owned, ReceivesIntoEmpty
  <2>4. Conservation' /\ Orderly'
    BY <2>1, <2>2 DEF Inv, Conservation, Orderly
  <2> QED
    BY <2>3, <2>4 DEF Inv
<1> QED
  BY <1>1, <1>2, PeerWritesInv, PeerClosesInv, PeerAbortsInv, PeerReadsInv, PeerReadsFinInv
     DEF Next

\* The inductive invariant of the tunnel holds in every reachable state.
THEOREM TunnelInvariant == Spec => []Inv
  BY InitInv, NextInv, PTL DEF Spec

\* The types of the tunnel's state (streamreactor.hh, socket.hh).
THEOREM TunnelTypeCorrect == Spec => []TypeOK
<1>1. Inv => TypeOK
  BY DEF Inv, Types
<1> QED
  BY <1>1, TunnelInvariant, PTL

(***************************************************************************)
(* StreamReactor::process loses, duplicates and reorders nothing: what was *)
(* read, buffered and waits is what the other peer wrote, for buffers of   *)
(* any size and any number of bytes.                                       *)
(***************************************************************************)
THEOREM TunnelConserves == Spec => []Conservation
<1>1. Inv => Conservation
  BY DEF Inv
<1> QED
  BY <1>1, TunnelInvariant, PTL

\* StreamReactor::process receives into an empty buffer only, so that a recv of
\* 0 bytes is the end of the stream.
THEOREM TunnelReceivesIntoEmpty == Spec => []ReceivesIntoEmpty
<1>1. Inv => ReceivesIntoEmpty
  BY DEF Inv
<1> QED
  BY <1>1, TunnelInvariant, PTL

(***************************************************************************)
(* While no peer aborts, the FIN that a closed descriptor sends comes      *)
(* behind everything that the other peer wrote before it closed, and no    *)
(* peer sees a reset.                                                      *)
(***************************************************************************)
THEOREM TunnelFinMeansComplete == Spec => []FinMeansComplete
<1>1. ASSUME Inv PROVE FinMeansComplete
  <2> SUFFICES ASSUME \A s \in Sock : peer[s] # "aborted", NEW d \in Dir
               PROVE  /\ told[Dst(d)] # "reset"
                      /\ told[Dst(d)] = "fin" => /\ peer[Src(d)] = "fin"
                                                 /\ got[Dst(d)] = Stream(d)
    BY DEF FinMeansComplete
  <2>1. got[Dst(d)] \o <<>> = got[Dst(d)]
    BY <1>1, Apart, ConcatEmptySeq DEF Inv, Types
  <2> QED
    BY <1>1, <2>1 DEF Inv, Orderly
<1> QED
  BY <1>1, TunnelInvariant, PTL

=============================================================================
