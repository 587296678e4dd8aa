------------------------- MODULE StreamBufferProofs -------------------------
(***************************************************************************)
(* Proofs that the indices of a stream buffer stay inside its array, for   *)
(* any size of the buffer, the headroom and the requests, and that it      *)
(* implements a queue of bytes as long as a request's length fits the      *)
(* parameter that prepend takes it in.                                     *)
(***************************************************************************)
EXTENDS StreamBuffer, SequenceTheorems, TLAPS

USE SizeAssumption

\* The length of the data is a natural number, so unsigned arithmetic on the
\* indices does not wrap.
LEMMA UsedIsNat ==
    ASSUME IInv
    PROVE  usedSize \in Nat /\ availSize \in Nat /\ usedSize <= BufSize
BY DEF IInv, TypeOK, InBounds, usedSize, availSize

\* What the array holds from the head on is a sequence of bytes.
LEMMA ContentsType ==
    ASSUME IInv
    PROVE  Contents \in Seq(Int) /\ Len(Contents) = usedSize
<1>1. usedSize \in Nat
  BY UsedIsNat
<1>2. \A i \in 1..usedSize : buf[head + i - 1] \in Int
  BY DEF IInv, TypeOK, InBounds, usedSize
<1> QED
  BY <1>1, <1>2 DEF Contents

\* The same after a step.
LEMMA ContentsTypeNext ==
    ASSUME IInv'
    PROVE  Contents' \in Seq(Int) /\ Len(Contents') = usedSize'
<1> DEFINE h == head'
           t == tail'
           b == buf'
<1>1. /\ h \in Nat /\ t \in Nat /\ h <= t /\ t <= BufSize
      /\ b \in [0..(BufSize - 1) -> Int]
  BY DEF IInv, TypeOK, InBounds
<1>2. Contents' = [i \in 1..(t - h) |-> b[h + i - 1]] /\ usedSize' = t - h
  BY DEF Contents, usedSize
<1> HIDE DEF h, t, b
<1>3. \A i \in 1..(t - h) : b[h + i - 1] \in Int
  BY <1>1
<1> QED
  BY <1>1, <1>2, <1>3

\* Moving the data to an index from which it fits keeps the array's type.
LEMMA MovedType ==
    ASSUME IInv, NEW to \in Nat, to >= head, to + usedSize <= BufSize
    PROVE  Moved(to) \in [0..(BufSize - 1) -> Int]
BY DEF Moved, IInv, TypeOK, InBounds, usedSize

\* recv and use keep the indices inside the array.
LEMMA RecvStep ==
    ASSUME IInv, NEW n \in 1..BufSize, Recv(n)
    PROVE  IInv'
BY DEF Recv, availSize, IInv, TypeOK, InBounds, EmptyIsLow

\* unuse keeps them there, and goes back to index 0 with an empty buffer.
LEMMA UnuseStep ==
    ASSUME IInv, NEW n \in 1..BufSize, Unuse(n)
    PROVE  IInv'
<1>1. out' \in Seq(Int)
  <2>1. n \in 1..Len(Contents) /\ Contents \in Seq(Int)
    BY ContentsType DEF Unuse, usedSize
  <2>2. SubSeq(Contents, 1, n) \in Seq(Int)
    BY <2>1
  <2> QED
    BY <2>2 DEF Unuse, IInv, TypeOK
<1>2. CASE head + n = tail
  <2>1. head' = 0 /\ tail' = 0 /\ UNCHANGED <<buf, in, fronted>>
    BY <1>2 DEF Unuse
  <2> QED
    BY <1>1, <2>1 DEF IInv, TypeOK, InBounds, EmptyIsLow
<1>3. CASE head + n # tail
  <2>1. head' = head + n /\ UNCHANGED <<buf, tail, in, fronted>> /\ n <= tail - head
    BY <1>3 DEF Unuse, usedSize
  <2> QED
    BY <1>1, <1>3, <2>1 DEF IInv, TypeOK, InBounds, EmptyIsLow
<1> QED
  BY <1>2, <1>3

\* makeHeadroom keeps them there: it throws when the data would not fit.
LEMMA MakeHeadroomStep ==
    ASSUME IInv, MakeHeadroom
    PROVE  IInv'
<1>1. buf' \in [0..(BufSize - 1) -> Int]
  BY MovedType DEF MakeHeadroom, HasRoom, usedSize, IInv, TypeOK, InBounds
<1> QED
  BY <1>1 DEF MakeHeadroom, HasRoom, usedSize, IInv, TypeOK, InBounds, EmptyIsLow

\* prepend keeps them there, whatever its size parameter is cut down to.
LEMMA PrependStep ==
    ASSUME IInv, NEW len \in RequestLen, Prepend(len)
    PROVE  IInv'
<1> DEFINE size == len % SizeMod
           start == IF size > head THEN size ELSE head
<1>1. len \in Nat /\ size \in Nat /\ size <= len
  BY SMTT(30)
<1> HIDE DEF size
<1>2. /\ start \in Nat /\ start >= head /\ start >= size
      /\ start + usedSize <= BufSize
  <2>1. HasRoom(size)
    BY DEF Prepend, size
  <2>2. head \in Nat /\ tail \in Nat /\ head <= tail /\ tail <= BufSize
    BY DEF IInv, TypeOK, InBounds
  <2>3. CASE size > head
    BY <1>1, <2>1, <2>2, <2>3 DEF HasRoom, usedSize
  <2>4. CASE ~(size > head)
    BY <1>1, <2>1, <2>2, <2>4 DEF HasRoom, usedSize
  <2> QED
    BY <2>3, <2>4
<1>3. Moved(start) \in [0..(BufSize - 1) -> Int]
  BY <1>2, MovedType
<1>4. /\ head' = start - size
      /\ tail' = start + usedSize
      /\ fronted' = len
      /\ UNCHANGED <<in, out>>
  BY DEF Prepend, size
<1>5. buf' \in [0..(BufSize - 1) -> Int]
  <2>1. \A i \in 0..(BufSize - 1) :
           (start - size <= i /\ i < start) =>
               Request(len)[i - (start - size) + 1] \in Int
    BY <1>1, <1>2 DEF Request
  <2>2. buf' = [i \in 0..(BufSize - 1) |->
                  IF start - size <= i /\ i < start
                     THEN Request(len)[i - (start - size) + 1]
                     ELSE Moved(start)[i]]
    BY DEF Prepend, size, IInv, TypeOK
  <2> QED
    BY <1>3, <2>1, <2>2
<1>6. InBounds' /\ EmptyIsLow'
  BY <1>1, <1>2, <1>4 DEF usedSize, IInv, TypeOK, InBounds, EmptyIsLow
<1> QED
  BY <1>1, <1>2, <1>4, <1>5, <1>6 DEF usedSize, IInv, TypeOK, InBounds

\* The indices never leave the array, in whatever order the calls come.
THEOREM StreamBufferInvariant == Spec => []IInv
<1>1. Init => IInv
  BY DEF Init, IInv, TypeOK, InBounds, EmptyIsLow
<1>2. IInv /\ [Next]_vars => IInv'
  <2> SUFFICES ASSUME IInv, [Next]_vars PROVE IInv'
    OBVIOUS
  <2>1. CASE UNCHANGED vars
    BY <2>1 DEF vars, IInv, TypeOK, InBounds, EmptyIsLow
  <2>2. CASE Next
    BY <2>2, RecvStep, UnuseStep, MakeHeadroomStep, PrependStep DEF Next
  <2> QED
    BY <2>1, <2>2
<1> QED
  BY <1>1, <1>2, PTL DEF Spec

\* usedSize() and availSize() never wrap and cover bytes of the array only
\* (streambuffer.hh:19-47).
THEOREM StreamBufferInBounds == Spec => []InBounds
BY StreamBufferInvariant, PTL DEF IInv

\* The cells, the two pointers and the counters stay what their declarations in
\* streambuffer.hh say, through every recv, unuse, makeHeadroom and prepend.
THEOREM StreamBufferTypeCorrect == Spec => []TypeOK
BY StreamBufferInvariant, PTL DEF IInv

\* An empty buffer has room, so a recv into it that returns 0 means the end of
\* the stream (streamreactor.cc:14-26).
THEOREM StreamBufferEmptyHasRoom == Spec => []EmptyHasRoom
<1>1. IInv => EmptyHasRoom
  BY DEF IInv, TypeOK, InBounds, EmptyIsLow, EmptyHasRoom, usedSize, availSize
<1> QED
  BY <1>1, StreamBufferInvariant, PTL
-----------------------------------------------------------------------------
(***************************************************************************)
(* The refinement: each call on the array is a step of the queue that the  *)
(* array represents, or leaves it alone.                                   *)
(***************************************************************************)

\* The lengths that prepend's parameter can represent.
ShortRequests == \A len \in RequestLen : len < SizeMod

\* A sequence that has the bytes of s and then those of t is their concatenation.
LEMMA IsConcat ==
    ASSUME NEW s \in Seq(Int), NEW t \in Seq(Int), NEW u \in Seq(Int),
           Len(u) = Len(s) + Len(t),
           \A i \in 1..Len(u) : u[i] = IF i <= Len(s) THEN s[i] ELSE t[i - Len(s)]
    PROVE  u = s \o t
<1>1. /\ s \o t \in Seq(Int)
      /\ Len(s \o t) = Len(s) + Len(t)
      /\ \A i \in 1..(Len(s) + Len(t)) :
            (s \o t)[i] = IF i <= Len(s) THEN s[i] ELSE t[i - Len(s)]
  BY ConcatProperties
<1>2. \A i \in 1..Len(u) : u[i] = (s \o t)[i]
  BY <1>1
<1>3. Len(u) = Len(s \o t)
  BY <1>1
<1> QED
  BY <1>1, <1>2, <1>3, SeqEqual, Zenon

\* A sequence that has the bytes of s from n + 1 on is the rest of s.
LEMMA IsRest ==
    ASSUME NEW s \in Seq(Int), NEW u \in Seq(Int), NEW n \in 0..Len(s),
           Len(u) = Len(s) - n,
           \A i \in 1..Len(u) : u[i] = s[n + i]
    PROVE  u = SubSeq(s, n + 1, Len(s))
<1>1. /\ SubSeq(s, n + 1, Len(s)) \in Seq(Int)
      /\ Len(SubSeq(s, n + 1, Len(s))) = Len(s) - n
      /\ \A i \in 1..(Len(s) - n) : SubSeq(s, n + 1, Len(s))[i] = s[n + i]
  <2>1. \A i \in (n + 1)..Len(s) : s[i] \in Int
    OBVIOUS
  <2>2. /\ SubSeq(s, n + 1, Len(s)) \in Seq(Int)
        /\ Len(SubSeq(s, n + 1, Len(s)))
             = IF n + 1 <= Len(s) THEN Len(s) - (n + 1) + 1 ELSE 0
        /\ \A i \in 1..(Len(s) - (n + 1) + 1) :
              SubSeq(s, n + 1, Len(s))[i] = s[(n + 1) + i - 1]
    BY <2>1, SubSeqProperties
  <2>3. /\ Len(s) \in Nat /\ Len(s) - (n + 1) + 1 = Len(s) - n
        /\ (IF n + 1 <= Len(s) THEN Len(s) - (n + 1) + 1 ELSE 0) = Len(s) - n
        /\ \A i \in 1..(Len(s) - n) : (n + 1) + i - 1 = n + i
    OBVIOUS
  <2> QED
    BY <2>2, <2>3
<1>2. \A i \in 1..Len(u) : u[i] = SubSeq(s, n + 1, Len(s))[i]
  BY <1>1
<1> QED
  BY <1>1, <1>2, SeqEqual, Zenon

\* recv and use put bytes at the end of the queue.
LEMMA RecvIsPut ==
    ASSUME IInv, NEW n \in 1..BufSize, Recv(n)
    PROVE  Queue!Put
<1> DEFINE new == [i \in 1..n |-> in + i]
<1>1. n \in 1..(MaxIn - in) /\ in' = in + n /\ UNCHANGED out
  BY DEF Recv, IInv, TypeOK
<1>2. new \in Seq(Int) /\ Len(new) = n
  BY DEF IInv, TypeOK
<1>3. IInv'
  BY RecvStep
<1>4. Contents' = Contents \o new
  <2>1. /\ Contents \in Seq(Int) /\ Len(Contents) = usedSize
        /\ Contents' \in Seq(Int) /\ Len(Contents') = usedSize'
    BY <1>3, ContentsType, ContentsTypeNext
  <2>2. usedSize' = usedSize + n /\ usedSize \in Nat
    BY UsedIsNat DEF Recv, usedSize, IInv, TypeOK
  <2>4. ASSUME NEW i \in 1..(usedSize + n)
        PROVE  Contents'[i] = IF i <= usedSize THEN Contents[i] ELSE new[i - usedSize]
    <3>1. Contents'[i] = buf'[head + i - 1]
      BY <2>2 DEF Contents, Recv
    <3>2. head + i - 1 \in 0..(BufSize - 1)
      BY DEF Recv, availSize, usedSize, IInv, TypeOK, InBounds
    <3>3. CASE i <= usedSize
      BY <2>2, <3>1, <3>2, <3>3 DEF Contents, Recv, usedSize, IInv, TypeOK
    <3>4. CASE i > usedSize
      BY <2>2, <3>1, <3>2, <3>4 DEF Recv, usedSize, IInv, TypeOK
    <3> QED
      BY <2>2, <3>3, <3>4
  <2> HIDE DEF new
  <2>5. /\ Len(Contents') = Len(Contents) + Len(new)
        /\ \A i \in 1..Len(Contents') :
              Contents'[i] = IF i <= Len(Contents) THEN Contents[i] ELSE new[i - Len(Contents)]
    BY <1>2, <2>1, <2>2, <2>4
  <2> QED
    BY <1>2, <2>1, <2>5, IsConcat
<1> QED
  BY <1>1, <1>4 DEF Queue!Put

\* unuse takes bytes from the front of the queue.
LEMMA UnuseIsTake ==
    ASSUME IInv, NEW n \in 1..BufSize, Unuse(n)
    PROVE  Queue!Take
<1>1. /\ Contents \in Seq(Int) /\ Len(Contents) = usedSize
      /\ usedSize \in Nat /\ n \in 1..usedSize
  BY ContentsType, UsedIsNat DEF Unuse
<1>2. Contents' \in Seq(Int) /\ Len(Contents') = usedSize'
  BY UnuseStep, ContentsTypeNext
<1>3. usedSize' = usedSize - n
  BY DEF Unuse, usedSize, IInv, TypeOK
<1>4. ASSUME NEW i \in 1..(usedSize - n)
      PROVE  Contents'[i] = Contents[n + i]
  <2>1. head + n # tail
    BY <1>1 DEF usedSize, IInv, TypeOK
  <2>2. head' = head + n /\ buf' = buf
    BY <2>1 DEF Unuse
  <2>3. Contents'[i] = buf[(head + n) + i - 1]
    BY <1>3, <2>2 DEF Contents
  <2>4. Contents[n + i] = buf[head + (n + i) - 1]
    BY <1>1 DEF Contents
  <2>5. (head + n) + i - 1 = head + (n + i) - 1
    BY <1>1 DEF IInv, TypeOK
  <2> QED
    BY <2>3, <2>4, <2>5
<1>5. /\ Len(Contents') = Len(Contents) - n
      /\ \A i \in 1..Len(Contents') : Contents'[i] = Contents[n + i]
  BY <1>1, <1>2, <1>3, <1>4
<1>6. Contents' = SubSeq(Contents, n + 1, usedSize)
  <2>1. n \in 0..Len(Contents)
    BY <1>1
  <2>2. Contents' = SubSeq(Contents, n + 1, Len(Contents))
    BY <1>1, <1>2, <1>5, <2>1, IsRest
  <2> QED
    BY <1>1, <2>2
<1> QED
  BY <1>1, <1>6 DEF Queue!Take, Unuse

\* makeHeadroom moves the bytes and leaves the queue as it is.
LEMMA MakeHeadroomIsStutter ==
    ASSUME IInv, MakeHeadroom
    PROVE  UNCHANGED <<Contents, in, out>>
<1>1. usedSize' = usedSize /\ usedSize \in Nat
  BY UsedIsNat DEF MakeHeadroom, usedSize, IInv, TypeOK
<1>2. ASSUME NEW i \in 1..usedSize
      PROVE  buf'[head' + i - 1] = buf[head + i - 1]
  <2>1. /\ Headroom + i - 1 \in 0..(BufSize - 1)
        /\ Headroom <= Headroom + i - 1 /\ Headroom + i - 1 < Headroom + usedSize
    BY <1>1 DEF MakeHeadroom, HasRoom
  <2> QED
    BY <1>1, <2>1 DEF MakeHeadroom, Moved, IInv, TypeOK
<1>3. Contents' = Contents
  BY <1>1, <1>2 DEF Contents
<1> QED
  BY <1>3 DEF MakeHeadroom

\* prepend puts the whole request in front of the queue.
LEMMA PrependIsFront ==
    ASSUME IInv, ShortRequests, NEW len \in RequestLen, Prepend(len)
    PROVE  Queue!Front
<1> DEFINE start == IF len > head THEN len ELSE head
<1>1. len \in Nat /\ len % SizeMod = len
  BY SMTT(30) DEF ShortRequests
<1>2. /\ HasRoom(len)
      /\ buf' = [i \in DOMAIN buf |->
                   IF start - len <= i /\ i < start
                      THEN Request(len)[i - (start - len) + 1]
                      ELSE Moved(start)[i]]
      /\ head' = start - len
      /\ tail' = start + usedSize
      /\ UNCHANGED <<in, out>>
  BY <1>1 DEF Prepend
<1>3. /\ start \in Nat /\ start >= head /\ start >= len
      /\ usedSize \in Nat /\ start + usedSize <= BufSize
  <2>1. HasRoom(len)
    BY <1>2
  <2>2. head \in Nat /\ tail \in Nat /\ head <= tail /\ tail <= BufSize
    BY DEF IInv, TypeOK, InBounds
  <2>3. CASE len > head
    BY <1>1, <2>1, <2>2, <2>3 DEF HasRoom, usedSize
  <2>4. CASE ~(len > head)
    BY <1>1, <2>1, <2>2, <2>4 DEF HasRoom, usedSize
  <2> QED
    BY <2>3, <2>4
<1> HIDE DEF start
<1>4. /\ Request(len) \in Seq(Int) /\ Len(Request(len)) = len
      /\ Contents \in Seq(Int) /\ Len(Contents) = usedSize
      /\ Contents' \in Seq(Int) /\ Len(Contents') = usedSize'
  BY <1>1, ContentsType, PrependStep, ContentsTypeNext DEF Request
<1>5. usedSize' = len + usedSize
  BY <1>1, <1>2, <1>3 DEF usedSize
<1>6. ASSUME NEW i \in 1..(len + usedSize)
      PROVE  Contents'[i] = IF i <= len THEN Request(len)[i] ELSE Contents[i - len]
  <2>1. Contents'[i] = buf'[start - len + i - 1]
    BY <1>2, <1>5 DEF Contents
  <2>2. start - len + i - 1 \in 0..(BufSize - 1) /\ DOMAIN buf = 0..(BufSize - 1)
    BY <1>1, <1>3 DEF IInv, TypeOK
  <2>3. CASE i <= len
    <3>1. /\ start - len <= start - len + i - 1 /\ start - len + i - 1 < start
          /\ (start - len + i - 1) - (start - len) + 1 = i
      BY <1>1, <1>3, <2>3
    <3> QED
      BY <1>2, <2>1, <2>2, <2>3, <3>1
  <2>4. CASE i > len
    <3>1. buf'[start - len + i - 1] = Moved(start)[start - len + i - 1]
      <4>1. ~(start - len + i - 1 < start)
        BY <1>1, <1>3, <2>4
      <4> QED
        BY <1>2, <2>2, <4>1
    <3>2. Moved(start)[start - len + i - 1] = buf[head + (i - len) - 1]
      <4> DEFINE j == start - len + i - 1
      <4>1. /\ j \in 0..(BufSize - 1) /\ start <= j /\ j < start + usedSize
            /\ head + j - start = head + (i - len) - 1
        BY <1>1, <1>3, <2>2, <2>4 DEF IInv, TypeOK
      <4> HIDE DEF j
      <4>2. Moved(start)[j] = buf[head + j - start]
        BY <2>2, <4>1 DEF Moved
      <4> QED
        BY <4>1, <4>2 DEF j
    <3>3. Contents[i - len] = buf[head + (i - len) - 1]
      BY <1>1, <1>3, <2>4 DEF Contents
    <3> QED
      BY <1>1, <2>1, <2>4, <3>1, <3>2, <3>3
  <2> QED
    BY <1>1, <2>3, <2>4
<1>7. /\ Len(Contents') = Len(Request(len)) + Len(Contents)
      /\ \A i \in 1..Len(Contents') :
            Contents'[i] = IF i <= Len(Request(len))
                             THEN Request(len)[i] ELSE Contents[i - Len(Request(len))]
  BY <1>4, <1>5, <1>6
<1>8. Contents' = Request(len) \o Contents
  BY <1>4, <1>7, IsConcat
<1> QED
  BY <1>2, <1>8 DEF Queue!Front

\* A stream buffer is a queue of bytes (streambuffer.hh), provided that every
\* request is shorter than what prepend's uint8_t can count.
THEOREM StreamBufferIsQueue == ShortRequests => (Spec => ImplementsQueue)
<1> SUFFICES ASSUME ShortRequests PROVE Spec => ImplementsQueue
  OBVIOUS
<1>1. Init => Queue!Init
  BY DEF Init, Queue!Init, Contents, usedSize
<1>2. IInv /\ [Next]_vars => [Queue!Next]_<<Contents, in, out>>
  <2> SUFFICES ASSUME IInv, [Next]_vars PROVE [Queue!Next]_<<Contents, in, out>>
    OBVIOUS
  <2>1. CASE UNCHANGED vars
    BY <2>1 DEF vars, Contents, usedSize
  <2>2. ASSUME NEW n \in 1..BufSize, Recv(n) PROVE Queue!Next
    BY <2>2, RecvIsPut DEF Queue!Next
  <2>3. ASSUME NEW n \in 1..BufSize, Unuse(n) PROVE Queue!Next
    BY <2>3, UnuseIsTake DEF Queue!Next
  <2>4. ASSUME NEW len \in RequestLen, Prepend(len) PROVE Queue!Next
    BY <2>4, PrependIsFront DEF Queue!Next
  <2>5. CASE Next
    BY <2>2, <2>3, <2>4, <2>5, MakeHeadroomIsStutter DEF Next
  <2> QED
    BY <2>1, <2>5
<1> QED
  BY <1>1, <1>2, StreamBufferInvariant, PTL DEF Spec, ImplementsQueue, Queue!Spec

=============================================================================
