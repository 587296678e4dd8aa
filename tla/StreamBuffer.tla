---------------------------- MODULE StreamBuffer ----------------------------
(***************************************************************************)
(* The buffer of a reactor (core/streambuffer.hh): a fixed array with a    *)
(* head and a tail index, under the calls that sockets (core/socket.hh),   *)
(* message parsers and the proxifier's upstreamer make on it.              *)
(***************************************************************************)
EXTENDS Integers, Sequences

CONSTANTS
    BufSize,      \* BUF_SIZE
    Headroom,     \* HEADROOM of proxifierupstreamer.cc
    SizeMod,      \* values of prepend's size parameter, a uint8_t: 256
    RequestLen,   \* lengths of the requests that may be prepended
    MaxIn         \* bound: bytes received

ASSUME SizeAssumption ==
    /\ BufSize \in Nat /\ Headroom \in Nat /\ MaxIn \in Nat
    /\ SizeMod \in Nat \ {0}
    /\ Headroom < BufSize
    /\ RequestLen \subseteq 1..Headroom

VARIABLES
    buf,          \* the array; 0 is a byte nobody wrote
    head, tail,
    in,           \* bytes received so far: the next one is in + 1
    out,          \* bytes sent or parsed so far
    fronted       \* the length of the request prepended, 0 before

vars == <<buf, head, tail, in, out, fronted>>

-----------------------------------------------------------------------------

usedSize == tail - head

availSize == BufSize - tail

\* The bytes from getHead() on.
Contents == [i \in 1..usedSize |-> buf[head + i - 1]]

\* Byte i of a request is -i.
Request(len) == [i \in 1..len |-> -i]

Init == /\ buf = [i \in 0..(BufSize - 1) |-> 0]
        /\ head = 0
        /\ tail = 0
        /\ in = 0
        /\ out = <<>>
        /\ fronted = 0

\* recv or PR_Read of n bytes at getTail(), then use(n).
Recv(n) ==
    /\ n <= availSize
    /\ in + n <= MaxIn
    /\ buf' = [i \in DOMAIN buf |->
                 IF tail <= i /\ i < tail + n THEN in + (i - tail) + 1 ELSE buf[i]]
    /\ tail' = tail + n
    /\ in' = in + n
    /\ UNCHANGED <<head, out, fronted>>

\* An unuse that forgets to go back to the start of the array.
UnuseNoReset(n) ==
    /\ n <= usedSize
    /\ out' = out \o SubSeq(Contents, 1, n)
    /\ head' = head + n
    /\ UNCHANGED <<buf, tail, in, fronted>>

(***************************************************************************)
(* unuse(n) of n bytes that were sent or parsed; an empty buffer starts    *)
(* again at index 0.                                                       *)
(***************************************************************************)
Unuse(n) ==
    /\ n <= usedSize
    /\ out' = out \o SubSeq(Contents, 1, n)
    /\ \/ /\ head + n = tail
          /\ head' = 0 /\ tail' = 0
       \/ /\ head + n # tail
          /\ head' = head + n /\ UNCHANGED tail
    /\ UNCHANGED <<buf, in, fronted>>

\* A memmove from the start of the array instead of the head.
MovedFromStart(to) ==
    [i \in DOMAIN buf |->
        IF to <= i /\ i < to + usedSize THEN buf[i - to] ELSE buf[i]]

\* The array after the memmove of makeHeadroom: the data starts at "to".
Moved(to) ==
    [i \in DOMAIN buf |->
        IF to <= i /\ i < to + usedSize THEN buf[head + i - to] ELSE buf[i]]

\* A check that forgets the data in the buffer.
HasRoomUnchecked(size) == BufSize >= size

\* makeHeadroom throws "No room in stream buffer" when this is false.
HasRoom(size) == BufSize - usedSize >= size

\* makeHeadroom(HEADROOM), on its own in ProxifierUpstreamer's constructor.
MakeHeadroom ==
    /\ fronted = 0
    /\ HasRoom(Headroom)
    /\ Headroom > head
    /\ buf' = Moved(Headroom)
    /\ tail' = Headroom + usedSize
    /\ head' = Headroom
    /\ UNCHANGED <<in, out, fronted>>

\* A prepend that does not make room first.
PrependNoHeadroom(len) ==
    LET size == len % SizeMod
    IN  /\ fronted = 0
        /\ HasRoom(size)
        /\ buf' = [i \in DOMAIN buf |->
                     IF head - size <= i /\ i < head
                        THEN Request(len)[i - (head - size) + 1] ELSE buf[i]]
        /\ head' = head - size
        /\ fronted' = len
        /\ UNCHANGED <<tail, in, out>>

(***************************************************************************)
(* prepend(stuff, size): makeHeadroom, then memcpy below the data.  The    *)
(* caller passes a size_t; the parameter is a uint8_t.                     *)
(***************************************************************************)
Prepend(len) ==
    LET size  == len % SizeMod
        start == IF size > head THEN size ELSE head
    IN  /\ fronted = 0
        /\ HasRoom(size)
        /\ buf' = [i \in DOMAIN buf |->
                     IF start - size <= i /\ i < start
                        THEN Request(len)[i - (start - size) + 1]
                        ELSE Moved(start)[i]]
        /\ head' = start - size
        /\ tail' = start + usedSize
        /\ fronted' = len
        /\ UNCHANGED <<in, out>>

Next ==
    \/ \E n \in 1..BufSize : Recv(n)
    \/ \E n \in 1..BufSize : Unuse(n)
    \/ MakeHeadroom
    \/ \E len \in RequestLen : Prepend(len)

Spec == Init /\ [][Next]_vars

-----------------------------------------------------------------------------

\* The types of the variables.
TypeOK ==
    /\ buf \in [0..(BufSize - 1) -> Int]
    /\ head \in Nat
    /\ tail \in Nat
    /\ in \in Nat
    /\ out \in Seq(Int)
    /\ fronted \in Nat

(***************************************************************************)
(* streambuffer.hh:19-47: whatever the order of calls, usedSize() and      *)
(* availSize(), differences of unsigned numbers, never wrap, and every     *)
(* byte they cover lies inside the array.                                  *)
(***************************************************************************)
InBounds == head <= tail /\ tail <= BufSize

(***************************************************************************)
(* socket.hh:23 with streamreactor.cc:14-26: a recv with no room returns 0,*)
(* which the reactors take for the end of the stream.  They receive when   *)
(* the buffer is empty, and an empty buffer has room.                      *)
(***************************************************************************)
EmptyHasRoom == usedSize = 0 => availSize > 0

\* What makes InBounds and EmptyHasRoom inductive: only the reserved headroom
\* keeps an empty buffer away from index 0.
EmptyIsLow == head = tail => tail <= Headroom

IInv == TypeOK /\ InBounds /\ EmptyIsLow

\* streambuffer.hh: the indices and the array implement a queue of bytes, in
\* which a prepended request comes first and whole.
Queue == INSTANCE ByteQueue
            WITH q <- Contents, Message <- {Request(len) : len \in RequestLen}

ImplementsQueue == Queue!Spec

(***************************************************************************)
(* proxifierupstreamer.cc:12, "more than enough for any request": once a   *)
(* request has been prepended, what was sent and what waits is the request *)
(* followed by the bytes of the client.                                    *)
(***************************************************************************)
RequestComesWhole ==
    (fronted > 0 /\ out = <<>>)
        => Contents = Request(fronted) \o [i \in 1..in |-> i]

=============================================================================
