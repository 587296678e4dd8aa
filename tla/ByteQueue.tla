----------------------------- MODULE ByteQueue ------------------------------
(***************************************************************************)
(* What a stream buffer promises its reactor: a queue of bytes, extended   *)
(* at the end from a socket, drained at the front to a socket and, before  *)
(* it is sent, preceded by a message.  The bytes of the source are told    *)
(* apart by their position 1, 2, ... in it.                                *)
(***************************************************************************)
EXTENDS Naturals, Sequences

CONSTANTS Message,    \* the messages that may be put in front
          MaxIn       \* bound: bytes that the source delivers

VARIABLES q,          \* the bytes that wait
          in,         \* how many bytes the source has delivered
          out         \* every byte drained so far

Init == q = <<>> /\ in = 0 /\ out = <<>>

Put == \E n \in 1..(MaxIn - in) :
          /\ q' = q \o [i \in 1..n |-> in + i]
          /\ in' = in + n
          /\ UNCHANGED out

Front == \E m \in Message : q' = m \o q /\ UNCHANGED <<in, out>>

Take == \E n \in 1..Len(q) :
          /\ out' = out \o SubSeq(q, 1, n)
          /\ q' = SubSeq(q, n + 1, Len(q))
          /\ UNCHANGED in

Next == Put \/ Front \/ Take

Spec == Init /\ [][Next]_<<q, in, out>>
=============================================================================
