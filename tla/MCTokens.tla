------------------------------ MODULE MCTokens ------------------------------
(* A small instance of Tokens for TLC, with windows that wrap around. *)
EXTENDS Tokens, TLC

Symmetry == Permutations(Conn)
=============================================================================
