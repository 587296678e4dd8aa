-------------------------- MODULE MCTLSDescriptors --------------------------
(* Small instances of TLSDescriptors for TLC. *)
EXTENDS TLSDescriptors, TLC

Symmetry == Permutations(Conn)
=============================================================================
