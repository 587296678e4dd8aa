------------------------------ MODULE MCListen ------------------------------
(* A small instance of Listen for TLC, with fewer descriptors than the     *)
(* clients may need together.                                              *)
EXTENDS Listen
=============================================================================
