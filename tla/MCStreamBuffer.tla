--------------------------- MODULE MCStreamBuffer ---------------------------
(* Small instances of StreamBuffer for TLC. *)
EXTENDS StreamBuffer
=============================================================================
