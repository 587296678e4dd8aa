----------------------------- MODULE MCSessions -----------------------------
(* Small instance of Sessions for TLC. *)
EXTENDS Sessions
=============================================================================
