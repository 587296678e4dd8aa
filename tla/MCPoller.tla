------------------------------ MODULE MCPoller ------------------------------
(* Small instance of Poller for TLC. *)
EXTENDS Poller, TLC

Symmetry == Permutations(FD) \cup Permutations(File)
                \cup Permutations(Reactor \ Deferrer)
=============================================================================
