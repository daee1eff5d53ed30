---------------------------- MODULE MCCallLocks ----------------------------
(* CallLocks for TLC. *)
EXTENDS CallLocks, TLC

Symmetry == Permutations(Threads)
=============================================================================
