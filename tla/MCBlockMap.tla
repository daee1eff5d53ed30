----------------------------- MODULE MCBlockMap -----------------------------
(* BlockMap for TLC. *)
EXTENDS BlockMap, TLC

Symmetry == Permutations(Threads)
=============================================================================
