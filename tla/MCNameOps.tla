----------------------------- MODULE MCNameOps -----------------------------
(* NameOps for TLC. *)
EXTENDS NameOps, TLC

Symmetry == Permutations(Names)
=============================================================================
