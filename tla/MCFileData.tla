----------------------------- MODULE MCFileData -----------------------------
(* FileData for TLC. *)
EXTENDS FileData, TLC

Symmetry == Permutations(Threads)
=============================================================================
