---------------------------- MODULE MCInodeTable ----------------------------
(* The inode table on small instances.                                     *)
EXTENDS InodeTable, TLC

Symmetry == Permutations(Threads)
=============================================================================
