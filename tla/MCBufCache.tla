----------------------------- MODULE MCBufCache -----------------------------
(* The buffer cache on small instances.                                    *)
EXTENDS BufCache, TLC

Symmetry == Permutations(Threads) \cup Permutations(Bufs)

\* Block 1 is locked first (a log block), then 2 (an indirect block), 3 (what
\* that leads to) and 5 (the bitmap).
MCLevel == [n \in Blocks |-> n]
=============================================================================
