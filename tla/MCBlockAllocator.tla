-------------------------- MODULE MCBlockAllocator --------------------------
(* The block allocator on a disk with a few small bitmap blocks.           *)
EXTENDS BlockAllocator, TLC

Symmetry == Permutations(Threads)
=============================================================================
