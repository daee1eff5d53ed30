--------------------------- MODULE BlockAllocator ---------------------------
(***************************************************************************)
(* The allocator of data blocks of myfuse: src/src/block_allocator.c.      *)
(*                                                                         *)
(* The free bitmap on disk has one bit per block, BPB bits to a bitmap     *)
(* block.  bmap_cache keeps a copy of all of it in memory and, for every   *)
(* bitmap block, the number of its set bits and its first clear one;       *)
(* first_free_cache names the bitmap block to allocate from.               *)
(*                                                                         *)
(* block_alloc() and block_free() run inside an operation of the log, with *)
(* bmap_cache.lock held from their first to their last access: one step    *)
(* each, except that block_alloc() zeroes its block after the unlock.  The *)
(* log is the atomic store of TxnStore: a crash takes the disk back to the *)
(* last moment at which no operation was open.                             *)
(***************************************************************************)
EXTENDS Integers, FiniteSets

CONSTANTS
    Threads,    \* threads that run operations
    NBMAP,      \* number of bitmap blocks, bmap_cache.n_cache
    BPB,        \* bits per bitmap block
    BYTE,       \* bits per byte
    Size,       \* sb.size: blocks of the disk
    NMeta,      \* sb.size - sb.nblocks: blocks that hold no data
    UINT,       \* the number of values of an unsigned int
    NoBlock     \* no block

ASSUME AllocatorAssumption ==
    /\ IsFiniteSet(Threads)
    /\ NBMAP \in Nat \ {0} /\ BPB \in Nat \ {0} /\ BYTE \in Nat \ {0}
    /\ BPB % BYTE = 0
    /\ Size \in Nat /\ NMeta \in Nat
    /\ NMeta < Size /\ Size <= NBMAP * BPB
    /\ UINT \in Nat /\ NBMAP * BPB < UINT
    /\ NoBlock \notin Nat

Bits == 0 .. (NBMAP * BPB - 1)
BmapBlocks == 0 .. (NBMAP - 1)

VARIABLES
    bmap,               \* SUBSET Bits: the set bits of the bitmap blocks
    cache_buf,          \* SUBSET Bits: the set bits of bmap_cache.cache_buf
    first_unalloced,    \* [BmapBlocks -> Int], -1 for a full bitmap block
    n_alloced,          \* [BmapBlocks -> Nat]
    first_free_cache,   \* an unsigned int
    owned,              \* SUBSET Bits: the blocks that inodes refer to
    durable,            \* bmap and owned as a crash would leave them
    pc,                 \* [Threads -> {"idle", "op", "zero"}]
    victim,             \* [Threads -> Bits \cup {NoBlock}], victim_blockno
    up                  \* the file system is mounted

vars == <<bmap, cache_buf, first_unalloced, n_alloced, first_free_cache,
          owned, durable, pc, victim, up>>
cacheVars == <<cache_buf, first_unalloced, n_alloced, first_free_cache>>

TypeOK ==
    /\ bmap \subseteq Bits
    /\ cache_buf \subseteq Bits
    /\ first_unalloced \in [BmapBlocks -> -1 .. (BPB - 1)]
    /\ n_alloced \in [BmapBlocks -> 0 .. BPB]
    /\ first_free_cache \in BmapBlocks
    /\ owned \subseteq Bits
    /\ durable \in [bmap : SUBSET Bits, owned : SUBSET Bits]
    /\ pc \in [Threads -> {"idle", "op", "zero"}]
    /\ victim \in [Threads -> Bits \cup {NoBlock}]
    /\ up \in BOOLEAN

-----------------------------------------------------------------------------

\* init_meta_blocks_bmap(), called by mkfs: the blocks before the data blocks
\* and the bits behind the end of the disk are taken.
init_meta_blocks_bmap == (0 .. (NMeta - 1)) \cup (Size .. (NBMAP * BPB - 1))

Init ==
    /\ bmap = init_meta_blocks_bmap
    /\ cache_buf = {}
    /\ first_unalloced = [i \in BmapBlocks |-> 0]
    /\ n_alloced = [i \in BmapBlocks |-> 0]
    /\ first_free_cache = 0
    /\ owned = {}
    /\ durable = [bmap |-> bmap, owned |-> owned]
    /\ pc = [t \in Threads |-> "idle"]
    /\ victim = [t \in Threads |-> NoBlock]
    /\ up = FALSE

\* The bits of bitmap block i, as numbers within the block.
bmap2blockno(j, i) == (j + i * BPB) % UINT
FreeIn(bits, i) == {j \in 0 .. (BPB - 1) : bmap2blockno(j, i) \notin bits}
Least(S) == CHOOSE j \in S : \A k \in S : j <= k
FirstFree(bits, i) == IF FreeIn(bits, i) = {} THEN -1 ELSE Least(FreeIn(bits, i))

\* block_allocator_refresh() at mount.  It leaves first_free_cache as the
\* memset of inode_init() set it: its own first_free is never used.
block_allocator_refresh ==
    /\ ~up
    /\ up' = TRUE
    /\ cache_buf' = bmap
    /\ n_alloced' = [i \in BmapBlocks |-> BPB - Cardinality(FreeIn(bmap, i))]
    /\ first_unalloced' = [i \in BmapBlocks |-> FirstFree(bmap, i)]
    /\ first_free_cache' = 0
    /\ UNCHANGED <<bmap, owned, durable, pc, victim>>

\* bmap_block_statue_set(): change the bit in memory, then copy the byte that
\* holds it to the bitmap block.
SameByte(b) == {c \in Bits : c \div BYTE = b \div BYTE}
bmap_block_statue_set(b, on) ==
    /\ cache_buf' = IF on THEN cache_buf \cup {b} ELSE cache_buf \ {b}
    /\ bmap' = (bmap \ SameByte(b)) \cup (cache_buf' \cap SameByte(b))

\* The process ends; the log takes the disk back to its last commit.
Die ==
    /\ up' = FALSE
    /\ bmap' = durable.bmap
    /\ owned' = durable.owned
    /\ pc' = [t \in Threads |-> "idle"]
    /\ victim' = [t \in Threads |-> NoBlock]
    /\ cache_buf' = {}
    /\ first_unalloced' = [i \in BmapBlocks |-> 0]
    /\ n_alloced' = [i \in BmapBlocks |-> 0]
    /\ first_free_cache' = 0
    /\ UNCHANGED durable

Crash == up /\ Die

-----------------------------------------------------------------------------
(* Operations of the log around the allocator (see Log and TxnStore).      *)

begin_op(t) ==
    /\ up
    /\ pc[t] = "idle"
    /\ pc' = [pc EXCEPT ![t] = "op"]
    /\ UNCHANGED <<bmap, cacheVars, owned, durable, victim, up>>

\* The last operation to end commits everything.
end_op(t) ==
    /\ pc[t] = "op"
    /\ pc' = [pc EXCEPT ![t] = "idle"]
    /\ durable' = IF \A s \in Threads \ {t} : pc[s] = "idle"
                  THEN [bmap |-> bmap, owned |-> owned]
                  ELSE durable
    /\ UNCHANGED <<bmap, cacheVars, owned, victim, up>>

-----------------------------------------------------------------------------
(* block_alloc.                                                            *)

\* The first clear bit of the bitmap block that first_free_cache names;
\* if that one is full this is a number no block has.
Victim == bmap2blockno(first_unalloced[first_free_cache], first_free_cache)

\* The victim is the last free block of bitmap block i.
Fills(i) == n_alloced[i] + 1 = BPB

CountUp(i) == n_alloced' = [n_alloced EXCEPT ![i] = @ + 1]

\* Mutant: the allocated block stays the first free one.
NextFree_Stays(i) == IF Fills(i) THEN -1 ELSE first_unalloced[i]

\* The first clear bit of bitmap block i behind the victim.
NextFree(i) ==
    LET later == {j \in FreeIn(cache_buf', i) : j > first_unalloced[i]}
    IN IF Fills(i) THEN -1
       ELSE IF later = {} THEN first_unalloced[i] ELSE Least(later)

\* Mutant: a full bitmap block is not given up.
NextCache_Stays(i) == i

\* The bitmap block to allocate from next.
NextCache(i) ==
    IF Fills(i) THEN Least({k \in BmapBlocks : first_unalloced'[k] # -1}) ELSE i

\* The victim fills its bitmap block and no other one has room.
LastBlock ==
    /\ Fills(first_free_cache)
    /\ \A k \in BmapBlocks \ {first_free_cache} : first_unalloced[k] = -1

\* The section under bmap_cache.lock.
block_alloc(t) ==
    /\ pc[t] = "op"
    /\ Victim \in Bits
    /\ ~LastBlock
    /\ bmap_block_statue_set(Victim, TRUE)
    /\ CountUp(first_free_cache)
    /\ first_unalloced' = [first_unalloced EXCEPT ![first_free_cache] = NextFree(first_free_cache)]
    /\ first_free_cache' = NextCache(first_free_cache)
    /\ victim' = [victim EXCEPT ![t] = Victim]
    /\ pc' = [pc EXCEPT ![t] = "zero"]
    /\ UNCHANGED <<owned, durable, up>>

\* It ends the process when it takes the last free block ("no more free space
\* in disk!"), and it sets a bit far outside of cache_buf when the bitmap
\* block it allocates from is full: a memory fault.
block_alloc_dies(t) ==
    /\ pc[t] = "op"
    /\ Victim \notin Bits \/ LastBlock
    /\ Die

\* logged_zero_a_block() and the return; an inode now refers to the block.
logged_zero_a_block(t) ==
    /\ pc[t] = "zero"
    /\ owned' = owned \cup {victim[t]}
    /\ victim' = [victim EXCEPT ![t] = NoBlock]
    /\ pc' = [pc EXCEPT ![t] = "op"]
    /\ UNCHANGED <<bmap, cacheVars, durable, up>>

-----------------------------------------------------------------------------
(* block_free of a block that an inode refers to.                          *)

\* Mutant: the comparison is signed.
AsUint_Signed(i) == i

\* The comparison of the int first_unalloced with the uint bmapno is unsigned.
AsUint(i) == i % UINT
block_free(t, b) ==
    LET i == b \div BPB  bmapno == b % BPB IN
    /\ pc[t] = "op"
    /\ b \in owned
    /\ bmap_block_statue_set(b, FALSE)
    /\ n_alloced' = [n_alloced EXCEPT ![i] = @ - 1]
    /\ first_unalloced' =
        [first_unalloced EXCEPT ![i] = IF AsUint(@) > bmapno THEN bmapno ELSE @]
    /\ first_free_cache' = i
    /\ owned' = owned \ {b}
    /\ UNCHANGED <<durable, pc, victim, up>>

-----------------------------------------------------------------------------

Next ==
    \/ block_allocator_refresh
    \/ Crash
    \/ \E t \in Threads :
        \/ begin_op(t)
        \/ end_op(t)
        \/ block_alloc(t)
        \/ block_alloc_dies(t)
        \/ logged_zero_a_block(t)
        \/ \E b \in Bits : block_free(t, b)

Spec == Init /\ [][Next]_vars

-----------------------------------------------------------------------------
(* What makes the allocator correct.                                       *)

\* No block is lost and none has two owners, whatever threads allocate and
\* free side by side and wherever the process dies: the set bits are the meta
\* blocks, the blocks of inodes and the blocks just handed out, once each.
AllocatedIsOwned ==
    /\ bmap = init_meta_blocks_bmap \cup owned \cup ({victim[t] : t \in Threads} \ {NoBlock})
    /\ init_meta_blocks_bmap \cap owned = {}
    /\ \A t \in Threads :
        /\ victim[t] \notin owned \cup init_meta_blocks_bmap
        /\ \A s \in Threads : victim[s] = victim[t] => s = t \/ victim[t] = NoBlock

\* The copy of the bitmap is the bitmap, and what bmap_cache knows of each
\* bitmap block is what a fresh scan would find (the claim of the "persistent
\* test" of block_allocator_test.cc, here after any calls and not only after
\* block_allocator_refresh()).
CountersExact ==
    up => /\ cache_buf = bmap
          /\ \A i \in BmapBlocks :
                /\ n_alloced[i] = BPB - Cardinality(FreeIn(bmap, i))
                /\ first_unalloced[i] = FirstFree(bmap, i)

\* A bitmap block that first_free_cache names although it is full is number 0,
\* where a mount leaves it: the bit in front of it is no block's.
FullHintIsMount == up /\ first_unalloced[first_free_cache] = -1 => first_free_cache = 0

\* Only a mounted file system runs operations, and only one that is about to
\* zero its block holds one.
OperationsHeld ==
    \A t \in Threads :
        /\ pc[t] # "idle" => up
        /\ victim[t] # NoBlock <=> pc[t] = "zero"

\* What a crash would leave has no lost block and none with two owners.
DurableOwned ==
    /\ durable.bmap = init_meta_blocks_bmap \cup durable.owned
    /\ init_meta_blocks_bmap \cap durable.owned = {}

\* The copy of the bitmap and its summaries stay in range and exact, through
\* allocations, releases, crashes and remounts.
AllocatorInv ==
    /\ TypeOK
    /\ CountersExact
    /\ FullHintIsMount
    /\ OperationsHeld
    /\ DurableOwned

\* first_free_cache names a bitmap block with room.  A mount does not see to it.
HintHasRoom == up => first_unalloced[first_free_cache] # -1

\* Once first_free_cache names a bitmap block with room, block_alloc() and
\* block_free() keep it so, also when they fill that bitmap block.
HintStaysGood == [][up /\ HintHasRoom /\ up' => HintHasRoom']_vars
=============================================================================
