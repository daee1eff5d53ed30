------------------------ MODULE BlockAllocatorProofs ------------------------
(***************************************************************************)
(* Proofs about BlockAllocator, for any number of threads, bitmap blocks   *)
(* and bits in them: the copy of the bitmap and its summaries stay exact,  *)
(* no block is lost or handed out twice through allocations, releases and  *)
(* crashes, and once the hint names a bitmap block with room it keeps      *)
(* naming one.                                                             *)
(***************************************************************************)
EXTENDS BlockAllocator, FiniteSets, FiniteSetTheorems, TLAPS

-----------------------------------------------------------------------------
(* The first free bit.                                                     *)

\* A set of numbers that is not empty has a least member: what a loop from
\* zero upwards finds first.
LEMMA NatMinimum ==
    ASSUME NEW S \in SUBSET Nat, S # {}
    PROVE  \E m \in S : \A k \in S : m <= k
  <1>1. S \subseteq Nat /\ S # {}
      OBVIOUS
  <1>2. \A x, y \in Nat : <<x, y>> \in OpToRel(<, Nat) <=> x < y
      BY DEF OpToRel
  <1>3. PICK R : IsWellFoundedOn(R, Nat) /\ \A x, y \in Nat : <<x, y>> \in R <=> x < y
      BY <1>2, NatLessThanWellFounded, Zenon
  <1>4. \A A : IsWellFoundedOn(R, A) =>
            \A T : T \subseteq A /\ T # {} => \E x \in T : \A y \in T : ~ (<<y, x>> \in R)
      BY ONLY WFMin, Zenon
  <1>5. IsWellFoundedOn(R, Nat)
      BY <1>3
  <1>6. PICK m \in S : \A k \in S : ~ (<<k, m>> \in R)
      BY <1>1, <1>4, <1>5, Zenon
  <1>7. \A k \in S : ~ (k < m)
      BY <1>1, <1>3, <1>6, Zenon
  <1> QED
      BY <1>1, <1>7

-----------------------------------------------------------------------------
(* Bits, bitmap blocks and places in them.                                 *)

\* bmap2blockno() of a place in a bitmap block is a bit and does not wrap.
LEMMA BitsOfBlock ==
    ASSUME NEW i \in BmapBlocks, NEW j \in 0 .. (BPB - 1)
    PROVE  bmap2blockno(j, i) = j + i * BPB /\ j + i * BPB \in Bits
  <1>1. i \in Nat /\ j \in Nat /\ BPB \in Nat /\ NBMAP \in Nat /\ UINT \in Nat /\ i + 1 <= NBMAP /\ j < BPB
        /\ NBMAP * BPB < UINT
      BY AllocatorAssumption DEF BmapBlocks
  <1>2. (i + 1) * BPB <= NBMAP * BPB
      BY <1>1
  <1>3. (i + 1) * BPB = i * BPB + BPB
      BY <1>1
  <1>4. i * BPB \in Nat /\ NBMAP * BPB \in Nat
      BY <1>1
  <1>5. j + i * BPB \in Nat /\ j + i * BPB < NBMAP * BPB
      BY <1>1, <1>2, <1>3, <1>4
  <1>6. (j + i * BPB) % UINT = j + i * BPB
      BY <1>1, <1>4, <1>5
  <1> QED
      BY <1>4, <1>5, <1>6 DEF bmap2blockno, Bits

\* A bit is at one place of one bitmap block.
LEMMA BitUnique ==
    ASSUME NEW i \in BmapBlocks, NEW j \in 0 .. (BPB - 1), NEW k \in BmapBlocks, NEW l \in 0 .. (BPB - 1),
           j + i * BPB = l + k * BPB
    PROVE  i = k /\ j = l
  <1>1. i \in Nat /\ j \in Nat /\ k \in Nat /\ l \in Nat /\ BPB \in Nat /\ j < BPB /\ l < BPB
      BY AllocatorAssumption DEF BmapBlocks
  <1>2. \A x, y \in Nat : x < y => x * BPB + BPB <= y * BPB
      BY <1>1
  <1>3. i = k
      BY <1>1, <1>2
  <1> QED
      BY <1>1, <1>3

\* Where block_free() looks for a bit: the inverse of bmap2blockno().
LEMMA BlockOfBit ==
    ASSUME NEW b \in Bits
    PROVE  b \div BPB \in BmapBlocks /\ b % BPB \in 0 .. (BPB - 1) /\ b = (b % BPB) + (b \div BPB) * BPB
  <1>1. b \in Nat /\ BPB \in Nat \ {0} /\ NBMAP \in Nat /\ b < NBMAP * BPB
      BY AllocatorAssumption DEF Bits
  <1>2. b % BPB \in 0 .. (BPB - 1)
      BY <1>1
  <1>3. b = (b % BPB) + (b \div BPB) * BPB
      BY <1>1
  <1>4. b \div BPB \in Nat
      BY <1>1
  <1>5. b \div BPB < NBMAP
      BY <1>1, <1>2, <1>3, <1>4
  <1> QED
      BY <1>1, <1>2, <1>3, <1>4, <1>5 DEF BmapBlocks

-----------------------------------------------------------------------------
(* The first clear bit and the number of clear bits of a bitmap block.     *)

\* What the loops that look for the first clear bit return.
LEMMA LeastFacts ==
    ASSUME NEW S \in SUBSET Nat, S # {}
    PROVE  /\ Least(S) \in S
           /\ \A k \in S : Least(S) <= k
           /\ \A x \in S : (\A k \in S : x <= k) => Least(S) = x
  <1>1. \E m \in S : \A k \in S : m <= k
      BY NatMinimum
  <1>2. Least(S) \in S /\ \A k \in S : Least(S) <= k
      BY <1>1 DEF Least
  <1>3. \A x, y \in Nat : x <= y /\ y <= x => x = y
      OBVIOUS
  <1> QED
      BY <1>2, <1>3

\* The clear bits of a bitmap block can be counted.
LEMMA FreeInFacts ==
    ASSUME NEW bits, NEW i \in BmapBlocks
    PROVE  /\ FreeIn(bits, i) \subseteq 0 .. (BPB - 1)
           /\ FreeIn(bits, i) \in SUBSET Nat
           /\ IsFiniteSet(FreeIn(bits, i))
           /\ Cardinality(FreeIn(bits, i)) \in 0 .. BPB
  <1>1. FreeIn(bits, i) \subseteq 0 .. (BPB - 1) /\ 0 \in Int /\ BPB - 1 \in Int /\ BPB \in Nat /\ ~ (0 > BPB - 1)
      BY AllocatorAssumption DEF FreeIn
  <1>2. IsFiniteSet(0 .. (BPB - 1)) /\ Cardinality(0 .. (BPB - 1)) = BPB
      BY <1>1, FS_Interval
  <1>3. /\ IsFiniteSet(FreeIn(bits, i))
        /\ Cardinality(FreeIn(bits, i)) <= BPB
      BY <1>1, <1>2, FS_Subset
  <1>4. Cardinality(FreeIn(bits, i)) \in Nat
      BY <1>3, FS_CardinalityType
  <1> QED
      BY <1>1, <1>3, <1>4

\* The first clear bit of a bitmap block is in range, clear and first.
LEMMA FirstFreeFacts ==
    ASSUME NEW bits, NEW i \in BmapBlocks
    PROVE  /\ FirstFree(bits, i) \in -1 .. (BPB - 1)
           /\ FirstFree(bits, i) = -1 <=> FreeIn(bits, i) = {}
           /\ FreeIn(bits, i) # {} => /\ FirstFree(bits, i) \in FreeIn(bits, i)
                                      /\ \A k \in FreeIn(bits, i) : FirstFree(bits, i) <= k
  <1>1. FreeIn(bits, i) \in SUBSET Nat /\ FreeIn(bits, i) \subseteq 0 .. (BPB - 1) /\ BPB \in Nat \ {0}
      BY FreeInFacts, AllocatorAssumption
  <1>2. CASE FreeIn(bits, i) = {}
      BY <1>1, <1>2 DEF FirstFree
  <1>3. CASE FreeIn(bits, i) # {}
    <2>1. FirstFree(bits, i) = Least(FreeIn(bits, i))
        BY <1>3 DEF FirstFree
    <2>2. Least(FreeIn(bits, i)) \in FreeIn(bits, i) /\ \A k \in FreeIn(bits, i) : Least(FreeIn(bits, i)) <= k
        BY <1>1, <1>3, LeastFacts
    <2> QED
        BY <1>1, <1>3, <2>1, <2>2
  <1> QED
      BY <1>2, <1>3

\* Bit b is at place j of bitmap block i and at no other.
LEMMA BitPlace ==
    ASSUME NEW i \in BmapBlocks, NEW j \in 0 .. (BPB - 1), NEW b, b = j + i * BPB
    PROVE  \A k \in BmapBlocks : \A l \in 0 .. (BPB - 1) :
                (bmap2blockno(l, k) = b) <=> (k = i /\ l = j)
  BY BitsOfBlock, BitUnique

-----------------------------------------------------------------------------
(* What block_alloc() and block_free() do to the bitmap and its summaries. *)

\* Reading the summaries of the bitmap blocks.
LEMMA Types ==
    ASSUME TypeOK
    PROVE  /\ first_free_cache \in BmapBlocks
           /\ \A i \in BmapBlocks : first_unalloced[i] \in -1 .. (BPB - 1) /\ n_alloced[i] \in 0 .. BPB
           /\ first_unalloced \in [BmapBlocks -> -1 .. (BPB - 1)]
           /\ n_alloced \in [BmapBlocks -> 0 .. BPB]
           /\ bmap \in SUBSET Bits
           /\ owned \subseteq Bits
           /\ NoBlock \notin Bits
  BY AllocatorAssumption DEF TypeOK, Bits

\* Copying the byte that holds the changed bit copies that bit and no other
\* change, when copy and bitmap agreed before.
LEMMA OneBitSet ==
    ASSUME cache_buf = bmap, NEW b \in Bits, NEW on \in BOOLEAN, bmap \in SUBSET Bits,
           bmap_block_statue_set(b, on)
    PROVE  /\ cache_buf' = bmap'
           /\ on => bmap' = bmap \cup {b}
           /\ ~on => bmap' = bmap \ {b}
  <1>1. b \in SameByte(b)
      BY DEF SameByte
  <1> QED
      BY <1>1 DEF bmap_block_statue_set

\* -1 as an unsigned int, the index of a full bitmap block's first clear bit,
\* is above every bit and every place in a bitmap block.
LEMMA MinusOne == (-1) % UINT = UINT - 1 /\ UINT - 1 \notin Bits /\ \A j \in 0 .. (BPB - 1) : UINT - 1 > j /\ j % UINT = j
  <1>1. /\ UINT \in Nat /\ UINT > 0 /\ NBMAP * BPB < UINT
        /\ NBMAP \in Nat \ {0} /\ BPB \in Nat \ {0}
    <2>1. NBMAP * BPB \in Nat
        BY AllocatorAssumption
    <2> QED
        BY <2>1, AllocatorAssumption
  <1>2. NBMAP * BPB >= BPB
      BY <1>1
  <1>3. (-1) % UINT = UINT - 1
      BY <1>1
  <1>4. UINT - 1 \notin Bits
      BY <1>1 DEF Bits
  <1>5. \A j \in 0 .. (BPB - 1) : UINT - 1 > j /\ j \in Nat /\ j < UINT
      BY <1>1, <1>2
  <1>6. \A j \in 0 .. (BPB - 1) : j % UINT = j
      BY <1>1, <1>5
  <1> QED
      BY <1>3, <1>4, <1>5, <1>6

\* The block that block_alloc() picks, when it is a block at all, is the first
\* free one of its bitmap block.
LEMMA VictimIsFree ==
    ASSUME TypeOK, CountersExact, FullHintIsMount, up, Victim \in Bits
    PROVE  /\ first_unalloced[first_free_cache] \in FreeIn(bmap, first_free_cache)
           /\ Victim = first_unalloced[first_free_cache] + first_free_cache * BPB
           /\ Victim \notin bmap
  <1> DEFINE i == first_free_cache
             j == first_unalloced[i]
  <1>1. i \in BmapBlocks /\ j \in -1 .. (BPB - 1)
      BY Types
  <1>2. j = FirstFree(bmap, i)
      BY <1>1 DEF CountersExact
  <1>3. j # -1
    <2> SUFFICES ASSUME j = -1 PROVE FALSE
        OBVIOUS
    <2>1. i = 0
        BY DEF FullHintIsMount
    <2>2. Victim = (-1 + 0 * BPB) % UINT
        BY <2>1 DEF Victim, bmap2blockno
    <2>3. -1 + 0 * BPB = -1
        BY AllocatorAssumption
    <2>4. Victim = UINT - 1
        BY <2>2, <2>3, MinusOne
    <2> QED
        BY <2>4, MinusOne
  <1>4. j \in FreeIn(bmap, i)
      BY <1>1, <1>2, <1>3, FirstFreeFacts
  <1>5. j \in 0 .. (BPB - 1) /\ bmap2blockno(j, i) \notin bmap
      BY <1>4 DEF FreeIn
  <1>6. Victim = j + i * BPB
      BY <1>1, <1>5, BitsOfBlock DEF Victim
  <1> QED
      BY <1>4, <1>5, <1>6 DEF Victim

\* After block_alloc() the summaries are again what a scan would find, and the
\* next call allocates from a bitmap block with room.
LEMMA AllocSummaries ==
    ASSUME TypeOK, CountersExact, FullHintIsMount, up, NEW t \in Threads, block_alloc(t)
    PROVE  /\ bmap' = bmap \cup {Victim} /\ cache_buf' = bmap'
           /\ \A i \in BmapBlocks : /\ n_alloced'[i] = BPB - Cardinality(FreeIn(bmap', i))
                                    /\ first_unalloced'[i] = FirstFree(bmap', i)
           /\ first_free_cache' \in BmapBlocks
           /\ first_unalloced'[first_free_cache'] # -1
  <1> DEFINE i == first_free_cache
             j == first_unalloced[i]
             F == FreeIn(bmap, i)
  <1>1. /\ i \in BmapBlocks /\ bmap \in SUBSET Bits /\ Victim \in Bits
        /\ first_unalloced \in [BmapBlocks -> -1 .. (BPB - 1)]
        /\ n_alloced \in [BmapBlocks -> 0 .. BPB]
      BY Types DEF block_alloc
  <1>2. j \in F /\ Victim = j + i * BPB /\ j \in 0 .. (BPB - 1)
      BY <1>1, VictimIsFree, FreeInFacts
  <1>3. cache_buf = bmap
      BY DEF CountersExact
  <1>4. bmap' = bmap \cup {Victim} /\ cache_buf' = bmap'
      BY <1>1, <1>3, OneBitSet DEF block_alloc
  <1>5. /\ FreeIn(bmap', i) = F \ {j}
        /\ \A k \in BmapBlocks : k # i => FreeIn(bmap', k) = FreeIn(bmap, k)
    <2>1. bmap' = bmap \cup {Victim} /\ Victim = j + i * BPB
        BY <1>2, <1>4
    <2>2. i \in BmapBlocks /\ bmap \in SUBSET Bits /\ j \in 0 .. (BPB - 1)
        BY <1>1, <1>2
    <2> HIDE DEF i, j
    <2>3. \A k \in BmapBlocks : \A l \in 0 .. (BPB - 1) :
            (bmap2blockno(l, k) = Victim) <=> (k = i /\ l = j)
        BY <2>1, <2>2, BitPlace
    <2> QED
        BY <2>1, <2>2, <2>3 DEF FreeIn
  <1>6. /\ F \in SUBSET Nat /\ IsFiniteSet(F) /\ Cardinality(F) \in 0 .. BPB
        /\ BPB \in Nat
        /\ n_alloced[i] = BPB - Cardinality(F)
        /\ j = FirstFree(bmap, i)
      BY <1>1, FreeInFacts, AllocatorAssumption DEF CountersExact
  <1>7. IsFiniteSet(F \ {j}) /\ Cardinality(F \ {j}) = Cardinality(F) - 1
      BY <1>2, <1>6, FS_RemoveElement
  <1>8. Fills(i) <=> F \ {j} = {}
    <2>1. Fills(i) <=> Cardinality(F \ {j}) = 0
        BY <1>6, <1>7 DEF Fills
    <2> QED
        BY <1>7, <2>1, FS_EmptySet
  <1>9. {k \in FreeIn(cache_buf', i) : k > j} = F \ {j}
    <2>1. \A k \in F : j <= k /\ k \in Nat /\ j \in Nat
        BY <1>1, <1>2, <1>6, FirstFreeFacts
    <2> QED
        BY <1>4, <1>5, <2>1
  <1>10. NextFree(i) = FirstFree(bmap', i)
      BY <1>5, <1>8, <1>9 DEF NextFree, FirstFree
  <1>11. \A k \in BmapBlocks :
            /\ n_alloced'[k] = IF k = i THEN n_alloced[i] + 1 ELSE n_alloced[k]
            /\ first_unalloced'[k] = IF k = i THEN NextFree(i) ELSE first_unalloced[k]
      BY <1>1 DEF block_alloc, CountUp
  <1>12. \A k \in BmapBlocks : n_alloced'[k] = BPB - Cardinality(FreeIn(bmap', k))
    <2>1. n_alloced'[i] = BPB - Cardinality(FreeIn(bmap', i))
        BY <1>1, <1>5, <1>6, <1>7, <1>11
    <2>2. \A k \in BmapBlocks : n_alloced[k] = BPB - Cardinality(FreeIn(bmap, k))
        BY DEF CountersExact
    <2> QED
        BY <1>5, <1>11, <2>1, <2>2
  <1>13. \A k \in BmapBlocks : first_unalloced'[k] = FirstFree(bmap', k)
    <2> SUFFICES ASSUME NEW k \in BmapBlocks PROVE first_unalloced'[k] = FirstFree(bmap', k)
        OBVIOUS
    <2>1. CASE k = i
        BY <1>10, <1>11, <2>1
    <2>2. CASE k # i
        BY <1>5, <1>11, <2>2 DEF CountersExact, FirstFree
    <2> QED
        BY <2>1, <2>2
  <1>14. first_free_cache' \in BmapBlocks /\ first_unalloced'[first_free_cache'] # -1
    <2>1. CASE ~ Fills(i)
      <3>1. first_free_cache' = i
          BY <2>1 DEF block_alloc, NextCache
      <3>2. FreeIn(bmap', i) # {}
          BY <1>5, <1>8, <2>1
      <3>3. FirstFree(bmap', i) # -1
          BY <1>1, <3>2, FirstFreeFacts
      <3> QED
          BY <1>1, <1>13, <3>1, <3>3
    <2>2. CASE Fills(i)
      <3> DEFINE Roomy == {k \in BmapBlocks : first_unalloced'[k] # -1}
      <3>1. PICK k \in BmapBlocks \ {i} : first_unalloced[k] # -1
          BY <2>2 DEF block_alloc, LastBlock
      <3>2. k \in Roomy
          BY <1>11, <3>1
      <3>3. Roomy \in SUBSET Nat
          BY DEF BmapBlocks
      <3>4. first_free_cache' = Least(Roomy)
          BY <2>2 DEF block_alloc, NextCache
      <3> HIDE DEF Roomy
      <3>5. Least(Roomy) \in Roomy
          BY <3>2, <3>3, LeastFacts
      <3> QED
          BY <3>4, <3>5 DEF Roomy
    <2> QED
        BY <2>1, <2>2
  <1> QED
      BY <1>4, <1>12, <1>13, <1>14

\* The same for block_free(); the comparison that moves the first clear bit is
\* unsigned and so also replaces the -1 of a full bitmap block.
LEMMA FreeSummaries ==
    ASSUME TypeOK, CountersExact, up, NEW t \in Threads, NEW b \in Bits, b \in bmap, block_free(t, b)
    PROVE  /\ bmap' = bmap \ {b} /\ cache_buf' = bmap'
           /\ \A i \in BmapBlocks : /\ n_alloced'[i] = BPB - Cardinality(FreeIn(bmap', i))
                                    /\ first_unalloced'[i] = FirstFree(bmap', i)
           /\ first_free_cache' \in BmapBlocks
           /\ first_unalloced'[first_free_cache'] # -1
  <1> DEFINE i == b \div BPB
             j == b % BPB
             F == FreeIn(bmap, i)
             f == first_unalloced[i]
  <1>1. /\ i \in BmapBlocks /\ j \in 0 .. (BPB - 1) /\ b = j + i * BPB
        /\ bmap \in SUBSET Bits /\ BPB \in Nat
        /\ first_unalloced \in [BmapBlocks -> -1 .. (BPB - 1)]
        /\ n_alloced \in [BmapBlocks -> 0 .. BPB]
      BY Types, BlockOfBit, AllocatorAssumption
  <1>2. cache_buf = bmap
      BY DEF CountersExact
  <1>3. bmap' = bmap \ {b} /\ cache_buf' = bmap'
      BY <1>1, <1>2, OneBitSet DEF block_free
  <1>4. /\ n_alloced' = [n_alloced EXCEPT ![i] = @ - 1]
        /\ first_unalloced' = [first_unalloced EXCEPT ![i] = IF AsUint(@) > j THEN j ELSE @]
        /\ first_free_cache' = i
      BY DEF block_free
  <1>5. j \notin F
    <2>1. bmap2blockno(j, i) = b
        BY <1>1, BitsOfBlock
    <2> QED
        BY <2>1 DEF FreeIn
  <1> HIDE DEF i, j
  <1>6. bmap' = bmap \ {b} /\ b = j + i * BPB
      BY <1>1, <1>3
  <1>7. /\ FreeIn(bmap', i) = F \cup {j}
        /\ \A k \in BmapBlocks : k # i => FreeIn(bmap', k) = FreeIn(bmap, k)
    <2>1. i \in BmapBlocks /\ bmap \in SUBSET Bits /\ j \in 0 .. (BPB - 1)
        BY <1>1
    <2>2. \A k \in BmapBlocks : \A l \in 0 .. (BPB - 1) :
            (bmap2blockno(l, k) = b) <=> (k = i /\ l = j)
        BY <1>6, <2>1, BitPlace
    <2> QED
        BY <1>6, <2>1, <2>2 DEF FreeIn
  <1>8. /\ F \in SUBSET Nat /\ IsFiniteSet(F) /\ Cardinality(F) \in 0 .. BPB
        /\ n_alloced[i] = BPB - Cardinality(F)
        /\ f = FirstFree(bmap, i)
      BY <1>1, FreeInFacts DEF CountersExact
  <1>9. IsFiniteSet(F \cup {j}) /\ Cardinality(F \cup {j}) = Cardinality(F) + 1
      BY <1>5, <1>8, FS_AddElement
  <1>10. \A k \in BmapBlocks :
            /\ n_alloced'[k] = IF k = i THEN n_alloced[i] - 1 ELSE n_alloced[k]
            /\ first_unalloced'[k] = IF k = i THEN (IF AsUint(f) > j THEN j ELSE f) ELSE first_unalloced[k]
      BY <1>1, <1>4
  <1>11. \A k \in BmapBlocks : n_alloced'[k] = BPB - Cardinality(FreeIn(bmap', k))
    <2>1. n_alloced'[i] = BPB - Cardinality(FreeIn(bmap', i))
        BY <1>1, <1>7, <1>8, <1>9, <1>10
    <2>2. \A k \in BmapBlocks : n_alloced[k] = BPB - Cardinality(FreeIn(bmap, k))
        BY DEF CountersExact
    <2> QED
        BY <1>7, <1>10, <2>1, <2>2
  <1>12. (IF AsUint(f) > j THEN j ELSE f) = FirstFree(bmap', i) /\ FirstFree(bmap', i) # -1
    <2> DEFINE G == FreeIn(bmap', i)
    <2>1. G = F \cup {j} /\ G # {} /\ G \in SUBSET Nat
        BY <1>1, <1>7, <1>8
    <2>2. FirstFree(bmap', i) = Least(G) /\ FirstFree(bmap', i) # -1
        BY <1>1, <2>1, FirstFreeFacts DEF FirstFree
    <2>3. \A x \in G : (\A k \in G : x <= k) => Least(G) = x
        BY <2>1, LeastFacts
    <2>4. CASE F = {}
      <3>1. f = -1
          BY <1>1, <1>8, <2>4, FirstFreeFacts
      <3>2. AsUint(f) > j
          BY <1>1, <3>1, MinusOne DEF AsUint
      <3>3. j \in G /\ \A k \in G : j <= k
          BY <1>1, <2>1, <2>4
      <3>4. Least(G) = j
          BY <2>3, <3>3
      <3> QED
          BY <2>2, <3>2, <3>4
    <2>5. CASE F # {}
      <3>1. f \in F /\ \A k \in F : f <= k
          BY <1>1, <1>8, <2>5, FirstFreeFacts
      <3>2. f \in 0 .. (BPB - 1)
          BY <1>1, <3>1, FreeInFacts
      <3>3. AsUint(f) = f
          BY <3>2, MinusOne DEF AsUint
      <3>4. CASE f > j
        <4>1. j \in G /\ \A k \in G : j <= k
            BY <1>1, <1>8, <2>1, <3>1, <3>2, <3>4
        <4>2. Least(G) = j
            BY <2>3, <4>1
        <4> QED
            BY <2>2, <3>3, <3>4, <4>2
      <3>5. CASE ~ (f > j)
        <4>1. f \in G /\ \A k \in G : f <= k
            BY <1>1, <1>8, <2>1, <3>1, <3>2, <3>5
        <4>2. Least(G) = f
            BY <2>3, <4>1
        <4> QED
            BY <2>2, <3>3, <3>5, <4>2
      <3> QED
          BY <3>4, <3>5
    <2> QED
        BY <2>4, <2>5
  <1>13. \A k \in BmapBlocks : first_unalloced'[k] = FirstFree(bmap', k)
    <2> SUFFICES ASSUME NEW k \in BmapBlocks PROVE first_unalloced'[k] = FirstFree(bmap', k)
        OBVIOUS
    <2>1. CASE k = i
        BY <1>10, <1>12, <2>1
    <2>2. CASE k # i
        BY <1>7, <1>10, <2>2 DEF CountersExact, FirstFree
    <2> QED
        BY <2>1, <2>2
  <1> QED
      BY <1>1, <1>3, <1>4, <1>11, <1>12, <1>13

-----------------------------------------------------------------------------
(* The inductive invariant.                                                *)

\* The exact summaries say which block an allocation takes, the ownership that
\* it was no one's; both are needed to show either.
Inv == AllocatorInv /\ AllocatedIsOwned

\* A mount or mkfs: no thread runs and what the disk holds is owned.
LEMMA InitInv == Init => Inv
  <1> SUFFICES ASSUME Init PROVE Inv
      OBVIOUS
  <1>1. init_meta_blocks_bmap \subseteq Bits
    <2>1. NBMAP * BPB \in Nat /\ Size \in Nat /\ NMeta \in Nat /\ NMeta < Size /\ Size <= NBMAP * BPB
        BY AllocatorAssumption
    <2> QED
        BY <2>1 DEF init_meta_blocks_bmap, Bits
  <1>2. 0 \in BmapBlocks /\ 0 \in -1 .. (BPB - 1) /\ 0 \in 0 .. BPB /\ NoBlock \notin Bits
      BY AllocatorAssumption DEF BmapBlocks, Bits
  <1>3. TypeOK
      BY <1>1, <1>2 DEF Init, TypeOK
  <1>4. CountersExact /\ FullHintIsMount /\ OperationsHeld
      BY DEF Init, CountersExact, FullHintIsMount, OperationsHeld
  <1>5. DurableOwned
      BY DEF Init, DurableOwned
  <1>6. AllocatedIsOwned
      BY <1>1, <1>2 DEF Init, AllocatedIsOwned
  <1> QED
      BY <1>3, <1>4, <1>5, <1>6 DEF Inv, AllocatorInv

\* block_allocator_refresh() computes the summaries afresh.
LEMMA RefreshInv == ASSUME Inv, block_allocator_refresh PROVE Inv'
  <1> USE DEF Inv, AllocatorInv
  <1>1. TypeOK'
    <2>1. \A i \in BmapBlocks : BPB - Cardinality(FreeIn(bmap, i)) \in 0 .. BPB
        BY FreeInFacts, AllocatorAssumption
    <2>2. \A i \in BmapBlocks : FirstFree(bmap, i) \in -1 .. (BPB - 1)
        BY FirstFreeFacts
    <2>3. 0 \in BmapBlocks
        BY AllocatorAssumption DEF BmapBlocks
    <2>4. n_alloced' \in [BmapBlocks -> 0 .. BPB]
        BY <2>1 DEF block_allocator_refresh
    <2>5. first_unalloced' \in [BmapBlocks -> -1 .. (BPB - 1)]
        BY <2>2 DEF block_allocator_refresh
    <2> QED
        BY <2>3, <2>4, <2>5 DEF TypeOK, block_allocator_refresh
  <1>2. CountersExact'
      BY DEF CountersExact, block_allocator_refresh, FreeIn, FirstFree
  <1>3. FullHintIsMount' /\ OperationsHeld'
      BY DEF FullHintIsMount, OperationsHeld, block_allocator_refresh
  <1>4. DurableOwned'
      BY DEF DurableOwned, block_allocator_refresh
  <1>5. AllocatedIsOwned'
      BY DEF AllocatedIsOwned, block_allocator_refresh
  <1> QED
      BY <1>1, <1>2, <1>3, <1>4, <1>5

\* The end of the process, wanted or not.
LEMMA DieInv == ASSUME Inv, Die PROVE Inv'
  <1> USE DEF Inv, AllocatorInv
  <1>1. TypeOK'
    <2>1. 0 \in BmapBlocks /\ 0 \in -1 .. (BPB - 1) /\ 0 \in 0 .. BPB
        BY AllocatorAssumption DEF BmapBlocks
    <2> QED
        BY <2>1 DEF TypeOK, Die
  <1>2. CountersExact' /\ FullHintIsMount' /\ OperationsHeld'
      BY DEF CountersExact, FullHintIsMount, OperationsHeld, Die
  <1>3. DurableOwned'
      BY DEF DurableOwned, Die
  <1>4. AllocatedIsOwned'
    <2>1. NoBlock \notin Bits /\ durable.owned \subseteq Bits /\ durable.bmap \subseteq Bits
        BY AllocatorAssumption DEF TypeOK, Bits
    <2>2. /\ bmap' = durable.bmap /\ owned' = durable.owned
          /\ \A t \in Threads : victim'[t] = NoBlock
        BY DEF Die
    <2>3. init_meta_blocks_bmap \subseteq Bits
        BY <2>1 DEF DurableOwned
    <2> QED
        BY <2>1, <2>2, <2>3 DEF AllocatedIsOwned, DurableOwned
  <1> QED
      BY <1>1, <1>2, <1>3, <1>4

\* Opening an operation.
LEMMA BeginInv == ASSUME Inv, NEW t \in Threads, begin_op(t) PROVE Inv'
  <1> USE DEF Inv, AllocatorInv
  <1>u. UNCHANGED <<bmap, cache_buf, first_unalloced, n_alloced, first_free_cache, owned, durable, victim, up>>
      BY DEF begin_op, cacheVars
  <1>1. TypeOK'
      BY <1>u DEF TypeOK, begin_op
  <1>2. CountersExact' /\ FullHintIsMount'
      BY <1>u DEF CountersExact, FullHintIsMount, FreeIn, FirstFree
  <1>3. OperationsHeld'
      BY <1>u DEF OperationsHeld, begin_op, TypeOK
  <1>4. DurableOwned' /\ AllocatedIsOwned'
      BY <1>u DEF DurableOwned, AllocatedIsOwned
  <1> QED
      BY <1>1, <1>2, <1>3, <1>4

\* Closing an operation.  The last one to close makes the bitmap durable; no
\* thread then holds a block that no inode refers to.
LEMMA EndInv == ASSUME Inv, NEW t \in Threads, end_op(t) PROVE Inv'
  <1> USE DEF Inv, AllocatorInv
  <1>u. UNCHANGED <<bmap, cache_buf, first_unalloced, n_alloced, first_free_cache, owned, victim, up>>
      BY DEF end_op, cacheVars
  <1>1. TypeOK'
      BY <1>u DEF TypeOK, end_op
  <1>2. CountersExact' /\ FullHintIsMount'
      BY <1>u DEF CountersExact, FullHintIsMount, FreeIn, FirstFree
  <1>3. OperationsHeld'
      BY <1>u DEF OperationsHeld, end_op, TypeOK
  <1>4. AllocatedIsOwned'
      BY <1>u DEF AllocatedIsOwned
  <1>5. DurableOwned'
    <2>1. CASE \A s \in Threads \ {t} : pc[s] = "idle"
      <3>1. durable' = [bmap |-> bmap, owned |-> owned]
          BY <2>1 DEF end_op
      <3>2. \A s \in Threads : pc[s] # "zero"
          BY <2>1 DEF end_op
      <3>3. \A s \in Threads : victim[s] = NoBlock
          BY <3>2 DEF OperationsHeld
      <3>4. bmap = init_meta_blocks_bmap \cup owned
          BY <3>3 DEF AllocatedIsOwned
      <3> QED
          BY <3>1, <3>4 DEF DurableOwned, AllocatedIsOwned
    <2>2. CASE ~ \A s \in Threads \ {t} : pc[s] = "idle"
        BY <2>2 DEF DurableOwned, end_op
    <2> QED
        BY <2>1, <2>2
  <1> QED
      BY <1>1, <1>2, <1>3, <1>4, <1>5

\* An allocation takes a block that was no one's, and its thread, which held
\* none, now holds it.
LEMMA AllocInv == ASSUME Inv, NEW t \in Threads, block_alloc(t) PROVE Inv'
  <1> USE DEF Inv, AllocatorInv
  <1>u. UNCHANGED <<owned, durable, up>>
      BY DEF block_alloc
  <1>1. pc[t] = "op" /\ up /\ victim[t] = NoBlock /\ Victim \in Bits
      BY DEF OperationsHeld, block_alloc
  <1>2. Victim \notin bmap
      BY <1>1, VictimIsFree
  <1>3. /\ bmap' = bmap \cup {Victim} /\ cache_buf' = bmap'
        /\ \A i \in BmapBlocks : /\ n_alloced'[i] = BPB - Cardinality(FreeIn(bmap', i))
                                 /\ first_unalloced'[i] = FirstFree(bmap', i)
        /\ first_free_cache' \in BmapBlocks
        /\ first_unalloced'[first_free_cache'] # -1
      BY <1>1, AllocSummaries
  <1>4. pc' = [pc EXCEPT ![t] = "zero"] /\ victim' = [victim EXCEPT ![t] = Victim]
      BY DEF block_alloc
  <1>5. TypeOK'
    <2>1. \A i \in BmapBlocks : n_alloced'[i] \in 0 .. BPB /\ first_unalloced'[i] \in -1 .. (BPB - 1)
        BY <1>3, FreeInFacts, FirstFreeFacts, AllocatorAssumption
    <2>2. DOMAIN n_alloced' = BmapBlocks /\ n_alloced' = [i \in DOMAIN n_alloced' |-> n_alloced'[i]]
        BY DEF block_alloc, CountUp, TypeOK
    <2>3. DOMAIN first_unalloced' = BmapBlocks /\ first_unalloced' = [i \in DOMAIN first_unalloced' |-> first_unalloced'[i]]
        BY DEF block_alloc, TypeOK
    <2>4. n_alloced' \in [BmapBlocks -> 0 .. BPB]
        BY <2>1, <2>2
    <2>5. first_unalloced' \in [BmapBlocks -> -1 .. (BPB - 1)]
        BY <2>1, <2>3
    <2> QED
        BY <1>u, <1>1, <1>3, <1>4, <2>4, <2>5 DEF TypeOK
  <1>6. CountersExact' /\ FullHintIsMount'
      BY <1>3 DEF CountersExact, FullHintIsMount, FreeIn, FirstFree
  <1>7. OperationsHeld'
      BY <1>u, <1>1, <1>4, Types DEF OperationsHeld, TypeOK
  <1>8. DurableOwned'
      BY <1>u DEF DurableOwned
  <1>9. AllocatedIsOwned'
    <2>1. \A s \in Threads : victim'[s] = IF s = t THEN Victim ELSE victim[s]
        BY <1>4 DEF TypeOK
    <2>2. Victim # NoBlock
        BY <1>1, Types
    <2>3. \A s \in Threads : victim[s] # Victim
        BY <1>2, <2>2 DEF AllocatedIsOwned
    <2>4. {victim'[s] : s \in Threads} \ {NoBlock} = ({victim[s] : s \in Threads} \ {NoBlock}) \cup {Victim}
        BY <1>1, <2>1, <2>2
    <2>5. bmap' = init_meta_blocks_bmap \cup owned' \cup ({victim'[s] : s \in Threads} \ {NoBlock})
        BY <1>u, <1>3, <2>4 DEF AllocatedIsOwned
    <2>6. \A s \in Threads :
            /\ victim'[s] \notin owned' \cup init_meta_blocks_bmap
            /\ \A r \in Threads : victim'[r] = victim'[s] => r = s \/ victim'[s] = NoBlock
        BY <1>u, <1>2, <2>1, <2>3 DEF AllocatedIsOwned
    <2> QED
        BY <1>u, <2>5, <2>6 DEF AllocatedIsOwned
  <1> QED
      BY <1>5, <1>6, <1>7, <1>8, <1>9

\* The zeroed block goes from the thread to an inode.
LEMMA ZeroInv == ASSUME Inv, NEW t \in Threads, logged_zero_a_block(t) PROVE Inv'
  <1> USE DEF Inv, AllocatorInv
  <1>u. UNCHANGED <<bmap, cache_buf, first_unalloced, n_alloced, first_free_cache, durable, up>>
      BY DEF logged_zero_a_block, cacheVars
  <1>1. /\ pc[t] = "zero" /\ victim[t] # NoBlock
        /\ owned' = owned \cup {victim[t]}
        /\ pc' = [pc EXCEPT ![t] = "op"] /\ victim' = [victim EXCEPT ![t] = NoBlock]
      BY DEF OperationsHeld, logged_zero_a_block
  <1>2. victim[t] \in Bits
      BY <1>1 DEF TypeOK
  <1>3. TypeOK'
      BY <1>u, <1>1, <1>2 DEF TypeOK
  <1>4. CountersExact' /\ FullHintIsMount'
      BY <1>u DEF CountersExact, FullHintIsMount, FreeIn, FirstFree
  <1>5. OperationsHeld'
      BY <1>u, <1>1 DEF OperationsHeld, TypeOK
  <1>6. DurableOwned'
      BY <1>u DEF DurableOwned
  <1>7. AllocatedIsOwned'
    <2>1. \A s \in Threads : victim'[s] = IF s = t THEN NoBlock ELSE victim[s]
        BY <1>1 DEF TypeOK
    <2>2. {victim[s] : s \in Threads} \ {NoBlock} = ({victim'[s] : s \in Threads} \ {NoBlock}) \cup {victim[t]}
        BY <1>1, <2>1
    <2>3. bmap' = init_meta_blocks_bmap \cup owned' \cup ({victim'[s] : s \in Threads} \ {NoBlock})
        BY <1>u, <1>1, <2>2 DEF AllocatedIsOwned
    <2>4. NoBlock \notin owned \cup init_meta_blocks_bmap
      <3>1. bmap \subseteq Bits /\ NoBlock \notin Bits
          BY Types
      <3> QED
          BY <3>1 DEF AllocatedIsOwned
    <2>5. \A s \in Threads :
            /\ victim'[s] \notin owned' \cup init_meta_blocks_bmap
            /\ \A r \in Threads : victim'[r] = victim'[s] => r = s \/ victim'[s] = NoBlock
        BY <1>1, <2>1, <2>4 DEF AllocatedIsOwned
    <2>6. init_meta_blocks_bmap \cap owned' = {}
        BY <1>1 DEF AllocatedIsOwned
    <2> QED
        BY <2>3, <2>5, <2>6 DEF AllocatedIsOwned
  <1> QED
      BY <1>3, <1>4, <1>5, <1>6, <1>7

\* A release clears the bit of a block that an inode referred to and that no
\* thread holds.
LEMMA FreeInv == ASSUME Inv, NEW t \in Threads, NEW b \in Bits, block_free(t, b) PROVE Inv'
  <1> USE DEF Inv, AllocatorInv
  <1>u. UNCHANGED <<durable, pc, victim, up>> /\ owned' = owned \ {b} /\ b \in owned
      BY DEF block_free
  <1>1. up /\ b \in bmap
      BY <1>u DEF OperationsHeld, block_free, AllocatedIsOwned
  <1>2. /\ bmap' = bmap \ {b} /\ cache_buf' = bmap'
        /\ \A i \in BmapBlocks : /\ n_alloced'[i] = BPB - Cardinality(FreeIn(bmap', i))
                                 /\ first_unalloced'[i] = FirstFree(bmap', i)
        /\ first_free_cache' \in BmapBlocks
        /\ first_unalloced'[first_free_cache'] # -1
      BY <1>1, FreeSummaries
  <1>3. TypeOK'
    <2>1. \A i \in BmapBlocks : n_alloced'[i] \in 0 .. BPB /\ first_unalloced'[i] \in -1 .. (BPB - 1)
        BY <1>2, FreeInFacts, FirstFreeFacts, AllocatorAssumption
    <2>2. DOMAIN n_alloced' = BmapBlocks /\ n_alloced' = [i \in DOMAIN n_alloced' |-> n_alloced'[i]]
        BY DEF block_free, TypeOK
    <2>3. DOMAIN first_unalloced' = BmapBlocks /\ first_unalloced' = [i \in DOMAIN first_unalloced' |-> first_unalloced'[i]]
        BY DEF block_free, TypeOK
    <2>4. n_alloced' \in [BmapBlocks -> 0 .. BPB]
        BY <2>1, <2>2
    <2>5. first_unalloced' \in [BmapBlocks -> -1 .. (BPB - 1)]
        BY <2>1, <2>3
    <2> QED
        BY <1>u, <1>2, <2>4, <2>5 DEF TypeOK
  <1>4. CountersExact' /\ FullHintIsMount'
      BY <1>2 DEF CountersExact, FullHintIsMount, FreeIn, FirstFree
  <1>5. OperationsHeld' /\ DurableOwned'
      BY <1>u DEF OperationsHeld, DurableOwned
  <1>6. AllocatedIsOwned'
    <2>1. \A s \in Threads : victim[s] # b
        BY <1>u DEF AllocatedIsOwned
    <2>2. b \notin init_meta_blocks_bmap
        BY <1>u DEF AllocatedIsOwned
    <2>3. bmap' = init_meta_blocks_bmap \cup owned' \cup ({victim'[s] : s \in Threads} \ {NoBlock})
        BY <1>u, <1>2, <2>1, <2>2 DEF AllocatedIsOwned
    <2> QED
        BY <1>u, <2>3 DEF AllocatedIsOwned
  <1> QED
      BY <1>3, <1>4, <1>5, <1>6

-----------------------------------------------------------------------------
(* The theorems.                                                           *)

\* Every step keeps the invariant.
LEMMA NextInv == Inv /\ [Next]_vars => Inv'
  <1> SUFFICES ASSUME Inv, [Next]_vars PROVE Inv'
      OBVIOUS
  <1>1. CASE block_allocator_refresh
      BY <1>1, RefreshInv
  <1>2. CASE Crash
      BY <1>2, DieInv DEF Crash
  <1>3. ASSUME NEW t \in Threads, begin_op(t) PROVE Inv'
      BY <1>3, BeginInv
  <1>4. ASSUME NEW t \in Threads, end_op(t) PROVE Inv'
      BY <1>4, EndInv
  <1>5. ASSUME NEW t \in Threads, block_alloc(t) PROVE Inv'
      BY <1>5, AllocInv
  <1>6. ASSUME NEW t \in Threads, block_alloc_dies(t) PROVE Inv'
      BY <1>6, DieInv DEF block_alloc_dies
  <1>7. ASSUME NEW t \in Threads, logged_zero_a_block(t) PROVE Inv'
      BY <1>7, ZeroInv
  <1>8. ASSUME NEW t \in Threads, NEW b \in Bits, block_free(t, b) PROVE Inv'
      BY <1>8, FreeInv
  <1>9. CASE UNCHANGED vars
    <2> USE DEF Inv, AllocatorInv
    <2>1. TypeOK'
        BY <1>9 DEF vars, TypeOK
    <2>2. CountersExact' /\ FullHintIsMount'
        BY <1>9 DEF vars, CountersExact, FullHintIsMount, FreeIn, FirstFree
    <2>3. OperationsHeld' /\ DurableOwned' /\ AllocatedIsOwned'
        BY <1>9 DEF vars, OperationsHeld, DurableOwned, AllocatedIsOwned
    <2> QED
        BY <2>1, <2>2, <2>3
  <1> QED
      BY <1>1, <1>2, <1>3, <1>4, <1>5, <1>6, <1>7, <1>8, <1>9 DEF Next

\* The strengthened invariant holds in every reachable state, whatever the
\* number of threads and the size of the bitmap.
THEOREM AllocatorInvariance == Spec => []Inv
  BY InitInv, NextInv, PTL DEF Spec

\* block_alloc() and block_free() keep the copy of the bitmap, the counts and
\* the first clear bits exactly as block_allocator_refresh() would compute
\* them, also where the int first_unalloced is compared as unsigned.
THEOREM SummariesExact == Spec => []AllocatorInv
  <1>1. Inv => AllocatorInv
      BY DEF Inv
  <1> QED
      BY <1>1, AllocatorInvariance, PTL

\* block_alloc() never hands out a block that is in use, and no crash or
\* release loses one: the set bits are exactly what is owned or handed out.
THEOREM NoBlockTwice == Spec => []AllocatedIsOwned
  <1>1. Inv => AllocatedIsOwned
      BY DEF Inv
  <1> QED
      BY <1>1, AllocatorInvariance, PTL

\* Only block_allocator_refresh() can leave first_free_cache at a full bitmap
\* block: from one with room, block_alloc() and block_free() go to one with
\* room, also when they fill that bitmap block.
THEOREM HintKept == Spec => HintStaysGood
  <1>1. Inv /\ [Next]_vars => [up /\ HintHasRoom /\ up' => HintHasRoom']_vars
    <2> SUFFICES ASSUME Inv, Next, up, HintHasRoom, up' PROVE HintHasRoom'
        OBVIOUS
    <2>1. TypeOK /\ CountersExact /\ FullHintIsMount /\ OperationsHeld
        BY DEF Inv, AllocatorInv
    <2>2. CASE block_allocator_refresh \/ Crash \/ \E t \in Threads : block_alloc_dies(t)
        BY <2>2 DEF block_allocator_refresh, Crash, block_alloc_dies, Die
    <2>3. ASSUME NEW t \in Threads, begin_op(t) \/ end_op(t) \/ logged_zero_a_block(t) PROVE HintHasRoom'
        BY <2>3 DEF begin_op, end_op, logged_zero_a_block, cacheVars, HintHasRoom
    <2>4. ASSUME NEW t \in Threads, block_alloc(t) PROVE HintHasRoom'
        BY <2>1, <2>4, AllocSummaries DEF HintHasRoom
    <2>5. ASSUME NEW t \in Threads, NEW b \in Bits, block_free(t, b) PROVE HintHasRoom'
      <3>1. b \in bmap
          BY <2>5 DEF block_free, Inv, AllocatedIsOwned
      <3> QED
          BY <2>1, <2>5, <3>1, FreeSummaries DEF HintHasRoom
    <2> QED
        BY <2>2, <2>3, <2>4, <2>5 DEF Next
  <1> QED
      BY <1>1, AllocatorInvariance, PTL DEF Spec, HintStaysGood
=============================================================================
