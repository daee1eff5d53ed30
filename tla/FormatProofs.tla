---------------------------- MODULE FormatProofs ----------------------------
(***************************************************************************)
(* Proofs about Format, for every size of the regions and of the disk that *)
(* leaves room for the metadata: what mkfs leaves is complete, and what is *)
(* mounted after it was killed is the old file system, the new one, or     *)
(* nothing.                                                                *)
(***************************************************************************)
EXTENDS Format, FiniteSetTheorems, TLAPS

-----------------------------------------------------------------------------
(* Division: block numbers and places in a block.                          *)

\* What quotient and remainder are.
LEMMA Division ==
    ASSUME NEW d \in Nat \ {0}, NEW x \in Nat
    PROVE  /\ x \div d \in Nat /\ x % d \in 0 .. (d - 1)
           /\ (x \div d) * d \in Nat
           /\ x = (x % d) + (x \div d) * d
  <1>1. x \div d \in Nat /\ x % d \in 0 .. (d - 1)
      OBVIOUS
  <1>2. x = (x % d) + (x \div d) * d
      OBVIOUS
  <1>3. (x \div d) * d \in Nat
      BY <1>1
  <1> QED
      BY <1>1, <1>2, <1>3

\* More blocks of size d are more bytes.
LEMMA MoreIsMore ==
    ASSUME NEW d \in Nat \ {0}, NEW x \in Nat, NEW y \in Nat, x <= y
    PROVE  x * d \in Nat /\ y * d \in Nat /\ x * d <= y * d
  OBVIOUS

\* A place in front of block q is in a block in front of it.
LEMMA QuotientBelow ==
    ASSUME NEW d \in Nat \ {0}, NEW x \in Nat, NEW q \in Nat, x < q * d
    PROVE  x \div d < q
  <1> DEFINE k == x \div d
  <1>1. k \in Nat /\ x % d \in 0 .. (d - 1) /\ k * d \in Nat /\ x = (x % d) + k * d
      BY Division
  <1> HIDE DEF k
  <1>2. SUFFICES ASSUME q <= k PROVE FALSE
      BY <1>1 DEF k
  <1>3. q * d \in Nat /\ q * d <= k * d
      BY <1>1, <1>2, MoreIsMore
  <1> QED
      BY <1>1, <1>3

\* There is one way to write a number as a block and a place in it.
LEMMA QuotientOf ==
    ASSUME NEW d \in Nat \ {0}, NEW q \in Nat, NEW r \in 0 .. (d - 1)
    PROVE  /\ q * d + r \in Nat /\ q * d + r < (q + 1) * d
           /\ (q * d + r) \div d = q /\ (q * d + r) % d = r
  <1> DEFINE x == q * d + r
             k == x \div d
  <1>1. q * d \in Nat /\ (q + 1) * d = q * d + d
      OBVIOUS
  <1>2. x \in Nat /\ x = q * d + r
      BY <1>1
  <1> HIDE DEF x
  <1>3. k \in Nat /\ x % d \in 0 .. (d - 1) /\ k * d \in Nat /\ x = (x % d) + k * d
      BY <1>2, Division
  <1>4. k < q + 1
      BY <1>1, <1>2, QuotientBelow
  <1> HIDE DEF k
  <1>5. ~ (k + 1 <= q)
    <2> SUFFICES ASSUME k + 1 <= q PROVE FALSE
        OBVIOUS
    <2>1. (k + 1) * d <= q * d /\ (k + 1) * d = k * d + d
        BY <1>3
    <2> QED
        BY <1>1, <1>2, <1>3, <2>1
  <1>6. k = q
      BY <1>3, <1>4, <1>5
  <1>7. x % d = r
      BY <1>1, <1>2, <1>3, <1>6
  <1> QED
      BY <1>1, <1>2, <1>6, <1>7 DEF x, k

-----------------------------------------------------------------------------
(* The layout.                                                             *)

\* What the constants are.
LEMMA FormatNumbers ==
    /\ NLOG \in Nat \ {0} /\ BPB \in Nat \ {0} /\ BPB >= 2 /\ IPB \in Nat \ {0} /\ IPB >= 2
    /\ Ratio \in Nat \ {0} /\ UintRange \in Nat \ {0} /\ MaxBlocks \in Nat /\ MinBlocks \in Nat
    /\ Sizes \subseteq 0 .. MaxBlocks
  BY FormatAssumption

\* The bitmap has a bit for every block, and less than one block too many.
LEMMA BitmapCovers ==
    ASSUME NEW n \in Nat
    PROVE  /\ Nbitmap(n) \in Nat /\ Nbitmap(n) * BPB \in Nat
           /\ n <= Nbitmap(n) * BPB /\ Nbitmap(n) * BPB <= n + BPB - 1
  <1> DEFINE e == n + BPB - 1
             q == e \div BPB
  <1>1. e \in Nat /\ e = n + BPB - 1
      BY FormatNumbers
  <1> HIDE DEF e
  <1>2. q \in Nat /\ e % BPB \in 0 .. (BPB - 1) /\ q * BPB \in Nat /\ e = (e % BPB) + q * BPB
      BY <1>1, FormatNumbers, Division
  <1>3. Nbitmap(n) = q
      BY DEF Nbitmap, e
  <1> HIDE DEF q
  <1> QED
      BY <1>1, <1>2, <1>3, FormatNumbers

\* A uint keeps a number that is small enough.
LEMMA UintKeeps ==
    ASSUME NEW x \in 0 .. (UintRange - 1)
    PROVE  x % UintRange = x
  <1>1. 0 * UintRange + x = x
      BY FormatNumbers
  <1>2. (0 * UintRange + x) % UintRange = x
      BY FormatNumbers, QuotientOf
  <1> QED
      BY <1>1, <1>2

\* The regions that init_super_block() lays out: the log, at least one block
\* of inodes, the bitmap, and the data blocks.
LEMMA Layout ==
    ASSUME LayoutFits, NEW n \in Sizes
    PROVE  LET sb == init_super_block(n) IN
           /\ n \in Nat /\ n <= MaxBlocks
           /\ sb.size = n /\ sb.logstart = 2 /\ sb.inodestart = 2 + NLOG
           /\ sb.bmapstart \in Nat /\ sb.inodestart + 1 <= sb.bmapstart
           /\ sb.ninodes = (sb.bmapstart - sb.inodestart) * IPB
           /\ MetaEnd(n) \in Nat /\ MetaEnd(n) = sb.bmapstart + Nbitmap(n) /\ MetaEnd(n) <= n
           /\ nmeta_blocks(sb) = MetaEnd(n)
           /\ sb.nblocks = n - MetaEnd(n)
  <1> DEFINE sb == init_super_block(n)
             nib == n \div Ratio + 1
             m == MetaEnd(n)
  <1>1. n \in Nat /\ n <= MaxBlocks
      BY FormatNumbers
  <1>2. nib \in Nat /\ nib >= 1
    <2>1. n \div Ratio \in Nat
        BY <1>1, FormatNumbers, Division
    <2> QED
        BY <2>1
  <1>3. Nbitmap(n) \in Nat
      BY <1>1, BitmapCovers
  <1>4. m <= n /\ n < UintRange
      BY DEF LayoutFits
  <1> HIDE DEF nib
  <1>5. /\ sb.size = n /\ sb.logstart = 2 /\ sb.inodestart = 2 + NLOG /\ sb.bmapstart = 2 + NLOG + nib
        /\ sb.ninodes = nib * IPB /\ sb.nblocks = (n - (2 + NLOG + nib + Nbitmap(n))) % UintRange
      BY DEF init_super_block, nib
  <1>6. m = 2 + NLOG + nib + Nbitmap(n)
      BY <1>5 DEF MetaEnd
  <1>7. nmeta_blocks(sb) = (n - sb.nblocks) % UintRange
      BY <1>5 DEF nmeta_blocks
  <1> HIDE DEF sb, m
  <1>8. m \in Nat /\ n - m \in 0 .. (UintRange - 1) /\ m \in 0 .. (UintRange - 1)
      BY <1>1, <1>2, <1>3, <1>4, <1>6, FormatNumbers
  <1>9. sb.nblocks = n - m
    <2>1. sb.nblocks = (n - m) % UintRange
        BY <1>5, <1>6
    <2> QED
        BY <1>8, <2>1, UintKeeps
  <1>10. nmeta_blocks(sb) = m
    <2>1. n - (n - m) = m
        BY <1>1, <1>8
    <2> QED
        BY <1>7, <1>8, <1>9, <2>1, UintKeeps
  <1>11. sb.bmapstart - sb.inodestart = nib
      BY <1>2, <1>5, FormatNumbers
  <1>12. /\ sb.bmapstart \in Nat /\ sb.inodestart + 1 <= sb.bmapstart /\ sb.ninodes = (sb.bmapstart - sb.inodestart) * IPB
         /\ m = sb.bmapstart + Nbitmap(n)
      BY <1>2, <1>3, <1>5, <1>6, <1>11, FormatNumbers
  <1> QED
      BY <1>1, <1>4, <1>5, <1>8, <1>9, <1>10, <1>12 DEF sb, m

\* The same for the size of the disk at hand.
LEMMA Regions ==
    ASSUME LayoutFits, size \in Sizes
    PROVE  /\ size \in Nat /\ size <= MaxBlocks
           /\ S.size = size /\ S.logstart = 2 /\ S.inodestart = 2 + NLOG
           /\ S.bmapstart \in Nat /\ 3 + NLOG <= S.bmapstart
           /\ S.ninodes = (S.bmapstart - S.inodestart) * IPB
           /\ MetaEnd(size) \in Nat /\ MetaEnd(size) = S.bmapstart + Nbitmap(size) /\ MetaEnd(size) <= size
           /\ nmeta_blocks(S) = MetaEnd(size) /\ S.nblocks = size - MetaEnd(size)
           /\ Nbitmap(size) \in Nat /\ Nbitmap(size) * BPB \in Nat
           /\ size <= Nbitmap(size) * BPB /\ Nbitmap(size) * BPB <= size + BPB - 1
  <1>1. /\ size \in Nat /\ size <= MaxBlocks
        /\ S.size = size /\ S.logstart = 2 /\ S.inodestart = 2 + NLOG
        /\ S.bmapstart \in Nat /\ S.inodestart + 1 <= S.bmapstart
        /\ S.ninodes = (S.bmapstart - S.inodestart) * IPB
        /\ MetaEnd(size) \in Nat /\ MetaEnd(size) = S.bmapstart + Nbitmap(size) /\ MetaEnd(size) <= size
        /\ nmeta_blocks(S) = MetaEnd(size) /\ S.nblocks = size - MetaEnd(size)
      BY Layout DEF S
  <1>2. 3 + NLOG <= S.bmapstart
      BY <1>1, FormatNumbers
  <1> QED
      BY <1>1, <1>2, BitmapCovers

-----------------------------------------------------------------------------
(* The bitmap.                                                             *)

\* The bit of a block is in a block of the bitmap.
LEMMA BitPlace ==
    ASSUME LayoutFits, size \in Sizes, NEW b \in 0 .. Nbitmap(size) * BPB - 1
    PROVE  /\ b % BPB \in 0 .. (BPB - 1) /\ BBLOCK(S, b) \in S.bmapstart .. MetaEnd(size) - 1
           /\ b \div BPB \in 0 .. Nbitmap(size) - 1 /\ BBLOCK(S, b) = S.bmapstart + b \div BPB
           /\ b = (b \div BPB) * BPB + (b % BPB)
  <1> DEFINE k == b \div BPB
             r == b % BPB
             nb == Nbitmap(size)
  <1>1. b \in Nat /\ nb \in Nat /\ b < nb * BPB
      BY Regions
  <1>2. k \in Nat /\ r \in 0 .. (BPB - 1) /\ k * BPB \in Nat /\ b = r + k * BPB
      BY <1>1, FormatNumbers, Division
  <1>3. k < nb
      BY <1>1, FormatNumbers, QuotientBelow
  <1>4. BBLOCK(S, b) = k + S.bmapstart
      BY DEF BBLOCK
  <1> HIDE DEF k, r
  <1>5. MetaEnd(size) = S.bmapstart + nb /\ S.bmapstart \in Nat
      BY Regions
  <1>6. b = k * BPB + r
      BY <1>2, FormatNumbers
  <1> HIDE DEF nb
  <1>7. BBLOCK(S, b) \in S.bmapstart .. MetaEnd(size) - 1 /\ BBLOCK(S, b) = S.bmapstart + k /\ k \in 0 .. nb - 1
      BY <1>1, <1>2, <1>3, <1>4, <1>5
  <1> QED
      BY <1>2, <1>6, <1>7, Zenon DEF k, r, nb

\* The bitmap of a disk d.
BitsOf(d) == UNION {{k * BPB + b : b \in d[S.bmapstart + k].set} : k \in 0 .. Nbitmap(S.size) - 1}

\* What block_allocator_refresh() reads is, for each block, its bit.
LEMMA BitsAre ==
    ASSUME LayoutFits, size \in Sizes, NEW d,
           \A b \in S.bmapstart .. MetaEnd(size) - 1 : d[b].set \subseteq 0 .. BPB - 1
    PROVE  \A b : b \in BitsOf(d) <=>
                b \in 0 .. Nbitmap(size) * BPB - 1 /\ b % BPB \in d[BBLOCK(S, b)].set
  <1> DEFINE nb == Nbitmap(size)
             bm == S.bmapstart
  <1>1. S.size = size /\ nb \in Nat /\ nb * BPB \in Nat /\ bm \in Nat /\ MetaEnd(size) = bm + nb
      BY Regions
  <1>2. ASSUME NEW b, b \in BitsOf(d)
        PROVE  b \in 0 .. nb * BPB - 1 /\ b % BPB \in d[BBLOCK(S, b)].set
    <2>1. PICK k \in 0 .. nb - 1 : b \in {k * BPB + x : x \in d[bm + k].set}
        BY <1>1, <1>2 DEF BitsOf
    <2>2. PICK x \in d[bm + k].set : b = k * BPB + x
        BY <2>1
    <2>3. bm + k \in bm .. MetaEnd(size) - 1 /\ k \in Nat /\ k + 1 <= nb
      <3> HIDE DEF bm, nb
      <3> QED
          BY <1>1, <2>1
    <2>4. x \in 0 .. BPB - 1
        BY <2>2, <2>3
    <2>5. b \in Nat /\ b < (k + 1) * BPB /\ b \div BPB = k /\ b % BPB = x
        BY <2>2, <2>3, <2>4, FormatNumbers, QuotientOf
    <2>6. (k + 1) * BPB <= nb * BPB /\ (k + 1) * BPB \in Nat
      <3> HIDE DEF nb
      <3> QED
          BY <1>1, <2>3, FormatNumbers, MoreIsMore
    <2>7. BBLOCK(S, b) = bm + k
      <3>1. BBLOCK(S, b) = k + bm
          BY <2>5 DEF BBLOCK
      <3> HIDE DEF bm
      <3> QED
          BY <1>1, <2>3, <3>1
    <2>8. b \in 0 .. nb * BPB - 1
      <3> HIDE DEF nb
      <3> QED
          BY <1>1, <2>5, <2>6
    <2> QED
        BY <2>2, <2>5, <2>7, <2>8
  <1>3. ASSUME NEW b \in 0 .. nb * BPB - 1, b % BPB \in d[BBLOCK(S, b)].set
        PROVE  b \in BitsOf(d)
    <2>1. b \div BPB \in 0 .. nb - 1 /\ BBLOCK(S, b) = bm + b \div BPB /\ b = (b \div BPB) * BPB + (b % BPB)
        BY BitPlace
    <2> DEFINE k == b \div BPB
               r == b % BPB
    <2>2. k \in 0 .. nb - 1 /\ r \in d[bm + k].set /\ b = k * BPB + r
        BY <1>3, <2>1, Zenon
    <2> HIDE DEF k, r
    <2>3. b \in {k * BPB + x : x \in d[bm + k].set}
        BY <2>2
    <2> QED
        BY <1>1, <2>2, <2>3 DEF BitsOf
  <1> QED
      BY <1>2, <1>3

\* A step that leaves the size alone leaves the layout alone.
LEMMA SameLayout ==
    ASSUME UNCHANGED size
    PROVE  /\ S' = S /\ MetaEnd(size)' = MetaEnd(size) /\ Nbitmap(size)' = Nbitmap(size)
           /\ Bits = BitsOf(disk) /\ Bits' = BitsOf(disk')
           /\ nmeta_blocks(S)' = nmeta_blocks(S)
  BY DEF S, Bits, BitsOf

\* bmap_set() of a block adds one bit.
LEMMA OneBitMore ==
    ASSUME LayoutFits, TypeOK, BitsInBlocks, UNCHANGED size, NEW a \in 0 .. Nbitmap(size) * BPB - 1, SetBit(a)
    PROVE  /\ Bits' = Bits \cup {a} /\ cache' = cache \cup {a} /\ BitsInBlocks'
           /\ disk' \in [0 .. MaxBlocks - 1 -> [kind : {"old", "data", "super"}, set : SUBSET Nat]]
           /\ \A b \in 0 .. S.bmapstart - 1 : disk'[b] = disk[b]
  <1> DEFINE x == BBLOCK(S, a)
             r == a % BPB
             bm == S.bmapstart
             m == MetaEnd(size)
             nb == Nbitmap(size)
  <1>1. /\ size \in Sizes
        /\ disk \in [0 .. MaxBlocks - 1 -> [kind : {"old", "data", "super"}, set : SUBSET Nat]]
      BY DEF TypeOK
  <1>2. bm \in Nat /\ m \in Nat /\ m <= MaxBlocks /\ MaxBlocks \in Nat /\ bm <= m
    <2>1. /\ size \in Nat /\ size <= MaxBlocks /\ bm \in Nat /\ m \in Nat /\ m = bm + nb /\ m <= size /\ nb \in Nat
          /\ MaxBlocks \in Nat
        BY <1>1, Regions, FormatNumbers, Zenon
    <2> HIDE DEF bm, m, nb
    <2> QED
        BY <2>1
  <1>3. x \in bm .. m - 1 /\ r \in 0 .. (BPB - 1)
      BY <1>1, BitPlace
  <1>4. cache' = cache \cup {a} /\ disk' = [disk EXCEPT ![x].set = @ \cup {r}]
      BY DEF SetBit
  <1>5. x \in 0 .. MaxBlocks - 1 /\ r \in Nat
    <2> HIDE DEF bm, m, x, r
    <2> QED
        BY <1>2, <1>3, FormatNumbers
  <1>6. S' = S /\ MetaEnd(size)' = m /\ Bits = BitsOf(disk) /\ Bits' = BitsOf(disk')
      BY SameLayout
  <1>7. \A b \in bm .. m - 1 : disk[b].set \subseteq 0 .. BPB - 1
      BY DEF BitsInBlocks
  <1>8. BBLOCK(S, a) = x /\ a % BPB = r
      OBVIOUS
  <1> HIDE DEF bm, m, x, r
  <1>9. /\ disk' \in [0 .. MaxBlocks - 1 -> [kind : {"old", "data", "super"}, set : SUBSET Nat]]
        /\ disk'[x].set = disk[x].set \cup {r} /\ \A b \in 0 .. MaxBlocks - 1 : b # x => disk'[b] = disk[b]
      BY <1>1, <1>4, <1>5
  <1>10. \A b \in bm .. m - 1 : b \in 0 .. MaxBlocks - 1 /\ disk'[b].set \subseteq 0 .. BPB - 1
      BY <1>2, <1>3, <1>7, <1>9
  <1>11. BitsInBlocks'
      BY <1>6, <1>10 DEF BitsInBlocks, bm
  <1>12. \A b \in 0 .. bm - 1 : disk'[b] = disk[b]
      BY <1>2, <1>3, <1>9
  <1>13. ASSUME NEW b PROVE b \in BitsOf(disk') <=> b \in BitsOf(disk) \cup {a}
    <2>1. b \in BitsOf(disk) <=> b \in 0 .. nb * BPB - 1 /\ b % BPB \in disk[BBLOCK(S, b)].set
        BY <1>1, <1>7, BitsAre DEF bm, m
    <2>2. b \in BitsOf(disk') <=> b \in 0 .. nb * BPB - 1 /\ b % BPB \in disk'[BBLOCK(S, b)].set
        BY <1>1, <1>10, BitsAre DEF bm, m
    <2>3. CASE b \notin 0 .. nb * BPB - 1
        BY <2>1, <2>2, <2>3
    <2>4. CASE b \in 0 .. nb * BPB - 1
      <3>1. /\ BBLOCK(S, b) \in bm .. m - 1 /\ BBLOCK(S, b) = bm + b \div BPB
            /\ b = (b \div BPB) * BPB + (b % BPB) /\ b \div BPB \in 0 .. nb - 1
          BY <1>1, <2>4, BitPlace DEF bm, m
      <3>2. x = bm + a \div BPB /\ a = (a \div BPB) * BPB + r /\ a \div BPB \in 0 .. nb - 1
          BY <1>1, <1>8, BitPlace, Zenon DEF bm
      <3> DEFINE kb == b \div BPB
                 ka == a \div BPB
                 rb == b % BPB
                 y == BBLOCK(S, b)
      <3>3. /\ y \in bm .. m - 1 /\ y = bm + kb /\ b = kb * BPB + rb /\ kb \in Nat
            /\ x = bm + ka /\ a = ka * BPB + r /\ ka \in Nat
        <4>1. 0 .. nb - 1 \subseteq Nat
            OBVIOUS
        <4> QED
            BY <3>1, <3>2, <4>1, Zenon
      <3>4. b \in BitsOf(disk) <=> rb \in disk[y].set
          BY <2>1, <2>4
      <3>5. b \in BitsOf(disk') <=> rb \in disk'[y].set
          BY <2>2, <2>4
      <3>6. b = a => y = x /\ rb = r
          BY <1>8
      <3> HIDE DEF kb, ka, rb, y
      <3>7. y = x /\ rb = r => b = a
          BY <1>2, <3>3
      <3>8. y \in 0 .. MaxBlocks - 1
          BY <1>10, <3>3
      <3> QED
          BY <1>9, <3>4, <3>5, <3>6, <3>7, <3>8
    <2> QED
        BY <2>3, <2>4
  <1>14. BitsOf(disk') = BitsOf(disk) \cup {a}
      BY <1>13
  <1> QED
      BY <1>4, <1>6, <1>9, <1>11, <1>12, <1>14 DEF bm

\* A step that leaves the blocks of the bitmap alone.
LEMMA SameBits ==
    ASSUME LayoutFits, size \in Sizes, BitsInBlocks, UNCHANGED size,
           \A b \in S.bmapstart .. MetaEnd(size) - 1 : disk'[b] = disk[b]
    PROVE  Bits' = Bits /\ BitsInBlocks'
  <1>1. S' = S /\ MetaEnd(size)' = MetaEnd(size) /\ Bits = BitsOf(disk) /\ Bits' = BitsOf(disk')
      BY SameLayout
  <1>2. BitsInBlocks'
      BY <1>1 DEF BitsInBlocks
  <1>3. /\ \A b \in S.bmapstart .. MetaEnd(size) - 1 : disk[b].set \subseteq 0 .. BPB - 1
        /\ \A b \in S.bmapstart .. MetaEnd(size) - 1 : disk'[b].set \subseteq 0 .. BPB - 1
      BY DEF BitsInBlocks
  <1>4. \A b : b \in BitsOf(disk) <=> b \in 0 .. Nbitmap(size) * BPB - 1 /\ b % BPB \in disk[BBLOCK(S, b)].set
      BY <1>3, BitsAre
  <1>5. \A b : b \in BitsOf(disk') <=> b \in 0 .. Nbitmap(size) * BPB - 1 /\ b % BPB \in disk'[BBLOCK(S, b)].set
      BY <1>3, BitsAre
  <1>6. \A b \in 0 .. Nbitmap(size) * BPB - 1 : disk'[BBLOCK(S, b)] = disk[BBLOCK(S, b)]
      BY BitPlace
  <1>7. BitsOf(disk') = BitsOf(disk)
      BY <1>4, <1>5, <1>6
  <1> QED
      BY <1>1, <1>2, <1>7

-----------------------------------------------------------------------------
(* The inodes.                                                             *)

\* Every inode is in a block of inodes.
LEMMA InodePlace ==
    ASSUME LayoutFits, size \in Sizes, NEW inum \in 0 .. S.ninodes - 1
    PROVE  /\ inum \in Nat /\ inum \div IPB \in Nat /\ inum % IPB \in 0 .. (IPB - 1)
           /\ inum = (inum % IPB) + (inum \div IPB) * IPB
           /\ IBLOCK(S, inum) = S.inodestart + inum \div IPB
           /\ IBLOCK(S, inum) \in S.inodestart .. S.bmapstart - 1
  <1> DEFINE k == inum \div IPB
             r == inum % IPB
             n == S.bmapstart - S.inodestart
  <1>1. S.ninodes = n * IPB /\ S.inodestart = 2 + NLOG /\ S.bmapstart \in Nat /\ 3 + NLOG <= S.bmapstart
      BY Regions
  <1>2. n \in Nat /\ S.inodestart \in Nat
      BY <1>1, FormatNumbers
  <1>3. n * IPB \in Nat
    <2> HIDE DEF n
    <2> QED
        BY <1>2, FormatNumbers
  <1>4. inum \in Nat /\ inum < n * IPB
    <2> HIDE DEF n
    <2> QED
        BY <1>1, <1>3
  <1>5. k \in Nat /\ r \in 0 .. (IPB - 1) /\ inum = r + k * IPB
      BY <1>4, FormatNumbers, Division
  <1>6. k < n
    <2> HIDE DEF n
    <2> QED
        BY <1>2, <1>4, FormatNumbers, QuotientBelow
  <1>7. IBLOCK(S, inum) = k + S.inodestart
      BY DEF IBLOCK
  <1> HIDE DEF k
  <1>8. IBLOCK(S, inum) = S.inodestart + k /\ IBLOCK(S, inum) \in S.inodestart .. S.bmapstart - 1
      BY <1>1, <1>2, <1>5, <1>6, <1>7
  <1> QED
      BY <1>4, <1>5, <1>8, Zenon DEF k

\* The root is the second inode of the first block.
LEMMA RootPlace ==
    ASSUME LayoutFits, size \in Sizes
    PROVE  /\ ROOTINO \in 1 .. S.ninodes - 1 /\ S.ninodes \in Nat
           /\ ROOTINO % IPB = ROOTINO /\ IBLOCK(S, ROOTINO) = S.inodestart
           /\ S.inodestart \in Nat
  <1> DEFINE n == S.bmapstart - S.inodestart
  <1>1. S.ninodes = n * IPB /\ S.inodestart = 2 + NLOG /\ S.bmapstart \in Nat /\ 3 + NLOG <= S.bmapstart
      BY Regions
  <1>2. n \in Nat /\ 1 <= n /\ S.inodestart \in Nat
      BY <1>1, FormatNumbers
  <1>3. n * IPB \in Nat /\ 1 * IPB <= n * IPB
    <2> HIDE DEF n
    <2> QED
        BY <1>2, FormatNumbers, MoreIsMore
  <1>4. 0 * IPB + 1 = 1 /\ 1 \in 0 .. (IPB - 1)
      BY FormatNumbers
  <1>5. 1 \div IPB = 0 /\ 1 % IPB = 1
    <2>1. (0 * IPB + 1) \div IPB = 0 /\ (0 * IPB + 1) % IPB = 1
        BY <1>4, FormatNumbers, QuotientOf
    <2> QED
        BY <1>4, <2>1
  <1>6. IBLOCK(S, ROOTINO) = 0 + S.inodestart
      BY <1>5 DEF IBLOCK, ROOTINO
  <1>7. S.ninodes \in Nat /\ 1 \in 1 .. S.ninodes - 1
    <2> HIDE DEF n
    <2> QED
        BY <1>1, <1>3, FormatNumbers
  <1> QED
      BY <1>2, <1>5, <1>6, <1>7 DEF ROOTINO

\* Blocks of zeros hold no inode in use.
LEMMA NoInodes ==
    ASSUME LayoutFits, size \in Sizes, Zeroed(S.inodestart, S.bmapstart)
    PROVE  InodesInUse = {}
  <1>1. ASSUME NEW inum \in 1 .. S.ninodes - 1 PROVE inum % IPB \notin disk[IBLOCK(S, inum)].set
    <2>1. inum \in 0 .. S.ninodes - 1
        BY RootPlace
    <2>2. IBLOCK(S, inum) \in S.inodestart .. S.bmapstart - 1
        BY <2>1, InodePlace
    <2>3. disk[IBLOCK(S, inum)] = Zeros
        BY <2>2 DEF Zeroed
    <2> QED
        BY <2>3 DEF Zeros, Block
  <1> QED
      BY <1>1 DEF InodesInUse

\* A complete file system has one inode in use, the root.
LEMMA OnlyRoot ==
    ASSUME LayoutFits, size \in Sizes, disk[S.inodestart] = Block("data", {ROOTINO}),
           Zeroed(S.inodestart + 1, S.bmapstart)
    PROVE  InodesInUse = {ROOTINO}
  <1>1. ASSUME NEW inum \in 1 .. S.ninodes - 1, inum % IPB \in disk[IBLOCK(S, inum)].set PROVE inum = ROOTINO
    <2> DEFINE k == inum \div IPB
               r == inum % IPB
               b == IBLOCK(S, inum)
               at == S.inodestart
               end == S.bmapstart
    <2>1. inum \in 0 .. S.ninodes - 1
        BY RootPlace
    <2>2. /\ k \in Nat /\ inum = r + k * IPB /\ b = at + k /\ b \in at .. end - 1
          /\ r \in disk[b].set /\ at \in Nat /\ end \in Nat
        BY <1>1, <2>1, InodePlace, RootPlace, Regions, Zenon
    <2>3. \A x \in at + 1 .. end - 1 : disk[x].set = {}
        BY DEF Zeroed, Zeros, Block
    <2>4. disk[at].set = {1}
        BY DEF Block, ROOTINO
    <2> HIDE DEF k, r, b, at, end
    <2>5. b = at
        BY <2>2, <2>3
    <2>6. r = 1 /\ k = 0
        BY <2>2, <2>4, <2>5
    <2> QED
        BY <2>2, <2>6, FormatNumbers DEF ROOTINO
  <1>2. ROOTINO \in 1 .. S.ninodes - 1 /\ ROOTINO % IPB \in disk[IBLOCK(S, ROOTINO)].set
      BY RootPlace DEF Block
  <1> QED
      BY <1>1, <1>2 DEF InodesInUse

-----------------------------------------------------------------------------
(* A complete file system.                                                 *)

\* The regions that follow each other hold what IBLOCK() and BBLOCK() address.
LEMMA RegionsFollow == ASSUME LayoutFits, size \in Sizes PROVE LayoutOf(S)
  <1>1. S.logstart + NLOG = S.inodestart
      BY Regions, FormatNumbers
  <1>2. \A inum \in 0 .. S.ninodes - 1 : IBLOCK(S, inum) \in S.inodestart .. S.bmapstart - 1
      BY InodePlace
  <1>3. ASSUME NEW b \in 0 .. S.size - 1 PROVE BBLOCK(S, b) \in S.bmapstart .. nmeta_blocks(S) - 1
    <2>1. /\ S.size = size /\ size \in Nat /\ size <= Nbitmap(size) * BPB /\ Nbitmap(size) * BPB \in Nat
          /\ nmeta_blocks(S) = MetaEnd(size)
        BY Regions
    <2> DEFINE e == Nbitmap(size) * BPB
    <2>2. b \in 0 .. e - 1
      <3>1. e \in Nat /\ size <= e /\ size \in Nat /\ b \in 0 .. size - 1
          BY <2>1
      <3> HIDE DEF e
      <3> QED
          BY <3>1
    <2> QED
        BY <2>1, <2>2, BitPlace
  <1>4. nmeta_blocks(S) + S.nblocks = S.size
    <2> DEFINE m == MetaEnd(size)
    <2>1. nmeta_blocks(S) = m /\ S.nblocks = size - m /\ S.size = size /\ m \in Nat /\ size \in Nat
        BY Regions
    <2> HIDE DEF m
    <2> QED
        BY <2>1
  <1> QED
      BY <1>1, <1>2, <1>3, <1>4 DEF LayoutOf

\* The blocks without a bit are the data blocks.
LEMMA FreeIsData ==
    ASSUME LayoutFits, size \in Sizes, BitmapExact, cache = Bits
    PROVE  statfs.f_bfree = statfs.f_blocks
  <1> DEFINE m == MetaEnd(size)
             e == Nbitmap(size) * BPB
  <1>1. /\ m \in Nat /\ size \in Nat /\ m <= size /\ e \in Nat /\ size <= e
        /\ S.size = size /\ nmeta_blocks(S) = m /\ S.nblocks = size - m
      BY Regions
  <1>2. cache = (0 .. m - 1) \cup (size .. e - 1)
      BY <1>1 DEF BitmapExact
  <1> HIDE DEF m, e
  <1>3. (0 .. size - 1) \ cache = m .. size - 1
      BY <1>1, <1>2
  <1>4. Cardinality(m .. size - 1) = size - m
    <2>1. m \in Int /\ size - 1 \in Int
        BY <1>1
    <2>2. Cardinality(m .. (size - 1)) = IF m > size - 1 THEN 0 ELSE (size - 1) - m + 1
        BY <2>1, FS_Interval
    <2> QED
        BY <1>1, <2>2
  <1> QED
      BY <1>1, <1>3, <1>4 DEF statfs

\* The invariant of the steps; the rest of FormatInv follows from it.
Core == TypeOK /\ MkfsProgress /\ BitsInBlocks /\ CacheCurrent

LEMMA CoreIsEnough == ASSUME LayoutFits, Core PROVE FormatInv /\ ServingIsSound
  <1> USE DEF Core
  <1>1. size \in Sizes
      BY DEF TypeOK
  <1>2. ASSUME Finished PROVE BitmapExact /\ InodesInUse = {ROOTINO} /\ disk[1] = Super(S) /\ disk[S.logstart] = Zeros
    <2>1. /\ BitmapExact /\ disk[1] = Super(S) /\ disk[S.inodestart] = Block("data", {ROOTINO})
          /\ Zeroed(S.inodestart + 1, S.bmapstart) /\ Zeroed(2, S.inodestart)
        BY <1>2 DEF Finished
    <2>2. S.logstart = 2 /\ S.inodestart = 2 + NLOG
        BY <1>1, Regions
    <2>3. 2 \in 2 .. S.inodestart - 1
        BY <2>2, FormatNumbers
    <2> QED
        BY <1>1, <2>1, <2>2, <2>3, OnlyRoot DEF Zeroed
  <1>3. FormatComplete
    <2> SUFFICES ASSUME phase = "done"
                 PROVE  /\ LayoutOf(S) /\ BitmapExact /\ InodesInUse = {ROOTINO}
                        /\ statfs.f_bfree = statfs.f_blocks
        BY DEF FormatComplete
    <2>1. Finished /\ cache = Bits
        BY DEF MkfsProgress, CacheCurrent
    <2> QED
        BY <1>1, <1>2, <2>1, RegionsFollow, FreeIsData
  <1>4. ServingIsSound
    <2> SUFFICES ASSUME phase = "serving"
                 PROVE  \/ oldfs /\ \A b \in 1 .. S.size - 1 : disk[b] = Old
                        \/ /\ disk[1] = Super(S) /\ disk[S.logstart] = Zeros
                           /\ BitmapExact /\ InodesInUse = {ROOTINO}
        BY DEF ServingIsSound
    <2>1. (oldfs /\ Untouched) \/ Finished
        BY DEF MkfsProgress
    <2>2. S.size = size
        BY <1>1, Regions
    <2> QED
        BY <1>2, <2>1, <2>2 DEF Untouched
  <1> QED
      BY <1>3, <1>4 DEF FormatInv

-----------------------------------------------------------------------------
(* The steps.                                                              *)

\* The first block of the disk does not matter.
LEMMA SameDisk ==
    ASSUME LayoutFits, size \in Sizes, BitsInBlocks, UNCHANGED size,
           \A b \in 1 .. MaxBlocks - 1 : disk'[b] = disk[b]
    PROVE  /\ Bits' = Bits /\ BitsInBlocks' /\ (BitmapExact' <=> BitmapExact)
           /\ Untouched' <=> Untouched
           /\ NoMagic' <=> NoMagic
           /\ NoRoot' <=> NoRoot
           /\ Finished' <=> Finished
           /\ AnyDisk' <=> AnyDisk
           /\ Zeroed(S.bmapstart, MetaEnd(size))' <=> Zeroed(S.bmapstart, MetaEnd(size))
  <1> DEFINE at == S.inodestart
             bm == S.bmapstart
             m == MetaEnd(size)
  <1>1. /\ size \in Nat /\ size <= MaxBlocks /\ at = 2 + NLOG /\ bm \in Nat /\ 3 + NLOG <= bm
        /\ m \in Nat /\ m <= size /\ m = bm + Nbitmap(size) /\ Nbitmap(size) \in Nat /\ S.size = size
      BY Regions
  <1>2. S' = S /\ MetaEnd(size)' = MetaEnd(size) /\ nmeta_blocks(S)' = nmeta_blocks(S)
      BY SameLayout
  <1>3. /\ 1 .. size - 1 \subseteq 1 .. MaxBlocks - 1 /\ 2 .. at - 1 \subseteq 1 .. MaxBlocks - 1
        /\ 2 .. bm - 1 \subseteq 1 .. MaxBlocks - 1 /\ bm .. m - 1 \subseteq 1 .. MaxBlocks - 1
        /\ at + 1 .. bm - 1 \subseteq 1 .. MaxBlocks - 1 /\ {1, at} \subseteq 1 .. MaxBlocks - 1
    <2> HIDE DEF at, bm, m
    <2> QED
        BY <1>1, FormatNumbers
  <1>4. Bits' = Bits /\ BitsInBlocks'
      BY <1>3, SameBits
  <1>5. BitmapExact' <=> BitmapExact
      BY <1>2, <1>4 DEF BitmapExact
  <1>6. (Untouched' <=> Untouched) /\ (NoMagic' <=> NoMagic)
      BY <1>3 DEF Untouched, NoMagic
  <1>7. NoRoot' <=> NoRoot
      BY <1>2, <1>3 DEF NoRoot, Zeroed
  <1>8. Finished' <=> Finished
      BY <1>2, <1>3, <1>5 DEF Finished, Zeroed
  <1>9. Zeroed(S.bmapstart, MetaEnd(size))' <=> Zeroed(S.bmapstart, MetaEnd(size))
      BY <1>2, <1>3 DEF Zeroed
  <1> QED
      BY <1>4, <1>5, <1>6, <1>7, <1>8, <1>9 DEF AnyDisk

\* What a block may be.
BlockRecords == [kind : {"old", "data", "super"}, set : SUBSET Nat]

LEMMA BlockTypes ==
    ASSUME size \in Sizes
    PROVE  /\ Zeros \in BlockRecords /\ Old \in BlockRecords /\ Super(S) \in BlockRecords
           /\ Block("data", {ROOTINO}) \in BlockRecords
           /\ Zeros.kind = "data" /\ Old.kind = "old" /\ Super(S).kind = "super"
           /\ Zeros.set = {} /\ Old.set = {ROOTINO}
  <1>1. S.size = size /\ size \in Nat
      BY FormatNumbers DEF S, init_super_block
  <1> QED
      BY <1>1 DEF Zeros, Old, Super, Block, BlockRecords, ROOTINO

LEMMA InitCore == ASSUME LayoutFits, Init PROVE Core
  <1>1. /\ size \in Sizes /\ oldfs \in BOOLEAN /\ disk = [b \in 0 .. MaxBlocks - 1 |-> Old]
        /\ cache = {} /\ phase = "off" /\ i = 0
      BY DEF Init
  <1> DEFINE bm == S.bmapstart
             m == MetaEnd(size)
  <1>2. size \in Nat /\ size <= MaxBlocks /\ bm \in Nat /\ m \in Nat /\ m <= size
      BY <1>1, Regions
  <1>3. 1 .. size - 1 \subseteq 0 .. MaxBlocks - 1 /\ bm .. m - 1 \subseteq 0 .. MaxBlocks - 1
    <2> HIDE DEF bm, m
    <2> QED
        BY <1>2, FormatNumbers
  <1>4. TypeOK
    <2>1. disk \in [0 .. MaxBlocks - 1 -> BlockRecords]
        BY <1>1, BlockTypes
    <2>2. 0 \in 0 .. MaxBlocks + BPB
        BY FormatNumbers
    <2> QED
        BY <1>1, <2>1, <2>2 DEF TypeOK, BlockRecords
  <1>5. Untouched
      BY <1>1, <1>3 DEF Untouched
  <1>6. BitsInBlocks
    <2>1. Old.set \subseteq 0 .. BPB - 1
        BY <1>1, BlockTypes, FormatNumbers DEF ROOTINO
    <2> QED
        BY <1>1, <1>3, <2>1 DEF BitsInBlocks
  <1> QED
      BY <1>1, <1>4, <1>5, <1>6 DEF Core, MkfsProgress, CacheCurrent, AnyDisk

\* The steps that leave the disk alone.
LEMMA QuietSteps ==
    ASSUME LayoutFits, Core, Start \/ Stop \/ myfuse_init \/ Serve
    PROVE  Core'
  <1> USE DEF Core
  <1>0. UNCHANGED <<size, oldfs, disk>> /\ i' = 0
      BY DEF Start, Stop, myfuse_init, Serve, Goto
  <1>1. size \in Sizes /\ BitsInBlocks
      BY DEF TypeOK
  <1>2. /\ Bits' = Bits /\ BitsInBlocks' /\ (BitmapExact' <=> BitmapExact)
        /\ (Untouched' <=> Untouched) /\ (NoRoot' <=> NoRoot) /\ (Finished' <=> Finished)
        /\ (AnyDisk' <=> AnyDisk)
      BY <1>0, <1>1, SameDisk
  <1>3. Bits \subseteq 0 .. Nbitmap(size) * BPB - 1
    <2>1. \A b \in S.bmapstart .. MetaEnd(size) - 1 : disk[b].set \subseteq 0 .. BPB - 1
        BY DEF BitsInBlocks
    <2>2. Bits = BitsOf(disk)
        BY DEF Bits, BitsOf
    <2> QED
        BY <1>1, <2>1, <2>2, BitsAre
  <1>4. 0 \in 0 .. MaxBlocks + BPB
      BY FormatNumbers
  <1>5. MetaEnd(size) \in Nat
      BY <1>1, Regions
  <1>6. CASE Start
    <2>1. phase = "off" /\ phase' = "zero" /\ cache' = cache
        BY <1>6 DEF Start, Goto
    <2>2. TypeOK'
        BY <1>0, <1>4, <2>1 DEF TypeOK
    <2>3. AnyDisk' /\ 0 <= MetaEnd(size)
        BY <1>2, <1>5, <2>1 DEF MkfsProgress
    <2>4. MkfsProgress'
        BY <1>0, <2>1, <2>3 DEF MkfsProgress
    <2> QED
        BY <1>2, <2>1, <2>2, <2>4 DEF CacheCurrent
  <1>7. CASE Stop
    <2>1. phase' = "off" /\ cache' = {}
        BY <1>7 DEF Stop, Goto
    <2>2. TypeOK'
        BY <1>0, <1>4, <2>1 DEF TypeOK
    <2>3. phase = "zero" /\ ~ (i < 2) => NoMagic
      <3> SUFFICES ASSUME phase = "zero", ~ (i < 2) PROVE disk[1] = Zeros
          BY DEF NoMagic
      <3>1. Zeroed(1, i) /\ i \in Nat
          BY FormatNumbers DEF MkfsProgress, TypeOK
      <3>2. 1 \in 1 .. i - 1
          BY <3>1
      <3> QED
          BY <3>1, <3>2 DEF Zeroed
    <2>4. AnyDisk
        BY <2>3 DEF MkfsProgress, TypeOK, AnyDisk
    <2> QED
        BY <1>2, <2>1, <2>2, <2>4 DEF MkfsProgress, CacheCurrent
  <1>8. CASE myfuse_init
    <2>1. phase = "off" /\ HasMagic /\ phase' = "mounted" /\ cache' = Bits
        BY <1>8 DEF myfuse_init, Goto
    <2>2. TypeOK'
        BY <1>0, <1>3, <1>4, <2>1 DEF TypeOK
    <2>3. (oldfs /\ Untouched) \/ NoRoot \/ Finished
      <3>1. AnyDisk
          BY <2>1 DEF MkfsProgress
      <3>2. Untouched => oldfs
        <4>1. 1 \in 1 .. size - 1
            BY <1>1, Regions, FormatNumbers
        <4> QED
            BY <1>1, <2>1, <4>1, BlockTypes DEF Untouched, HasMagic
      <3>3. ~ NoMagic
          BY <1>1, <2>1, BlockTypes DEF NoMagic, HasMagic
      <3> QED
          BY <3>1, <3>2, <3>3 DEF AnyDisk
    <2>4. MkfsProgress'
        BY <1>0, <1>2, <2>1, <2>3 DEF MkfsProgress
    <2> QED
        BY <1>2, <2>1, <2>2, <2>4 DEF CacheCurrent
  <1>9. CASE Serve
    <2>1. phase = "mounted" /\ cache' = cache
          /\ phase' = IF ROOTINO \in InodesInUse THEN "serving" ELSE "off"
        BY <1>9 DEF Serve, Goto
    <2>2. TypeOK'
        BY <1>0, <1>4, <2>1 DEF TypeOK
    <2>3. (oldfs /\ Untouched) \/ NoRoot \/ Finished
        BY <2>1 DEF MkfsProgress
    <2>4. NoRoot => ROOTINO \notin InodesInUse
      <3>1. S.inodestart = 2 + NLOG
          BY <1>1, Regions
      <3>2. S.inodestart .. S.bmapstart - 1 \subseteq 2 .. S.bmapstart - 1
          BY <1>1, <3>1, Regions, FormatNumbers
      <3>3. NoRoot => Zeroed(S.inodestart, S.bmapstart)
          BY <3>2 DEF NoRoot, Zeroed
      <3> QED
          BY <1>1, <3>3, NoInodes
    <2>5. MkfsProgress'
        BY <1>0, <1>2, <2>1, <2>3, <2>4 DEF MkfsProgress, AnyDisk
    <2>6. CacheCurrent'
        BY <1>2, <2>1 DEF CacheCurrent
    <2> QED
        BY <1>2, <2>2, <2>5, <2>6
  <1> QED
      BY <1>6, <1>7, <1>8, <1>9

\* mkfs zeroes the metadata from the first block on.  With the second one the
\* magic number of what was there is gone.
LEMMA ZeroBlockCore == ASSUME LayoutFits, Core, ZeroBlock PROVE Core'
  <1> USE DEF Core
  <1> DEFINE bm == S.bmapstart
             m == MetaEnd(size)
  <1>0. /\ phase = "zero" /\ i < nmeta_blocks(S) /\ disk' = [disk EXCEPT ![i] = Zeros]
        /\ i' = i + 1 /\ UNCHANGED <<size, oldfs, cache, phase>>
      BY DEF ZeroBlock
  <1>1. /\ size \in Sizes /\ BitsInBlocks /\ disk \in [0 .. MaxBlocks - 1 -> BlockRecords]
        /\ i \in 0 .. MaxBlocks + BPB
      BY DEF TypeOK, BlockRecords
  <1>2. /\ size \in Nat /\ size <= MaxBlocks /\ bm \in Nat /\ m \in Nat /\ m <= size /\ nmeta_blocks(S) = m
      BY <1>1, Regions
  <1>3. S' = S /\ MetaEnd(size)' = m
      BY <1>0, SameLayout
  <1>4. i \in Nat /\ i + 1 <= m /\ i \in 0 .. MaxBlocks - 1 /\ i + 1 \in 0 .. MaxBlocks + BPB
    <2> HIDE DEF bm, m
    <2> QED
        BY <1>0, <1>1, <1>2, FormatNumbers
  <1>5. /\ disk' \in [0 .. MaxBlocks - 1 -> BlockRecords] /\ disk'[i] = Zeros
        /\ \A b \in 0 .. MaxBlocks - 1 : b # i => disk'[b] = disk[b]
      BY <1>0, <1>1, <1>4, BlockTypes
  <1>6. TypeOK'
      BY <1>0, <1>4, <1>5 DEF TypeOK, BlockRecords
  <1>7. BitsInBlocks'
    <2>1. bm .. m - 1 \subseteq 0 .. MaxBlocks - 1
      <3> HIDE DEF bm, m
      <3> QED
          BY <1>2, FormatNumbers
    <2>2. \A b \in bm .. m - 1 : disk'[b].set \subseteq 0 .. BPB - 1
        BY <1>1, <1>5, <2>1, BlockTypes DEF BitsInBlocks
    <2> QED
        BY <1>3, <2>2 DEF BitsInBlocks
  <1>8. IF i + 1 < 2 THEN AnyDisk' ELSE Zeroed(1, i)'
    <2>1. CASE i = 0
      <3>1. AnyDisk
          BY <1>0, <2>1 DEF MkfsProgress
      <3>2. \A b \in 1 .. MaxBlocks - 1 : disk'[b] = disk[b]
          BY <1>5, <2>1
      <3> QED
          BY <1>0, <1>1, <2>1, <3>1, <3>2, SameDisk
    <2>2. CASE i = 1
        BY <1>0, <1>5, <2>2 DEF Zeroed
    <2>3. CASE i >= 2
      <3>1. Zeroed(1, i)
          BY <1>0, <1>4, <2>3 DEF MkfsProgress
      <3>2. ASSUME NEW b \in 1 .. (i + 1) - 1 PROVE disk'[b] = Zeros
        <4>1. b = i \/ (b \in 1 .. i - 1 /\ b \in 0 .. MaxBlocks - 1 /\ b # i)
            BY <1>4, FormatNumbers
        <4> QED
            BY <1>5, <3>1, <4>1 DEF Zeroed
      <3> QED
          BY <1>0, <1>4, <2>3, <3>2 DEF Zeroed
    <2> QED
        BY <1>4, <2>1, <2>2, <2>3
  <1>9. MkfsProgress'
      BY <1>0, <1>3, <1>4, <1>8 DEF MkfsProgress
  <1> QED
      BY <1>0, <1>6, <1>7, <1>9 DEF CacheCurrent

\* Then it writes the super block.
LEMMA WriteSuperCore == ASSUME LayoutFits, Core, WriteSuper PROVE Core'
  <1> USE DEF Core
  <1> DEFINE bm == S.bmapstart
             m == MetaEnd(size)
  <1>0. /\ phase = "zero" /\ i = nmeta_blocks(S) /\ disk' = [disk EXCEPT ![1] = Super(S)]
        /\ phase' = "zero_bitmap" /\ i' = 0 /\ UNCHANGED <<size, oldfs, cache>>
      BY DEF WriteSuper, Goto
  <1>1. size \in Sizes /\ BitsInBlocks /\ disk \in [0 .. MaxBlocks - 1 -> BlockRecords]
      BY DEF TypeOK, BlockRecords
  <1>2. /\ size \in Nat /\ size <= MaxBlocks /\ bm \in Nat /\ m \in Nat /\ m <= size /\ nmeta_blocks(S) = m
        /\ 3 + NLOG <= bm /\ m = bm + Nbitmap(size) /\ Nbitmap(size) \in Nat
      BY <1>1, Regions
  <1>3. S' = S /\ MetaEnd(size)' = m /\ Super(S)' = Super(S)
      BY <1>0, SameLayout DEF Super
  <1>4. /\ 1 \in 0 .. MaxBlocks - 1 /\ bm >= 2 /\ m >= 2
        /\ 2 .. bm - 1 \subseteq 1 .. m - 1 /\ bm .. m - 1 \subseteq 1 .. m - 1
        /\ \A b \in 2 .. bm - 1 : b # 1 /\ b \in 0 .. MaxBlocks - 1
        /\ \A b \in bm .. m - 1 : b # 1 /\ b \in 0 .. MaxBlocks - 1
    <2> HIDE DEF bm, m
    <2> QED
        BY <1>2, FormatNumbers
  <1>5. /\ disk' \in [0 .. MaxBlocks - 1 -> BlockRecords] /\ disk'[1] = Super(S)
        /\ \A b \in 0 .. MaxBlocks - 1 : b # 1 => disk'[b] = disk[b]
      BY <1>0, <1>1, <1>4, BlockTypes
  <1>6. TypeOK'
    <2>1. 0 \in 0 .. MaxBlocks + BPB
        BY FormatNumbers
    <2> QED
        BY <1>0, <1>5, <2>1 DEF TypeOK, BlockRecords
  <1>7. BitsInBlocks'
      BY <1>0, <1>1, <1>4, <1>5, SameBits
  <1>8. Zeroed(1, m)
    <2>1. ~ (i < 2)
      <3> HIDE DEF m
      <3> QED
          BY <1>0, <1>2, <1>4
    <2> QED
        BY <1>0, <1>2, <2>1 DEF MkfsProgress
  <1>9. (\A b \in 2 .. bm - 1 : disk'[b] = Zeros) /\ (\A b \in bm .. m - 1 : disk'[b] = Zeros)
      BY <1>4, <1>5, <1>8 DEF Zeroed
  <1>10. NoRoot' /\ Zeroed(S.bmapstart, MetaEnd(size))'
      BY <1>3, <1>5, <1>9 DEF NoRoot, Zeroed
  <1>11. MkfsProgress'
      BY <1>0, <1>2, <1>10 DEF MkfsProgress
  <1> QED
      BY <1>0, <1>6, <1>7, <1>11 DEF CacheCurrent

\* The blocks of the bitmap are zeroed once more.
LEMMA ZeroBitmapCore == ASSUME LayoutFits, Core, ZeroBitmap PROVE Core'
  <1> USE DEF Core
  <1> DEFINE bm == S.bmapstart
             m == MetaEnd(size)
             nb == Nbitmap(size)
  <1>0. /\ phase = "zero_bitmap" /\ i < Nbitmap(S.size) /\ disk' = [disk EXCEPT ![S.bmapstart + i] = Zeros]
        /\ i' = i + 1 /\ UNCHANGED <<size, oldfs, cache, phase>>
      BY DEF ZeroBitmap
  <1>1. /\ size \in Sizes /\ BitsInBlocks /\ disk \in [0 .. MaxBlocks - 1 -> BlockRecords]
        /\ i \in 0 .. MaxBlocks + BPB
      BY DEF TypeOK, BlockRecords
  <1>2. /\ size \in Nat /\ size <= MaxBlocks /\ bm \in Nat /\ m \in Nat /\ m <= size
        /\ m = bm + nb /\ nb \in Nat /\ S.size = size
      BY <1>1, Regions
  <1>3. NoRoot /\ Zeroed(bm, m)
      BY <1>0 DEF MkfsProgress
  <1>4. i \in Nat /\ i + 1 <= nb /\ bm + i \in bm .. m - 1 /\ i + 1 \in 0 .. MaxBlocks + BPB
    <2>1. i < nb
        BY <1>0, <1>2
    <2> HIDE DEF bm, m, nb
    <2> QED
        BY <1>1, <1>2, <2>1, FormatNumbers
  <1>5. disk' = disk
    <2>1. disk[bm + i] = Zeros
        BY <1>3, <1>4 DEF Zeroed
    <2> QED
        BY <1>0, <1>1, <2>1
  <1>6. BitsInBlocks' /\ NoRoot' /\ Zeroed(S.bmapstart, MetaEnd(size))'
      BY <1>0, <1>1, <1>3, <1>5, SameDisk
  <1>7. TypeOK'
      BY <1>0, <1>4, <1>5 DEF TypeOK
  <1>8. MkfsProgress'
      BY <1>0, <1>4, <1>6 DEF MkfsProgress
  <1> QED
      BY <1>0, <1>6, <1>7, <1>8 DEF CacheCurrent

\* In memory the bitmap is then empty too.
LEMMA RefreshCore == ASSUME LayoutFits, Core, block_allocator_refresh PROVE Core'
  <1> USE DEF Core
  <1>0. /\ phase = "zero_bitmap" /\ cache' = Bits /\ phase' = "mark_meta" /\ i' = 0
        /\ UNCHANGED <<size, oldfs, disk>>
      BY DEF block_allocator_refresh, Goto
  <1>1. size \in Sizes /\ BitsInBlocks
      BY DEF TypeOK
  <1>2. NoRoot /\ Zeroed(S.bmapstart, MetaEnd(size))
      BY <1>0 DEF MkfsProgress
  <1>3. Bits' = Bits /\ BitsInBlocks' /\ NoRoot'
      BY <1>0, <1>1, <1>2, SameDisk
  <1>4. Bits = {}
    <2>1. \A b \in S.bmapstart .. MetaEnd(size) - 1 : disk[b].set \subseteq 0 .. BPB - 1
        BY DEF BitsInBlocks
    <2>2. \A b : b \in BitsOf(disk) => b \in 0 .. Nbitmap(size) * BPB - 1 /\ b % BPB \in disk[BBLOCK(S, b)].set
        BY <1>1, <2>1, BitsAre
    <2>3. \A b \in 0 .. Nbitmap(size) * BPB - 1 : disk[BBLOCK(S, b)].set = {}
        BY <1>1, <1>2, BitPlace, BlockTypes DEF Zeroed
    <2>4. Bits = BitsOf(disk)
        BY DEF Bits, BitsOf
    <2> QED
        BY <2>2, <2>3, <2>4
  <1>5. TypeOK'
    <2>1. 0 \in 0 .. MaxBlocks + BPB
        BY FormatNumbers
    <2> QED
        BY <1>0, <1>4, <2>1 DEF TypeOK
  <1>6. 0 <= MetaEnd(size) /\ 0 .. 0 - 1 = {}
      BY <1>1, Regions
  <1>7. MkfsProgress'
      BY <1>0, <1>3, <1>4, <1>6 DEF MkfsProgress
  <1> QED
      BY <1>0, <1>3, <1>5, <1>7 DEF CacheCurrent

\* A bit more leaves everything in front of the bitmap as it is.
LEMMA NoRootKept ==
    ASSUME LayoutFits, size \in Sizes, UNCHANGED size, NoRoot,
           \A b \in 0 .. S.bmapstart - 1 : disk'[b] = disk[b]
    PROVE  NoRoot'
  <1>1. S' = S /\ Super(S)' = Super(S)
      BY SameLayout DEF Super
  <1>2. 2 .. S.bmapstart - 1 \subseteq 0 .. S.bmapstart - 1 /\ 1 \in 0 .. S.bmapstart - 1
      BY Regions, FormatNumbers
  <1> QED
      BY <1>1, <1>2 DEF NoRoot, Zeroed

\* init_meta_blocks_bmap() marks the metadata, block after block.
LEMMA MarkMetaCore == ASSUME LayoutFits, Core, MarkMeta PROVE Core'
  <1> USE DEF Core
  <1> DEFINE m == MetaEnd(size)
             e == Nbitmap(size) * BPB
  <1>0. phase = "mark_meta" /\ UNCHANGED <<size, oldfs>>
      BY DEF MarkMeta
  <1>1. size \in Sizes /\ BitsInBlocks /\ i \in 0 .. MaxBlocks + BPB
      BY DEF TypeOK
  <1>2. /\ size \in Nat /\ size <= MaxBlocks /\ m \in Nat /\ m <= size /\ nmeta_blocks(S) = m
        /\ e \in Nat /\ size <= e /\ S.size = size
      BY <1>1, Regions
  <1>3. i <= m /\ NoRoot /\ Bits = 0 .. i - 1 /\ cache = Bits
      BY <1>0 DEF MkfsProgress, CacheCurrent
  <1>4. S' = S /\ MetaEnd(size)' = m
      BY <1>0, SameLayout
  <1>5. CASE i < m
    <2>1. SetBit(i) /\ phase' = "mark_meta" /\ i' = i + 1
        BY <1>2, <1>5 DEF MarkMeta, Goto
    <2>2. i \in 0 .. e - 1 /\ i + 1 \in 0 .. MaxBlocks + BPB /\ i + 1 <= m
      <3> HIDE DEF m, e
      <3> QED
          BY <1>1, <1>2, <1>5, FormatNumbers
    <2>3. /\ Bits' = Bits \cup {i} /\ cache' = cache \cup {i} /\ BitsInBlocks'
          /\ disk' \in [0 .. MaxBlocks - 1 -> [kind : {"old", "data", "super"}, set : SUBSET Nat]]
          /\ \A b \in 0 .. S.bmapstart - 1 : disk'[b] = disk[b]
        BY <1>0, <2>1, <2>2, OneBitMore
    <2>4. NoRoot'
        BY <1>0, <1>1, <1>3, <2>3, NoRootKept
    <2>5. Bits' = 0 .. (i + 1) - 1
        BY <1>1, <1>3, <2>3
    <2>6. TypeOK'
        BY <1>0, <2>1, <2>2, <2>3 DEF TypeOK
    <2>7. MkfsProgress'
        BY <1>4, <2>1, <2>2, <2>4, <2>5 DEF MkfsProgress
    <2>8. CacheCurrent'
        BY <1>3, <2>3 DEF CacheCurrent
    <2> QED
        BY <2>3, <2>6, <2>7, <2>8
  <1>6. CASE ~ (i < m)
    <2>1. phase' = "mark_tail" /\ i' = size /\ UNCHANGED <<disk, cache>>
        BY <1>2, <1>6 DEF MarkMeta, Goto
    <2>2. Bits' = Bits /\ BitsInBlocks' /\ NoRoot'
        BY <1>0, <1>1, <1>3, <2>1, SameDisk
    <2>3. i = m /\ size \in 0 .. MaxBlocks + BPB /\ size <= e
      <3> HIDE DEF m, e
      <3> QED
          BY <1>1, <1>2, <1>3, <1>6, FormatNumbers
    <2>4. Bits' = (0 .. m - 1) \cup (size .. size - 1)
      <3> HIDE DEF m
      <3>1. size .. size - 1 = {}
          BY <1>2
      <3> QED
          BY <1>3, <2>2, <2>3, <3>1
    <2>5. TypeOK'
        BY <1>0, <2>1, <2>3 DEF TypeOK
    <2>6. size' >= size' /\ size' <= Nbitmap(size') * BPB
        BY <1>0, <1>2, <2>3
    <2>7. MkfsProgress'
        BY <1>0, <1>4, <2>1, <2>2, <2>4, <2>6 DEF MkfsProgress
    <2>8. CacheCurrent'
        BY <1>3, <2>1, <2>2 DEF CacheCurrent
    <2> QED
        BY <2>2, <2>5, <2>7, <2>8
  <1> QED
      BY <1>5, <1>6

\* Then the bits past the end of the disk.
LEMMA MarkTailCore == ASSUME LayoutFits, Core, MarkTail PROVE Core'
  <1> USE DEF Core
  <1> DEFINE m == MetaEnd(size)
             e == Nbitmap(size) * BPB
  <1>0. phase = "mark_tail" /\ UNCHANGED <<size, oldfs>>
      BY DEF MarkTail
  <1>1. size \in Sizes /\ BitsInBlocks /\ i \in 0 .. MaxBlocks + BPB
      BY DEF TypeOK
  <1>2. /\ size \in Nat /\ size <= MaxBlocks /\ m \in Nat /\ m <= size /\ nmeta_blocks(S) = m
        /\ e \in Nat /\ size <= e /\ e <= size + BPB - 1 /\ S.size = size
      BY <1>1, Regions
  <1>3. i >= size /\ i <= e /\ NoRoot /\ Bits = (0 .. m - 1) \cup (size .. i - 1) /\ cache = Bits
      BY <1>0 DEF MkfsProgress, CacheCurrent
  <1>4. S' = S /\ MetaEnd(size)' = m /\ nmeta_blocks(S)' = nmeta_blocks(S)
      BY <1>0, SameLayout
  <1>5. CASE i < e
    <2>1. SetBit(i) /\ phase' = "mark_tail" /\ i' = i + 1
        BY <1>2, <1>5 DEF MarkTail, Goto
    <2>2. i \in 0 .. e - 1 /\ i + 1 \in 0 .. MaxBlocks + BPB /\ i + 1 <= e /\ i + 1 >= size
      <3> HIDE DEF m, e
      <3> QED
          BY <1>1, <1>2, <1>3, <1>5, FormatNumbers
    <2>3. /\ Bits' = Bits \cup {i} /\ cache' = cache \cup {i} /\ BitsInBlocks'
          /\ disk' \in [0 .. MaxBlocks - 1 -> [kind : {"old", "data", "super"}, set : SUBSET Nat]]
          /\ \A b \in 0 .. S.bmapstart - 1 : disk'[b] = disk[b]
        BY <1>0, <2>1, <2>2, OneBitMore
    <2>4. NoRoot'
        BY <1>0, <1>1, <1>3, <2>3, NoRootKept
    <2>5. Bits' = (0 .. m - 1) \cup (size .. (i + 1) - 1)
      <3>1. size .. (i + 1) - 1 = (size .. i - 1) \cup {i}
          BY <1>1, <1>2, <1>3
      <3> HIDE DEF m
      <3> QED
          BY <1>3, <2>3, <3>1
    <2>6. TypeOK'
        BY <1>0, <2>1, <2>2, <2>3 DEF TypeOK
    <2>7. MkfsProgress'
        BY <1>0, <1>4, <2>1, <2>2, <2>4, <2>5 DEF MkfsProgress
    <2>8. CacheCurrent'
        BY <1>3, <2>3 DEF CacheCurrent
    <2> QED
        BY <2>3, <2>6, <2>7, <2>8
  <1>6. CASE ~ (i < e)
    <2>1. phase' = "super" /\ i' = 0 /\ cache' = Bits /\ UNCHANGED disk
        BY <1>2, <1>6 DEF MarkTail, Goto
    <2>2. Bits' = Bits /\ BitsInBlocks' /\ NoRoot' /\ (BitmapExact' <=> BitmapExact)
        BY <1>0, <1>1, <1>3, <2>1, SameDisk
    <2>3. i = e
      <3> HIDE DEF m, e
      <3> QED
          BY <1>1, <1>2, <1>3, <1>6
    <2>4. BitmapExact
        BY <1>2, <1>3, <2>3 DEF BitmapExact
    <2>5. TypeOK'
      <3>1. 0 \in 0 .. MaxBlocks + BPB
          BY FormatNumbers
      <3> QED
          BY <1>0, <1>3, <2>1, <3>1 DEF TypeOK
    <2>6. MkfsProgress'
        BY <2>1, <2>2, <2>4 DEF MkfsProgress
    <2>7. CacheCurrent'
        BY <2>1, <2>2 DEF CacheCurrent
    <2> QED
        BY <2>2, <2>5, <2>6, <2>7
  <1> QED
      BY <1>5, <1>6

\* The super block goes out again, as it was.
LEMMA WriteSuperAgainCore == ASSUME LayoutFits, Core, WriteSuperAgain PROVE Core'
  <1> USE DEF Core
  <1>0. /\ phase = "super" /\ disk' = [disk EXCEPT ![1] = Super(S)] /\ phase' = "root" /\ i' = 0
        /\ UNCHANGED <<size, oldfs, cache>>
      BY DEF WriteSuperAgain, Goto
  <1>1. size \in Sizes /\ BitsInBlocks /\ disk \in [0 .. MaxBlocks - 1 -> BlockRecords]
      BY DEF TypeOK, BlockRecords
  <1>2. NoRoot /\ BitmapExact /\ cache = Bits
      BY <1>0 DEF MkfsProgress, CacheCurrent
  <1>3. disk' = disk
      BY <1>0, <1>1, <1>2 DEF NoRoot
  <1>4. Bits' = Bits /\ BitsInBlocks' /\ NoRoot' /\ BitmapExact'
      BY <1>0, <1>1, <1>2, <1>3, SameDisk
  <1>5. TypeOK'
    <2>1. 0 \in 0 .. MaxBlocks + BPB
        BY FormatNumbers
    <2> QED
        BY <1>0, <1>3, <2>1 DEF TypeOK
  <1> QED
      BY <1>0, <1>2, <1>4, <1>5 DEF MkfsProgress, CacheCurrent

\* ialloc() finds the root, and the file system is complete.
LEMMA RootCore == ASSUME LayoutFits, Core, add_rootinode PROVE Core'
  <1> USE DEF Core
  <1> DEFINE at == S.inodestart
             bm == S.bmapstart
             m == MetaEnd(size)
             found == Min((1 .. S.ninodes - 1) \ InodesInUse)
  <1>0. /\ phase = "root" /\ disk' = [disk EXCEPT ![IBLOCK(S, found)].set = @ \cup {found % IPB}]
        /\ phase' = "done" /\ i' = 0 /\ UNCHANGED <<size, oldfs, cache>>
      BY DEF add_rootinode, Goto
  <1>1. size \in Sizes /\ BitsInBlocks /\ disk \in [0 .. MaxBlocks - 1 -> BlockRecords]
      BY DEF TypeOK, BlockRecords
  <1>2. NoRoot /\ BitmapExact /\ cache = Bits
      BY <1>0 DEF MkfsProgress, CacheCurrent
  <1>3. /\ size \in Nat /\ size <= MaxBlocks /\ bm \in Nat /\ m \in Nat /\ m <= size /\ at = 2 + NLOG
        /\ 3 + NLOG <= bm /\ m = bm + Nbitmap(size) /\ Nbitmap(size) \in Nat
      BY <1>1, Regions
  <1>4. /\ at \in Nat /\ at \in 2 .. bm - 1 /\ at .. bm - 1 \subseteq 2 .. bm - 1 /\ 2 .. at - 1 \subseteq 2 .. bm - 1
        /\ at + 1 .. bm - 1 \subseteq 2 .. bm - 1 /\ 2 .. bm - 1 \subseteq 0 .. MaxBlocks - 1
        /\ bm .. m - 1 \subseteq 0 .. MaxBlocks - 1 /\ at \notin bm .. m - 1 /\ at # 1 /\ 1 \in 0 .. MaxBlocks - 1
        /\ at \notin 2 .. at - 1 /\ at \notin at + 1 .. bm - 1
    <2> HIDE DEF at, bm, m
    <2> QED
        BY <1>3, FormatNumbers
  <1>5. found = ROOTINO
    <2>1. Zeroed(S.inodestart, S.bmapstart)
        BY <1>2, <1>4 DEF NoRoot, Zeroed
    <2>2. InodesInUse = {}
        BY <1>1, <2>1, NoInodes
    <2>3. 1 \in 1 .. S.ninodes - 1 /\ \A x \in 1 .. S.ninodes - 1 : x \in Nat /\ 1 <= x
        BY <1>1, RootPlace DEF ROOTINO
    <2>4. \A x \in 1 .. S.ninodes - 1 : (\A y \in 1 .. S.ninodes - 1 : x <= y) => x = 1
        BY <2>3
    <2>5. found = CHOOSE x \in 1 .. S.ninodes - 1 : \A y \in 1 .. S.ninodes - 1 : x <= y
        BY <2>2 DEF Min
    <2> QED
        BY <2>3, <2>4, <2>5 DEF ROOTINO
  <1>6. IBLOCK(S, ROOTINO) = at /\ ROOTINO % IPB = ROOTINO
      BY <1>1, RootPlace
  <1>7. disk' = [disk EXCEPT ![at].set = @ \cup {ROOTINO}]
      BY <1>0, <1>5, <1>6
  <1>8. disk[at] = Zeros /\ disk[1] = Super(S) /\ \A b \in 2 .. bm - 1 : disk[b] = Zeros
      BY <1>2, <1>4 DEF NoRoot, Zeroed
  <1>9. S' = S /\ Super(S)' = Super(S)
      BY <1>0, SameLayout DEF Super
  <1> HIDE DEF found
  <1>10. disk'[at] = Block("data", {ROOTINO}) /\ \A b \in 0 .. MaxBlocks - 1 : b # at => disk'[b] = disk[b]
    <2>1. at \in 0 .. MaxBlocks - 1
        BY <1>4
    <2> HIDE DEF at
    <2>2. disk'[at] = [Zeros EXCEPT !.set = @ \cup {ROOTINO}]
        BY <1>1, <1>7, <1>8, <2>1
    <2>3. disk'[at] = Block("data", {ROOTINO})
        BY <2>2 DEF Zeros, Block
    <2> QED
        BY <1>1, <1>7, <2>1, <2>3
  <1>11. TypeOK'
    <2>1. 0 \in 0 .. MaxBlocks + BPB
        BY FormatNumbers
    <2>2. disk' \in [0 .. MaxBlocks - 1 -> BlockRecords]
        BY <1>1, <1>4, <1>7, <1>10, BlockTypes
    <2> QED
        BY <1>0, <2>1, <2>2 DEF TypeOK, BlockRecords
  <1>12. Bits' = Bits /\ BitsInBlocks'
    <2>1. \A b \in bm .. m - 1 : disk'[b] = disk[b]
        BY <1>4, <1>10
    <2> QED
        BY <1>0, <1>1, <2>1, SameBits
  <1>13. BitmapExact'
      BY <1>0, <1>2, <1>12, SameLayout DEF BitmapExact
  <1>14. /\ disk'[1] = Super(S) /\ \A b \in 2 .. at - 1 : disk'[b] = Zeros
         /\ \A b \in at + 1 .. bm - 1 : disk'[b] = Zeros
      BY <1>4, <1>8, <1>10
  <1>15. Finished'
      BY <1>9, <1>10, <1>13, <1>14 DEF Finished, Zeroed
  <1> QED
      BY <1>0, <1>2, <1>11, <1>12, <1>15 DEF MkfsProgress, CacheCurrent

-----------------------------------------------------------------------------
(* The theorems.                                                           *)

LEMMA StepCore == ASSUME LayoutFits, Core, [Next]_vars PROVE Core'
  <1>1. CASE Next
      BY <1>1, QuietSteps, ZeroBlockCore, WriteSuperCore, ZeroBitmapCore, RefreshCore, MarkMetaCore,
         MarkTailCore, WriteSuperAgainCore, RootCore DEF Next
  <1>2. CASE UNCHANGED vars
    <2>1. UNCHANGED <<size, oldfs, disk, cache, phase, i>>
        BY <1>2 DEF vars
    <2>2. size \in Sizes /\ BitsInBlocks
        BY DEF Core, TypeOK
    <2>3. /\ Bits' = Bits /\ BitsInBlocks' /\ (BitmapExact' <=> BitmapExact)
          /\ (Untouched' <=> Untouched) /\ (NoRoot' <=> NoRoot) /\ (Finished' <=> Finished)
          /\ (AnyDisk' <=> AnyDisk) /\ MetaEnd(size)' = MetaEnd(size) /\ Nbitmap(size)' = Nbitmap(size)
          /\ (Zeroed(S.bmapstart, MetaEnd(size))' <=> Zeroed(S.bmapstart, MetaEnd(size)))
        BY <2>1, <2>2, SameDisk, SameLayout
    <2>4. TypeOK' /\ CacheCurrent'
        BY <2>1, <2>3 DEF Core, TypeOK, CacheCurrent
    <2>5. Zeroed(1, i)' <=> Zeroed(1, i)
        BY <2>1 DEF Zeroed
    <2>6. MkfsProgress'
        BY <2>1, <2>3, <2>5 DEF Core, MkfsProgress
    <2> QED
        BY <2>3, <2>4, <2>6 DEF Core
  <1> QED
      BY <1>1, <1>2

\* On every disk that has room for its metadata, mkfs leaves a file system
\* whose regions do not overlap, whose bitmap marks the metadata and what is
\* past the end, and nothing else, and whose only inode is the root; wherever
\* it is killed, MkfsProgress says what is left.
THEOREM FormatSound == LayoutFits => (Spec => []FormatInv)
  <1> SUFFICES ASSUME LayoutFits PROVE Spec => []FormatInv
      OBVIOUS
  <1>1. Init => Core
      BY InitCore
  <1>2. Core /\ [Next]_vars => Core'
      BY StepCore
  <1>3. Core => FormatInv
      BY CoreIsEnough
  <1> QED
      BY <1>1, <1>2, <1>3, PTL DEF Spec

\* A program that serves calls, after any number of mkfs that were killed
\* anywhere, has the file system from before or a complete new one.
THEOREM MountSound == LayoutFits => (Spec => []ServingIsSound)
  <1> SUFFICES ASSUME LayoutFits PROVE Spec => []ServingIsSound
      OBVIOUS
  <1>1. Init => Core
      BY InitCore
  <1>2. Core /\ [Next]_vars => Core'
      BY StepCore
  <1>3. Core => ServingIsSound
      BY CoreIsEnough
  <1> QED
      BY <1>1, <1>2, <1>3, PTL DEF Spec
=============================================================================
