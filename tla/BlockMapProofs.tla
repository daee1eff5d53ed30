--------------------------- MODULE BlockMapProofs ---------------------------
(***************************************************************************)
(* Proofs about BlockMap, for any number of addresses per inode and per    *)
(* indirect block, any disk, threads, offsets and lengths.                 *)
(*                                                                         *)
(* That the map is a tree is stated without paths: every block in use has  *)
(* a level, one entry leads to it, and that entry is in the inode or in a  *)
(* block of the level above.  Allocating a block and freeing one change a  *)
(* single entry, so these statements are kept locally; that the levels end *)
(* at 3 gives back what the paths of the code reach.                       *)
(***************************************************************************)
EXTENDS BlockMap, FiniteSetTheorems, SequenceTheorems, TLAPS

-----------------------------------------------------------------------------
(* Numbers and finite sets.                                               *)

\* A set of numbers that is not empty has a least member: what a loop from
\* zero upwards finds first.
LEMMA NatMinimum ==
    ASSUME NEW S \in SUBSET Nat, S # {}
    PROVE  \E m \in S : \A k \in S : m <= k
  <1>1. S \subseteq Nat /\ S # {}
      OBVIOUS
  <1>2. \A x, y \in Nat : <<x, y>> \in OpToRel(<, Nat) <=> x < y
      BY DEF OpToRel
  <1>3. PICK R : IsWellFoundedOn(R, Nat) /\ \A x, y \in Nat : <<x, y>> \in R <=> x < y
      BY <1>2, NatLessThanWellFounded, Zenon
  <1>4. \A A : IsWellFoundedOn(R, A) =>
            \A T : T \subseteq A /\ T # {} => \E x \in T : \A y \in T : ~ (<<y, x>> \in R)
      BY ONLY WFMin, Zenon
  <1>5. IsWellFoundedOn(R, Nat)
      BY <1>3
  <1>6. PICK m \in S : \A k \in S : ~ (<<k, m>> \in R)
      BY <1>1, <1>4, <1>5, Zenon
  <1>7. \A k \in S : ~ (k < m)
      BY <1>1, <1>3, <1>6, Zenon
  <1> QED
      BY <1>1, <1>7

\* What quotient and remainder are.
LEMMA Division ==
    ASSUME NEW d \in Nat \ {0}, NEW x \in Nat
    PROVE  /\ x \div d \in Nat /\ x % d \in 0 .. (d - 1)
           /\ (x \div d) * d \in Nat
           /\ x = (x % d) + (x \div d) * d
  <1>1. x \div d \in Nat /\ x % d \in 0 .. (d - 1)
      OBVIOUS
  <1>2. x = (x % d) + (x \div d) * d
      OBVIOUS
  <1>3. (x \div d) * d \in Nat
      BY <1>1
  <1> QED
      BY <1>1, <1>2, <1>3

\* More blocks of size d are more bytes.
LEMMA MoreIsMore ==
    ASSUME NEW d \in Nat \ {0}, NEW x \in Nat, NEW y \in Nat, x <= y
    PROVE  x * d \in Nat /\ y * d \in Nat /\ x * d <= y * d
  OBVIOUS

\* A place in front of block q is in a block in front of it.
LEMMA QuotientBelow ==
    ASSUME NEW d \in Nat \ {0}, NEW x \in Nat, NEW q \in Nat, x < q * d
    PROVE  x \div d < q
  <1> DEFINE k == x \div d
  <1>1. k \in Nat /\ x % d \in 0 .. (d - 1) /\ k * d \in Nat /\ x = (x % d) + k * d
      BY Division
  <1> HIDE DEF k
  <1>2. SUFFICES ASSUME q <= k PROVE FALSE
      BY <1>1 DEF k
  <1>3. q * d \in Nat /\ q * d <= k * d
      BY <1>1, <1>2, MoreIsMore
  <1> QED
      BY <1>1, <1>3

\* A set with one more member.
LEMMA AddOne ==
    ASSUME NEW S, IsFiniteSet(S), NEW x
    PROVE  /\ IsFiniteSet(S \cup {x})
           /\ Cardinality(S) \in Nat /\ Cardinality(S \cup {x}) \in Nat
           /\ Cardinality(S \cup {x}) <= Cardinality(S) + 1
  <1>1. IsFiniteSet(S \cup {x})
      BY FS_AddElement
  <1>2. Cardinality(S) \in Nat /\ Cardinality(S \cup {x}) \in Nat
      BY <1>1, FS_CardinalityType
  <1>3. Cardinality(S \cup {x}) = Cardinality(S) \/ Cardinality(S \cup {x}) = Cardinality(S) + 1
      BY FS_AddElement
  <1> QED
      BY <1>1, <1>2, <1>3

-----------------------------------------------------------------------------
(* Work records.                                                           *)

\* A file and the operation that works on it.
IsWork(w) == w = [fs |-> w.fs, op |-> w.op] /\ w.fs \in Files /\ IsOp(w.op)

\* The blocks of addresses, and the entries that they have.
Nodes == Blocks \cup {Inode}
EntriesOf(p) == IF p = Inode THEN Slots ELSE Index

\* The parameters as numbers.
LEMMA Numbers ==
    /\ NDIRECT \in Nat /\ NINDIRECT1 \in Nat \ {0} /\ NBlocks \in Nat \ {0} /\ BPB \in Nat \ {0}
    /\ MAXOPBLOCKS \in Nat /\ MAXOPBLOCKS > 6 /\ MaxCalls \in Nat
    /\ Inode \notin Blocks /\ None \notin Blocks /\ NoWay \notin Nodes /\ None \in Addresses
    /\ 1 \in Blocks /\ Nodes = Addresses
  BY MapAssumption DEF Inode, Blocks, None, NoWay, Nodes, Addresses

\* The rows of the table of contents.
LEMMA Rows == Zeros \in [Index -> Addresses] /\ UserData \in [Index -> Addresses]
  BY Numbers DEF Zeros, UserData, Addresses

\* The parts of a work record.
LEMMA WorkParts ==
    ASSUME NEW w, IsWork(w)
    PROVE  /\ w.fs \in Files /\ w.op.n \in Nat /\ IsFiniteSet(w.op.logged)
           /\ w = [fs |-> w.fs, op |-> w.op] /\ w.op = [n |-> w.op.n, logged |-> w.op.logged]
  BY DEF IsWork, IsOp

\* A work record from its parts.
LEMMA WorkFromParts ==
    ASSUME NEW f \in Files, NEW n \in Nat, NEW L, IsFiniteSet(L)
    PROVE  LET w == [fs |-> f, op |-> [n |-> n, logged |-> L]] IN
           IsWork(w) /\ w.fs = f /\ w.op.n = n /\ w.op.logged = L
  BY DEF IsWork, IsOp

\* Another file in it.
LEMMA WithFileIs ==
    ASSUME NEW w, IsWork(w), NEW f \in Files
    PROVE  IsWork(WithFile(w, f)) /\ WithFile(w, f).fs = f /\ WithFile(w, f).op = w.op
  <1>1. WithFile(w, f) = [fs |-> f, op |-> w.op]
      BY DEF WithFile, IsWork
  <1> QED
      BY <1>1 DEF IsWork

\* logged_write() counts and notes the block, and leaves the file alone.
LEMMA LoggedWriteIs ==
    ASSUME NEW w, IsWork(w), NEW b
    PROVE  /\ IsWork(logged_write(w, b))
           /\ logged_write(w, b).fs = w.fs
           /\ logged_write(w, b).op.n = w.op.n + 1
           /\ logged_write(w, b).op.logged = w.op.logged \cup {b}
  <1>1. logged_write(w, b) = [fs |-> w.fs, op |-> [n |-> w.op.n + 1, logged |-> w.op.logged \cup {b}]]
      BY DEF logged_write, IsWork
  <1>2. IsFiniteSet(w.op.logged \cup {b})
      BY FS_AddElement DEF IsWork, IsOp
  <1>3. w.op.n + 1 \in Nat /\ w.fs \in Files
      BY DEF IsWork, IsOp
  <1> DEFINE v == [fs |-> w.fs, op |-> [n |-> w.op.n + 1, logged |-> w.op.logged \cup {b}]]
  <1>4. IsWork(v) /\ v.fs = w.fs /\ v.op.n = w.op.n + 1 /\ v.op.logged = w.op.logged \cup {b}
      BY <1>2, <1>3, WorkFromParts
  <1> QED
      BY <1>1, <1>4

\* The entries of a file, and what a call leaves of it while it maps a block.
EntryIn(f, p, i) == Entry(f.addrs, f.ind, p, i)
SameInode(f, g) == g.size = f.size /\ g.daddrs = f.daddrs /\ g.dsize = f.dsize /\ g.whole = f.whole

\* block_alloc() sets the bit of the block and clears its content.
LEMMA BlockAllocIs ==
    ASSUME NEW w, IsWork(w), NEW b \in Blocks
    PROVE  LET r == block_alloc(w, b) IN
           /\ IsWork(r) /\ SameInode(w.fs, r.fs) /\ r.fs.used = w.fs.used \cup {b}
           /\ \A q \in Nodes : \A j \in EntriesOf(q) :
                EntryIn(r.fs, q, j) = IF q = b THEN None ELSE EntryIn(w.fs, q, j)
           /\ r.op.n = w.op.n + 2
           /\ r.op.logged = w.op.logged \cup {BBLOCK(b), Data(b)}
  <1> DEFINE f == [w.fs EXCEPT !.used = @ \cup {b}, !.ind[b] = Zeros]
             v == WithFile(w, f)
             u == logged_write(v, BBLOCK(b))
             r == logged_write(u, Data(b))
  <1>1. w.fs \in Files
      BY WorkParts
  <1>2. f \in Files
      BY <1>1, Rows DEF Files, Contents
  <1>3. /\ SameInode(w.fs, f) /\ f.used = w.fs.used \cup {b} /\ f.addrs = w.fs.addrs
        /\ f.ind = [w.fs.ind EXCEPT ![b] = Zeros]
      BY <1>1 DEF SameInode, Files
  <1>4. block_alloc(w, b) = r
      BY DEF block_alloc
  <1> HIDE DEF f
  <1>5. ASSUME NEW q \in Nodes, NEW j \in EntriesOf(q)
        PROVE  EntryIn(f, q, j) = IF q = b THEN None ELSE EntryIn(w.fs, q, j)
    <2>1. b # Inode /\ w.fs.ind \in [Blocks -> [Index -> Addresses]]
        BY <1>1, Numbers DEF Files, Contents
    <2> QED
        BY <1>3, <2>1 DEF EntryIn, Entry, EntriesOf, Nodes, Zeros
  <1>6. IsWork(v) /\ v.fs = f /\ v.op = w.op
      BY <1>2, WithFileIs
  <1> HIDE DEF v
  <1>7. IsWork(u) /\ u.fs = f /\ u.op.n = w.op.n + 1 /\ u.op.logged = w.op.logged \cup {BBLOCK(b)}
      BY <1>6, LoggedWriteIs
  <1> HIDE DEF u
  <1>8. /\ IsWork(r) /\ r.fs = f /\ r.op.n = w.op.n + 1 + 1
        /\ r.op.logged = (w.op.logged \cup {BBLOCK(b)}) \cup {Data(b)}
      BY <1>7, LoggedWriteIs
  <1> HIDE DEF r
  <1>9. w.op.n \in Nat
      BY WorkParts
  <1> QED
      BY <1>3, <1>4, <1>5, <1>8, <1>9

\* block_free() clears the bit.
LEMMA BlockFreeIs ==
    ASSUME NEW w, IsWork(w), NEW b \in Blocks
    PROVE  LET r == block_free(w, b) IN
           /\ IsWork(r) /\ SameInode(w.fs, r.fs) /\ r.fs.used = w.fs.used \ {b}
           /\ r.fs.addrs = w.fs.addrs /\ r.fs.ind = w.fs.ind
           /\ r.op.n = w.op.n + 1
           /\ r.op.logged = w.op.logged \cup {BBLOCK(b)}
  <1> DEFINE f == [w.fs EXCEPT !.used = @ \ {b}]
             v == WithFile(w, f)
             r == logged_write(v, BBLOCK(b))
  <1>1. w.fs \in Files
      BY WorkParts
  <1>2. f \in Files
      BY <1>1 DEF Files
  <1>3. SameInode(w.fs, f) /\ f.used = w.fs.used \ {b} /\ f.addrs = w.fs.addrs /\ f.ind = w.fs.ind
      BY <1>1 DEF SameInode, Files
  <1>4. block_free(w, b) = r
      BY DEF block_free
  <1> HIDE DEF f
  <1>5. IsWork(v) /\ v.fs = f /\ v.op = w.op
      BY <1>2, WithFileIs
  <1> HIDE DEF v
  <1>6. /\ IsWork(r) /\ r.fs = f /\ r.op.n = w.op.n + 1
        /\ r.op.logged = w.op.logged \cup {BBLOCK(b)}
      BY <1>5, LoggedWriteIs
  <1> HIDE DEF r
  <1> QED
      BY <1>3, <1>4, <1>6

\* Setting an entry of the inode is not logged, that of a block is.
LEMMA SetEntryIs ==
    ASSUME NEW w, IsWork(w), NEW p \in Nodes, NEW i \in EntriesOf(p), NEW b \in Addresses
    PROVE  LET r == SetEntry(w, p, i, b) IN
           /\ IsWork(r) /\ SameInode(w.fs, r.fs) /\ r.fs.used = w.fs.used
           /\ \A q \in Nodes : \A j \in EntriesOf(q) :
                EntryIn(r.fs, q, j) = IF q = p /\ j = i THEN b ELSE EntryIn(w.fs, q, j)
           /\ r.op.n = IF p = Inode THEN w.op.n ELSE w.op.n + 1
           /\ r.op.logged = w.op.logged \cup (IF p = Inode THEN {} ELSE {Data(p)})
  <1>0. w.fs \in Files /\ w.fs.addrs \in [Slots -> Addresses] /\ w.fs.ind \in [Blocks -> [Index -> Addresses]]
      BY WorkParts DEF Files, Contents
  <1>1. CASE p = Inode
    <2> DEFINE f == [w.fs EXCEPT !.addrs[i] = b]
               r == WithFile(w, f)
    <2>1. f \in Files
        BY <1>0, <1>1 DEF Files, EntriesOf
    <2>2. /\ SameInode(w.fs, f) /\ f.used = w.fs.used /\ f.ind = w.fs.ind
          /\ f.addrs = [w.fs.addrs EXCEPT ![i] = b]
        BY <1>0 DEF SameInode, Files
    <2>3. SetEntry(w, p, i, b) = r
        BY <1>1 DEF SetEntry
    <2> HIDE DEF f
    <2>4. ASSUME NEW q \in Nodes, NEW j \in EntriesOf(q)
          PROVE  EntryIn(f, q, j) = IF q = p /\ j = i THEN b ELSE EntryIn(w.fs, q, j)
        BY <1>0, <1>1, <2>2 DEF EntryIn, Entry, EntriesOf
    <2>5. IsWork(r) /\ r.fs = f /\ r.op = w.op
        BY <2>1, WithFileIs
    <2> HIDE DEF r
    <2> QED
        BY <1>1, <2>2, <2>3, <2>4, <2>5
  <1>2. CASE p # Inode
    <2> DEFINE row == [w.fs.ind[p] EXCEPT ![i] = b]
               f == [w.fs EXCEPT !.ind[p][i] = b]
               v == WithFile(w, f)
               r == logged_write(v, Data(p))
    <2>1. p \in Blocks /\ i \in Index
        BY <1>2 DEF EntriesOf, Nodes
    <2>2. row \in [Index -> Addresses] /\ \A j \in Index : row[j] = IF j = i THEN b ELSE w.fs.ind[p][j]
        BY <1>0, <2>1
    <2>3. f = [w.fs EXCEPT !.ind = [w.fs.ind EXCEPT ![p] = row]]
        OBVIOUS
    <2>4. SetEntry(w, p, i, b) = r
        BY <1>2 DEF SetEntry
    <2> HIDE DEF f, row
    <2>5. f \in Files
        BY <1>0, <2>1, <2>2, <2>3 DEF Files, Contents
    <2>6. /\ SameInode(w.fs, f) /\ f.used = w.fs.used /\ f.addrs = w.fs.addrs
          /\ f.ind = [w.fs.ind EXCEPT ![p] = row]
        BY <1>0, <2>3 DEF SameInode, Files
    <2>7. ASSUME NEW q \in Nodes, NEW j \in EntriesOf(q)
          PROVE  EntryIn(f, q, j) = IF q = p /\ j = i THEN b ELSE EntryIn(w.fs, q, j)
      <3>1. CASE q = p
          BY <1>0, <1>2, <2>1, <2>2, <2>6, <3>1 DEF EntryIn, Entry, EntriesOf
      <3>2. CASE q # p /\ q # Inode
        <4>1. q \in Blocks
            BY <3>2 DEF Nodes
        <4>2. f.ind[q] = w.fs.ind[q]
            BY <1>0, <2>1, <2>6, <3>2, <4>1
        <4> QED
            BY <3>2, <4>2 DEF EntryIn, Entry
      <3>3. CASE q = Inode
          BY <1>2, <2>6, <3>3 DEF EntryIn, Entry
      <3> QED
          BY <3>1, <3>2, <3>3
    <2>8. IsWork(v) /\ v.fs = f /\ v.op = w.op
        BY <2>5, WithFileIs
    <2> HIDE DEF v
    <2>9. /\ IsWork(r) /\ r.fs = f /\ r.op.n = w.op.n + 1 /\ r.op.logged = w.op.logged \cup {Data(p)}
        BY <2>8, LoggedWriteIs
    <2> HIDE DEF r
    <2> QED
        BY <1>2, <2>4, <2>6, <2>7, <2>9
  <1> QED
      BY <1>1, <1>2

\* iupdate() copies the inode to the disk.
LEMMA IupdateIs ==
    ASSUME NEW w, IsWork(w)
    PROVE  LET r == iupdate(w) IN
           /\ IsWork(r)
           /\ r.fs = [w.fs EXCEPT !.daddrs = w.fs.addrs, !.dsize = w.fs.size]
           /\ r.op.n = w.op.n + 1
           /\ r.op.logged = w.op.logged \cup {IBLOCK}
  <1> DEFINE f == [w.fs EXCEPT !.daddrs = w.fs.addrs, !.dsize = w.fs.size]
  <1>1. f \in Files
      BY WorkParts DEF Files
  <1>2. iupdate(w) = logged_write(WithFile(w, f), IBLOCK)
      BY DEF iupdate
  <1> HIDE DEF f
  <1>3. IsWork(WithFile(w, f)) /\ WithFile(w, f).fs = f /\ WithFile(w, f).op = w.op
      BY <1>1, WithFileIs
  <1> QED
      BY <1>2, <1>3, LoggedWriteIs DEF f

-----------------------------------------------------------------------------
(* Loading an entry.                                                       *)

\* n_log_wrote counts at least the blocks that are logged.
Counted(o) == Cardinality(o.logged) <= o.n

LEMMA FreeBlockIs ==
    ASSUME NEW w, IsWork(w), w.fs.used # Blocks
    PROVE  FreeBlock(w) \in Blocks \ w.fs.used
  <1> DEFINE S == Blocks \ w.fs.used
  <1>1. w.fs.used \subseteq Blocks
      BY WorkParts DEF Files
  <1>2. S # {}
      BY <1>1
  <1>4. S \in SUBSET Nat
      BY Numbers DEF Blocks
  <1>3. \E m \in S : \A k \in S : m <= k
      BY <1>2, <1>4, NatMinimum
  <1> QED
      BY <1>3 DEF FreeBlock

LEMMA EntryInIs ==
    ASSUME NEW f \in Files, NEW p \in Nodes, NEW i \in EntriesOf(p)
    PROVE  EntryIn(f, p, i) \in Addresses
  BY DEF EntryIn, Entry, EntriesOf, Nodes, Files, Contents

\* A block that is allocated and entered: one entry changes, and those of the
\* new block are empty.
LEMMA AllocEntered ==
    ASSUME NEW w, IsWork(w), NEW b \in Blocks, NEW p \in Nodes, NEW i \in EntriesOf(p)
    PROVE  LET r == SetEntry(block_alloc(w, b), p, i, b) IN
           /\ IsWork(r) /\ SameInode(w.fs, r.fs) /\ r.fs.used = w.fs.used \cup {b}
           /\ \A q \in Nodes : \A j \in EntriesOf(q) :
                EntryIn(r.fs, q, j) = IF q = p /\ j = i THEN b
                                      ELSE IF q = b THEN None ELSE EntryIn(w.fs, q, j)
           /\ r.op.n = IF p = Inode THEN w.op.n + 2 ELSE w.op.n + 3
           /\ r.op.logged = (w.op.logged \cup {BBLOCK(b), Data(b)})
                            \cup (IF p = Inode THEN {} ELSE {Data(p)})
  <1> DEFINE u == block_alloc(w, b)
             r == SetEntry(u, p, i, b)
  <1>1. /\ IsWork(u) /\ SameInode(w.fs, u.fs) /\ u.fs.used = w.fs.used \cup {b}
        /\ \A q \in Nodes : \A j \in EntriesOf(q) :
                EntryIn(u.fs, q, j) = IF q = b THEN None ELSE EntryIn(w.fs, q, j)
        /\ u.op.n = w.op.n + 2 /\ u.op.logged = w.op.logged \cup {BBLOCK(b), Data(b)}
      BY BlockAllocIs
  <1> HIDE DEF u
  <1>2. b \in Addresses /\ w.op.n \in Nat
      BY WorkParts DEF Addresses
  <1>3. /\ IsWork(r) /\ SameInode(u.fs, r.fs) /\ r.fs.used = u.fs.used
        /\ \A q \in Nodes : \A j \in EntriesOf(q) :
                EntryIn(r.fs, q, j) = IF q = p /\ j = i THEN b ELSE EntryIn(u.fs, q, j)
        /\ r.op.n = IF p = Inode THEN u.op.n ELSE u.op.n + 1
        /\ r.op.logged = u.op.logged \cup (IF p = Inode THEN {} ELSE {Data(p)})
      BY <1>1, <1>2, SetEntryIs
  <1> HIDE DEF r
  <1>4. SameInode(w.fs, r.fs)
      BY <1>1, <1>3 DEF SameInode
  <1>5. \A q \in Nodes : \A j \in EntriesOf(q) :
            EntryIn(r.fs, q, j) = IF q = p /\ j = i THEN b
                                  ELSE IF q = b THEN None ELSE EntryIn(w.fs, q, j)
      BY <1>1, <1>3
  <1>6. r.op.n = IF p = Inode THEN w.op.n + 2 ELSE w.op.n + 3
      BY <1>1, <1>2, <1>3
  <1> QED
      BY <1>1, <1>3, <1>4, <1>5, <1>6 DEF r, u

-----------------------------------------------------------------------------
(* The map as a tree.  f has addrs, ind and used: a file or a disk.        *)

\* The level of the blocks that slot s leads to, and of those that an entry
\* of p leads to.
Depth(s) == IF s < NDIRECT THEN 0 ELSE s - NDIRECT + 1
Below(lev, p, i) == IF p = Inode THEN Depth(i) ELSE lev[p] - 1

\* The inode and the indirect blocks.
IsInner(f, lev, p) == p = Inode \/ (p \in f.used /\ lev[p] > 0)

\* An entry leads to a block in use, of the level below.
EntriesLead(f, lev) ==
    \A p \in Nodes : IsInner(f, lev, p) =>
        \A i \in EntriesOf(p) : EntryIn(f, p, i) # None =>
            EntryIn(f, p, i) \in f.used /\ lev[EntryIn(f, p, i)] = Below(lev, p, i)

\* Two entries do not lead to one block.
EntriesDiffer(f, lev) ==
    \A p, q \in Nodes : IsInner(f, lev, p) /\ IsInner(f, lev, q) =>
        \A i \in EntriesOf(p), j \in EntriesOf(q) :
            EntryIn(f, p, i) # None /\ EntryIn(f, p, i) = EntryIn(f, q, j) => p = q /\ i = j

\* An entry leads to every block in use.
EntriesCover(f, lev) ==
    \A b \in f.used : \E p \in Nodes : IsInner(f, lev, p) /\ \E i \in EntriesOf(p) : EntryIn(f, p, i) = b

IsTree(f, lev) ==
    lev \in [Blocks -> 0 .. 3] /\ EntriesLead(f, lev) /\ EntriesDiffer(f, lev) /\ EntriesCover(f, lev)

\* The entry that leads to a block is one.
LEMMA SameEntry ==
    ASSUME NEW f, NEW lev, EntriesDiffer(f, lev), NEW p \in Nodes, NEW q \in Nodes,
           IsInner(f, lev, p), IsInner(f, lev, q), NEW i \in EntriesOf(p), NEW j \in EntriesOf(q),
           EntryIn(f, p, i) # None, EntryIn(f, p, i) = EntryIn(f, q, j)
    PROVE  p = q /\ i = j
  BY Zenon DEF EntriesDiffer

\* The levels below the inode and below an indirect block.
LEMMA BelowIs ==
    ASSUME NEW f, f.used \subseteq Blocks, NEW lev \in [Blocks -> 0 .. 3], NEW p \in Nodes,
           IsInner(f, lev, p), NEW i \in EntriesOf(p)
    PROVE  Below(lev, p, i) \in 0 .. 3
  BY Numbers DEF Below, Depth, IsInner, EntriesOf, Slots

\* A new block below entry i of p.
LEMMA TreeGrows ==
    ASSUME NEW f, NEW g, f.used \subseteq Blocks, NEW lev, IsTree(f, lev),
           NEW b \in Blocks \ f.used, NEW p \in Nodes, IsInner(f, lev, p),
           NEW i \in EntriesOf(p), EntryIn(f, p, i) = None,
           g.used = f.used \cup {b},
           \A q \in Nodes : \A j \in EntriesOf(q) :
               EntryIn(g, q, j) = IF q = p /\ j = i THEN b
                                  ELSE IF q = b THEN None ELSE EntryIn(f, q, j)
    PROVE  \E new : IsTree(g, new) /\ new[b] = Below(lev, p, i)
  <1> DEFINE new == [lev EXCEPT ![b] = Below(lev, p, i)]
  <1>1. lev \in [Blocks -> 0 .. 3] /\ EntriesLead(f, lev) /\ EntriesDiffer(f, lev) /\ EntriesCover(f, lev)
      BY DEF IsTree
  <1>2. Below(lev, p, i) \in 0 .. 3
      BY <1>1, BelowIs
  <1>3. /\ new \in [Blocks -> 0 .. 3] /\ new[b] = Below(lev, p, i)
        /\ \A c \in Blocks : c # b => new[c] = lev[c]
      BY <1>1, <1>2
  <1> HIDE DEF new
  <1>4. b # None /\ b # Inode /\ p # b
      BY Numbers DEF IsInner
  <1>5. \A q \in Nodes : IsInner(f, lev, q) => IsInner(g, new, q) /\ q # b
      BY <1>3, <1>4 DEF IsInner
  <1>6. \A q \in Nodes : IsInner(g, new, q) => q = b \/ IsInner(f, lev, q)
      BY <1>3 DEF IsInner
  <1>7. \A q \in Nodes : IsInner(f, lev, q) => \A j \in EntriesOf(q) : Below(new, q, j) = Below(lev, q, j)
      BY <1>3, <1>4 DEF Below, IsInner
  <1>8. \A q \in Nodes : q # b => \A j \in EntriesOf(q) :
            EntryIn(g, q, j) = IF q = p /\ j = i THEN b ELSE EntryIn(f, q, j)
      OBVIOUS
  <1>9. \A j \in EntriesOf(b) : EntryIn(g, b, j) = None
      BY <1>4 DEF Nodes
  <1>10. EntriesLead(g, new)
    <2> SUFFICES ASSUME NEW q \in Nodes, IsInner(g, new, q), NEW j \in EntriesOf(q), EntryIn(g, q, j) # None
                 PROVE  EntryIn(g, q, j) \in g.used /\ new[EntryIn(g, q, j)] = Below(new, q, j)
        BY DEF EntriesLead
    <2>1. q # b /\ IsInner(f, lev, q)
        BY <1>6, <1>9
    <2>2. CASE q = p /\ j = i
        BY <1>3, <1>7, <1>8, <2>1, <2>2
    <2>3. CASE ~ (q = p /\ j = i)
      <3>1. EntryIn(g, q, j) = EntryIn(f, q, j)
          BY <1>8, <2>1, <2>3
      <3>2. EntryIn(f, q, j) \in f.used /\ lev[EntryIn(f, q, j)] = Below(lev, q, j)
          BY <1>1, <2>1, <3>1 DEF EntriesLead
      <3> QED
          BY <1>3, <1>7, <2>1, <3>1, <3>2
    <2> QED
        BY <2>2, <2>3
  <1>11. EntriesDiffer(g, new)
    <2> SUFFICES ASSUME NEW q \in Nodes, NEW r \in Nodes, IsInner(g, new, q), IsInner(g, new, r),
                        NEW j \in EntriesOf(q), NEW k \in EntriesOf(r),
                        EntryIn(g, q, j) # None, EntryIn(g, q, j) = EntryIn(g, r, k)
                 PROVE  q = r /\ j = k
        BY DEF EntriesDiffer
    <2>1. q # b /\ IsInner(f, lev, q) /\ r # b /\ IsInner(f, lev, r)
        BY <1>6, <1>9
    <2>2. EntryIn(f, q, j) # b /\ EntryIn(f, r, k) # b
        BY <1>1, <1>4, <2>1 DEF EntriesLead
    <2>3. CASE q = p /\ j = i
        BY <1>8, <2>1, <2>2, <2>3
    <2>4. CASE r = p /\ k = i
        BY <1>8, <2>1, <2>2, <2>4
    <2>5. CASE ~ (q = p /\ j = i) /\ ~ (r = p /\ k = i)
      <3>1. EntryIn(g, q, j) = EntryIn(f, q, j) /\ EntryIn(g, r, k) = EntryIn(f, r, k)
          BY <1>8, <2>1, <2>5
      <3>2. EntryIn(f, q, j) # None /\ EntryIn(f, q, j) = EntryIn(f, r, k)
          BY <3>1
      <3> QED
          BY <1>1, <2>1, <3>2, SameEntry, Zenon
    <2> QED
        BY <2>3, <2>4, <2>5
  <1>12. EntriesCover(g, new)
    <2> SUFFICES ASSUME NEW c \in g.used
                 PROVE  \E q \in Nodes : IsInner(g, new, q) /\ \E j \in EntriesOf(q) : EntryIn(g, q, j) = c
        BY DEF EntriesCover
    <2>1. CASE c = b
        BY <1>4, <1>5, <1>8, <2>1
    <2>2. CASE c # b
      <3>1. c \in f.used
          BY <2>2
      <3>2. PICK q \in Nodes : IsInner(f, lev, q) /\ \E j \in EntriesOf(q) : EntryIn(f, q, j) = c
          BY <1>1, <3>1 DEF EntriesCover
      <3>3. PICK j \in EntriesOf(q) : EntryIn(f, q, j) = c
          BY <3>2
      <3>4. c # None
          BY <3>1, Numbers
      <3>5. EntryIn(g, q, j) = c
          BY <1>5, <1>8, <3>2, <3>3, <3>4
      <3> QED
          BY <1>5, <3>2, <3>5
    <2> QED
        BY <2>1, <2>2
  <1> QED
      BY <1>3, <1>10, <1>11, <1>12 DEF IsTree

\* A data block and its entry go.
LEMMA TreeShrinks ==
    ASSUME NEW f, NEW g, f.used \subseteq Blocks, NEW lev, IsTree(f, lev),
           NEW p \in Nodes, IsInner(f, lev, p), NEW i \in EntriesOf(p),
           EntryIn(f, p, i) # None, Below(lev, p, i) = 0,
           g.used = f.used \ {EntryIn(f, p, i)},
           \A q \in Nodes : \A j \in EntriesOf(q) :
               EntryIn(g, q, j) = IF q = p /\ j = i THEN None ELSE EntryIn(f, q, j)
    PROVE  IsTree(g, lev)
  <1> DEFINE c == EntryIn(f, p, i)
  <1>1. lev \in [Blocks -> 0 .. 3] /\ EntriesLead(f, lev) /\ EntriesDiffer(f, lev) /\ EntriesCover(f, lev)
      BY DEF IsTree
  <1>2. c \in f.used /\ lev[c] = 0
      BY <1>1 DEF EntriesLead
  <1>3. \A q \in Nodes : IsInner(g, lev, q) <=> IsInner(f, lev, q)
      BY <1>2 DEF IsInner
  <1>4. EntriesLead(g, lev)
    <2> SUFFICES ASSUME NEW q \in Nodes, IsInner(g, lev, q), NEW j \in EntriesOf(q), EntryIn(g, q, j) # None
                 PROVE  EntryIn(g, q, j) \in g.used /\ lev[EntryIn(g, q, j)] = Below(lev, q, j)
        BY DEF EntriesLead
    <2>1. ~ (q = p /\ j = i) /\ EntryIn(g, q, j) = EntryIn(f, q, j) /\ IsInner(f, lev, q)
        BY <1>3
    <2>2. EntryIn(f, q, j) \in f.used /\ lev[EntryIn(f, q, j)] = Below(lev, q, j)
        BY <1>1, <2>1 DEF EntriesLead
    <2>3. EntryIn(f, q, j) # c
        BY <1>1, <2>1 DEF EntriesDiffer
    <2> QED
        BY <2>1, <2>2, <2>3
  <1>5. EntriesDiffer(g, lev)
    <2> SUFFICES ASSUME NEW q \in Nodes, NEW r \in Nodes, IsInner(g, lev, q), IsInner(g, lev, r),
                        NEW j \in EntriesOf(q), NEW k \in EntriesOf(r),
                        EntryIn(g, q, j) # None, EntryIn(g, q, j) = EntryIn(g, r, k)
                 PROVE  q = r /\ j = k
        BY DEF EntriesDiffer
    <2>1. EntryIn(g, q, j) = EntryIn(f, q, j) /\ EntryIn(g, r, k) = EntryIn(f, r, k)
        OBVIOUS
    <2>2. EntryIn(f, q, j) # None /\ EntryIn(f, q, j) = EntryIn(f, r, k)
        BY <2>1
    <2>3. IsInner(f, lev, q) /\ IsInner(f, lev, r)
        BY <1>3
    <2> QED
        BY <1>1, <2>2, <2>3, SameEntry, Zenon
  <1>6. EntriesCover(g, lev)
    <2> SUFFICES ASSUME NEW d \in g.used
                 PROVE  \E q \in Nodes : IsInner(g, lev, q) /\ \E j \in EntriesOf(q) : EntryIn(g, q, j) = d
        BY DEF EntriesCover
    <2>1. d \in f.used /\ d # c
        OBVIOUS
    <2>2. PICK q \in Nodes : IsInner(f, lev, q) /\ \E j \in EntriesOf(q) : EntryIn(f, q, j) = d
        BY <1>1, <2>1 DEF EntriesCover
    <2>3. PICK j \in EntriesOf(q) : EntryIn(f, q, j) = d
        BY <2>2
    <2>4. EntryIn(g, q, j) = d
        BY <2>1, <2>3
    <2> QED
        BY <1>3, <2>2, <2>4
  <1> QED
      BY <1>1, <1>4, <1>5, <1>6 DEF IsTree

\* What a data block holds does not matter.
LEMMA TreeFilled ==
    ASSUME NEW f, NEW g, NEW lev, IsTree(f, lev), NEW b, lev[b] = 0, b # Inode,
           g.used = f.used,
           \A q \in Nodes : q # b => \A j \in EntriesOf(q) : EntryIn(g, q, j) = EntryIn(f, q, j)
    PROVE  IsTree(g, lev)
  <1>1. \A q \in Nodes : IsInner(g, lev, q) <=> IsInner(f, lev, q)
      BY DEF IsInner
  <1>2. \A q \in Nodes : IsInner(f, lev, q) => \A j \in EntriesOf(q) : EntryIn(g, q, j) = EntryIn(f, q, j)
      BY DEF IsInner
  <1>3. EntriesLead(g, lev)
      BY <1>1, <1>2 DEF IsTree, EntriesLead
  <1>4. EntriesDiffer(g, lev)
      BY <1>1, <1>2 DEF IsTree, EntriesDiffer
  <1>5. EntriesCover(g, lev)
      BY <1>1, <1>2 DEF IsTree, EntriesCover
  <1> QED
      BY <1>3, <1>4, <1>5 DEF IsTree

\* The inode with no address, and no block in use.
LEMMA TreeEmpty ==
    ASSUME NEW f, f.used = {}, \A i \in Slots : f.addrs[i] = None
    PROVE  IsTree(f, [b \in Blocks |-> 0])
  <1> DEFINE lev == [b \in Blocks |-> 0]
  <1>1. \A p \in Nodes : IsInner(f, lev, p) => p = Inode /\ \A i \in EntriesOf(p) : EntryIn(f, p, i) = None
      BY DEF IsInner, EntriesOf, EntryIn, Entry
  <1> QED
      BY <1>1 DEF IsTree, EntriesLead, EntriesDiffer, EntriesCover

-----------------------------------------------------------------------------
(* Along a path.                                                           *)

\* What the work on a file block makes of the work record w: the inode stays
\* as it was, a block is left free, what is logged is counted, and the bitmap
\* is logged with anything else.
IsResult(w, r) ==
    /\ IsWork(r.w) /\ r.w.fs.used # Blocks /\ SameInode(w.fs, r.w.fs)
    /\ Counted(w.op) => Counted(r.w.op)
    /\ w.op.logged \subseteq r.w.op.logged
    /\ r.w.op.logged = w.op.logged \/ r.w.op.logged \cap Bitmaps # {}

\* The map is a tree, if it was read whole, and r.at is of level k in it.
AtLevel(r, k) ==
    r.w.fs.whole => \E lev : /\ IsTree(r.w.fs, lev)
                             /\ r.at # NoWay => r.at \in r.w.fs.used /\ lev[r.at] = k

LEMMA LoadIs ==
    ASSUME NEW w, IsWork(w), w.fs.used # Blocks, NEW p \in Nodes, NEW i \in EntriesOf(p)
    PROVE  LET r == Load(w, p, i) IN
           /\ IsResult(w, r) /\ r.at \in Blocks \cup {NoWay}
           /\ r.w.op.logged \subseteq (w.op.logged \cup Bitmaps \cup {Data(r.at)})
                                      \cup (IF p = Inode THEN {} ELSE {Data(p)})
           /\ \A lev : IsTree(w.fs, lev) /\ IsInner(w.fs, lev, p) =>
                \E new : /\ IsTree(r.w.fs, new)
                         /\ r.at # NoWay => r.at \in r.w.fs.used /\ new[r.at] = Below(lev, p, i)
  <1> DEFINE r == Load(w, p, i)
             e == EntryOf(w, p, i)
             b == FreeBlock(w)
             v == SetEntry(block_alloc(w, b), p, i, b)
  <1>1. w.fs \in Files /\ w.op.n \in Nat /\ IsFiniteSet(w.op.logged) /\ w.fs.used \subseteq Blocks
      BY WorkParts DEF Files
  <1>2. e = EntryIn(w.fs, p, i) /\ e \in Addresses
      BY <1>1, EntryInIs DEF EntryOf, EntryIn
  <1>3. b \in Blocks \ w.fs.used
      BY FreeBlockIs
  <1>4. r = IF e # None THEN [w |-> w, at |-> e]
            ELSE IF NoSpace(w) THEN [w |-> w, at |-> NoWay] ELSE [w |-> v, at |-> b]
      BY DEF Load
  <1>5. NoSpace(w) <=> w.fs.used \cup {b} = Blocks
      BY DEF NoSpace
  <1> HIDE DEF r, e, b
  <1>6. ASSUME NEW a, r = [w |-> w, at |-> a]
        PROVE  /\ IsResult(w, r) /\ r.at = a /\ r.w = w
               /\ r.w.op.logged \subseteq (w.op.logged \cup Bitmaps \cup {Data(r.at)})
                                          \cup (IF p = Inode THEN {} ELSE {Data(p)})
      BY <1>6 DEF IsResult, SameInode
  <1>7. CASE e # None
    <2>1. r = [w |-> w, at |-> e] /\ e \in Blocks
        BY <1>2, <1>4, <1>7 DEF Addresses
    <2>2. ASSUME NEW lev, IsTree(w.fs, lev), IsInner(w.fs, lev, p)
          PROVE  e \in w.fs.used /\ lev[e] = Below(lev, p, i)
        BY <1>2, <1>7, <2>2 DEF IsTree, EntriesLead
    <2> QED
        BY <1>6, <2>1, <2>2 DEF r
  <1>8. CASE e = None /\ NoSpace(w)
    <2>1. r = [w |-> w, at |-> NoWay]
        BY <1>4, <1>8
    <2> QED
        BY <1>6, <2>1 DEF r
  <1>9. CASE e = None /\ ~NoSpace(w)
    <2>1. r = [w |-> v, at |-> b]
        BY <1>4, <1>9
    <2>2. /\ IsWork(v) /\ SameInode(w.fs, v.fs) /\ v.fs.used = w.fs.used \cup {b}
          /\ \A q \in Nodes : \A j \in EntriesOf(q) :
                EntryIn(v.fs, q, j) = IF q = p /\ j = i THEN b
                                      ELSE IF q = b THEN None ELSE EntryIn(w.fs, q, j)
          /\ v.op.n = IF p = Inode THEN w.op.n + 2 ELSE w.op.n + 3
          /\ v.op.logged = (w.op.logged \cup {BBLOCK(b), Data(b)})
                           \cup (IF p = Inode THEN {} ELSE {Data(p)})
        BY <1>3, AllocEntered
    <2> HIDE DEF v
    <2>3. BBLOCK(b) \in Bitmaps
        BY <1>3 DEF Bitmaps
    <2>4. Counted(w.op) => Counted(v.op)
      <3> DEFINE L1 == w.op.logged \cup {BBLOCK(b)}
                 L2 == L1 \cup {Data(b)}
                 L3 == L2 \cup {Data(p)}
      <3>1. IsFiniteSet(L1) /\ Cardinality(w.op.logged) \in Nat /\ Cardinality(L1) \in Nat
            /\ Cardinality(L1) <= Cardinality(w.op.logged) + 1
          BY <1>1, AddOne
      <3> HIDE DEF L1
      <3>2. IsFiniteSet(L2) /\ Cardinality(L2) \in Nat /\ Cardinality(L2) <= Cardinality(L1) + 1
          BY <3>1, AddOne
      <3> HIDE DEF L2
      <3>3. Cardinality(L3) \in Nat /\ Cardinality(L3) <= Cardinality(L2) + 1
          BY <3>2, AddOne
      <3> HIDE DEF L3
      <3>4. v.op.logged = IF p = Inode THEN L2 ELSE L3
          BY <2>2 DEF L1, L2, L3
      <3>5. CASE p = Inode
        <4>1. v.op.n = w.op.n + 2 /\ v.op.logged = L2
            BY <2>2, <3>4, <3>5
        <4> QED
            BY <1>1, <3>1, <3>2, <4>1 DEF Counted
      <3>6. CASE p # Inode
        <4>1. v.op.n = w.op.n + 3 /\ v.op.logged = L3
            BY <2>2, <3>4, <3>6
        <4> QED
            BY <1>1, <3>1, <3>2, <3>3, <4>1 DEF Counted
      <3> QED
          BY <3>5, <3>6
    <2>5. v.fs.used # Blocks
        BY <1>5, <1>9, <2>2
    <2>6. r.w = v /\ r.at = b /\ b \in Blocks
        BY <1>3, <2>1
    <2>7. IsResult(w, r)
        BY <2>2, <2>3, <2>4, <2>5, <2>6 DEF IsResult
    <2>8. r.w.op.logged \subseteq (w.op.logged \cup Bitmaps \cup {Data(r.at)})
                                  \cup (IF p = Inode THEN {} ELSE {Data(p)})
        BY <2>2, <2>3, <2>6
    <2>9. ASSUME NEW lev, IsTree(w.fs, lev), IsInner(w.fs, lev, p)
          PROVE  \E new : IsTree(v.fs, new) /\ new[b] = Below(lev, p, i)
      <3>1. EntryIn(w.fs, p, i) = None
          BY <1>2, <1>9
      <3> QED
          BY <1>1, <1>3, <2>2, <2>9, <3>1, TreeGrows
    <2>10. b \in v.fs.used
        BY <2>2
    <2> QED
        BY <2>6, <2>7, <2>8, <2>9, <2>10 DEF r
  <1> QED
      BY <1>7, <1>8, <1>9

\* The blocks logged, with one bitmap block for all of them and the inode; and
\* with the block at which the work is.
Bitmap == BBLOCK(1)
Merged(o) == (o.logged \ Bitmaps) \cup {Bitmap, IBLOCK}
Room(o, at) == Merged(o) \cup {Data(at)}

\* The work on a path has come to a block of level k and has logged at most m
\* blocks, not counting the inode and the bitmap.
Reached(w, r, k, m) ==
    /\ IsResult(w, r) /\ r.at \in Blocks \cup {NoWay} /\ AtLevel(r, k)
    /\ r.at # NoWay =>
         Cardinality(Room(r.w.op, r.at)) <= Cardinality(Merged(w.op)) + m

LEMMA AtMostOneMore ==
    ASSUME NEW A, IsFiniteSet(A), NEW x, NEW B, B \subseteq A \cup {x}
    PROVE  /\ IsFiniteSet(B) /\ Cardinality(A) \in Nat /\ Cardinality(B) \in Nat
           /\ Cardinality(B) <= Cardinality(A) + 1
  <1>1. /\ IsFiniteSet(A \cup {x}) /\ Cardinality(A) \in Nat /\ Cardinality(A \cup {x}) \in Nat
        /\ Cardinality(A \cup {x}) <= Cardinality(A) + 1
      BY AddOne
  <1>2. IsFiniteSet(B) /\ Cardinality(B) <= Cardinality(A \cup {x})
      BY <1>1, FS_Subset
  <1>3. Cardinality(B) \in Nat
      BY <1>2, FS_CardinalityType
  <1> QED
      BY <1>1, <1>2, <1>3

LEMMA BitmapsApart == Bitmap \in Bitmaps /\ IBLOCK \notin Bitmaps /\ \A b : Data(b) \notin Bitmaps
  BY Numbers DEF Bitmap, Bitmaps, BBLOCK, IBLOCK, Data

LEMMA RoomFinite ==
    ASSUME NEW o, IsOp(o), NEW at
    PROVE  IsFiniteSet(Room(o, at)) /\ IsFiniteSet(Merged(o))
  <1>1. IsFiniteSet(o.logged \ Bitmaps)
      BY FS_Subset DEF IsOp
  <1>2. IsFiniteSet((o.logged \ Bitmaps) \cup {Bitmap})
      BY <1>1, AddOne
  <1>3. IsFiniteSet(((o.logged \ Bitmaps) \cup {Bitmap}) \cup {IBLOCK})
      BY <1>2, AddOne
  <1>4. Merged(o) = ((o.logged \ Bitmaps) \cup {Bitmap}) \cup {IBLOCK}
      BY DEF Merged
  <1>5. IsFiniteSet(Merged(o))
      BY <1>3, <1>4
  <1> QED
      BY <1>5, AddOne DEF Room

\* The inode and any part of the bitmap: what itrunc() logs.
LEMMA FewMerged ==
    ASSUME NEW o, o.logged \subseteq Bitmaps \cup {IBLOCK}
    PROVE  Cardinality(Merged(o)) <= MAXOPBLOCKS
  <1> DEFINE A == {IBLOCK}
             B == Merged(o)
  <1>1. IsFiniteSet(A) /\ Cardinality(A) = 1
      BY FS_Singleton
  <1>2. B \subseteq A \cup {Bitmap}
      BY DEF Merged
  <1> HIDE DEF A, B
  <1>3. Cardinality(B) \in Nat /\ Cardinality(B) <= 1 + 1
      BY <1>1, <1>2, AtMostOneMore
  <1>4. Cardinality(B) <= MAXOPBLOCKS
      BY <1>3, Numbers
  <1> QED
      BY <1>4 DEF B

\* The first step, from the inode.
LEMMA LoadFirst ==
    ASSUME NEW w, IsWork(w), w.fs.used # Blocks, NEW s \in Slots,
           w.fs.whole => \E lev : IsTree(w.fs, lev)
    PROVE  Reached(w, Load(w, Inode, s), Depth(s), 1)
  <1> DEFINE r == Load(w, Inode, s)
  <1>1. Inode \in Nodes /\ s \in EntriesOf(Inode)
      BY DEF Nodes, EntriesOf
  <1>2. /\ IsResult(w, r) /\ r.at \in Blocks \cup {NoWay}
        /\ r.w.op.logged \subseteq (w.op.logged \cup Bitmaps \cup {Data(r.at)}) \cup {}
        /\ \A lev : IsTree(w.fs, lev) /\ IsInner(w.fs, lev, Inode) =>
                \E new : /\ IsTree(r.w.fs, new)
                         /\ r.at # NoWay => r.at \in r.w.fs.used /\ new[r.at] = Below(lev, Inode, s)
      BY <1>1, LoadIs
  <1> HIDE DEF r
  <1>3. AtLevel(r, Depth(s))
    <2> SUFFICES ASSUME r.w.fs.whole
                 PROVE  \E lev : IsTree(r.w.fs, lev) /\ (r.at # NoWay => r.at \in r.w.fs.used /\ lev[r.at] = Depth(s))
        BY DEF AtLevel
    <2>1. w.fs.whole
        BY <1>2 DEF IsResult, SameInode
    <2>2. PICK lev : IsTree(w.fs, lev)
        BY <2>1
    <2>3. IsInner(w.fs, lev, Inode) /\ Below(lev, Inode, s) = Depth(s)
        BY DEF IsInner, Below
    <2> QED
        BY <1>2, <2>2, <2>3
  <1>4. Cardinality(Room(r.w.op, r.at)) <= Cardinality(Merged(w.op)) + 1
    <2>1. Room(r.w.op, r.at) \subseteq Merged(w.op) \cup {Data(r.at)}
        BY <1>2 DEF Room, Merged
    <2>2. IsFiniteSet(Merged(w.op))
        BY RoomFinite DEF IsWork
    <2> QED
        BY <2>1, <2>2, AtMostOneMore
  <1> QED
      BY <1>2, <1>3, <1>4 DEF Reached, r

\* A further step, from an indirect block.
NextLoad(a, i) == IF a.at = NoWay THEN a ELSE Load(a.w, a.at, i)

LEMMA LoadFurther ==
    ASSUME NEW w, IsWork(w), NEW a, NEW k \in 1 .. 3, NEW m \in Nat, Reached(w, a, k, m), NEW i \in Index,
           NEW n, NEW l, n = k - 1, l = m + 1
    PROVE  Reached(w, NextLoad(a, i), n, l)
  <1> DEFINE r == Load(a.w, a.at, i)
             p == a.at
  <1>1. /\ IsResult(w, a) /\ a.at \in Blocks \cup {NoWay} /\ AtLevel(a, k)
        /\ a.at # NoWay =>
             Cardinality(Room(a.w.op, a.at)) <= Cardinality(Merged(w.op)) + m
      BY DEF Reached
  <1>2. CASE a.at = NoWay
    <2>1. NextLoad(a, i) = a
        BY <1>2 DEF NextLoad
    <2>2. AtLevel(a, k - 1)
        BY <1>1, <1>2 DEF AtLevel
    <2> QED
        BY <1>1, <1>2, <2>1, <2>2 DEF Reached
  <1>3. CASE a.at # NoWay
    <2>1. p \in Nodes /\ p # Inode /\ p \in Blocks /\ i \in EntriesOf(p)
        BY <1>1, <1>3, Numbers DEF Nodes, EntriesOf
    <2>2. IsWork(a.w) /\ a.w.fs.used # Blocks
        BY <1>1 DEF IsResult
    <2>3. /\ IsResult(a.w, r) /\ r.at \in Blocks \cup {NoWay}
          /\ r.w.op.logged \subseteq (a.w.op.logged \cup Bitmaps \cup {Data(r.at)}) \cup {Data(p)}
          /\ \A lev : IsTree(a.w.fs, lev) /\ IsInner(a.w.fs, lev, p) =>
                \E new : /\ IsTree(r.w.fs, new)
                         /\ r.at # NoWay => r.at \in r.w.fs.used /\ new[r.at] = Below(lev, p, i)
        BY <2>1, <2>2, LoadIs
    <2>4. NextLoad(a, i) = r
        BY <1>3 DEF NextLoad
    <2> HIDE DEF r
    <2>5. IsResult(w, r)
        BY <1>1, <2>3 DEF IsResult, SameInode
    <2>6. AtLevel(r, k - 1)
      <3> SUFFICES ASSUME r.w.fs.whole
                   PROVE  \E lev : IsTree(r.w.fs, lev) /\ (r.at # NoWay => r.at \in r.w.fs.used /\ lev[r.at] = k - 1)
          BY DEF AtLevel
      <3>1. a.w.fs.whole
          BY <2>3 DEF IsResult, SameInode
      <3>2. PICK lev : IsTree(a.w.fs, lev) /\ p \in a.w.fs.used /\ lev[p] = k
          BY <1>1, <1>3, <3>1 DEF AtLevel
      <3>3. IsInner(a.w.fs, lev, p) /\ Below(lev, p, i) = k - 1
          BY <2>1, <3>2 DEF IsInner, Below
      <3> QED
          BY <2>3, <3>2, <3>3
    <2>7. Cardinality(Room(r.w.op, r.at)) <= Cardinality(Merged(w.op)) + (m + 1)
      <3>1. Room(r.w.op, r.at) \subseteq Room(a.w.op, p) \cup {Data(r.at)}
          BY <2>3 DEF Room, Merged
      <3>2. IsFiniteSet(Room(a.w.op, p)) /\ IsFiniteSet(Merged(w.op))
          BY <2>2, RoomFinite DEF IsWork
      <3>3. /\ Cardinality(Room(a.w.op, p)) \in Nat /\ Cardinality(Room(r.w.op, r.at)) \in Nat
            /\ Cardinality(Room(r.w.op, r.at)) <= Cardinality(Room(a.w.op, p)) + 1
          BY <3>1, <3>2, AtMostOneMore
      <3>4. Cardinality(Merged(w.op)) \in Nat
          BY <3>2, FS_CardinalityType
      <3> QED
          BY <1>1, <1>3, <3>3, <3>4
    <2> QED
        BY <2>3, <2>4, <2>5, <2>6, <2>7 DEF Reached
  <1> QED
      BY <1>2, <1>3

\* The paths of the file blocks: to a data block, at the bottom of a tree.
LEMMA PathIs ==
    ASSUME NEW bn \in 0 .. (MAXFILE_BLOCKS - 1)
    PROVE  \/ \E s \in Slots : s < NDIRECT /\ Path(bn) = <<s>>
           \/ \E i \in Index : Path(bn) = <<NDIRECT, i>>
           \/ \E i, j \in Index : Path(bn) = <<NDIRECT + 1, i, j>>
           \/ \E i, j, k \in Index : Path(bn) = <<NDIRECT + 2, i, j, k>>
  <1> DEFINE N == NINDIRECT1
             b1 == bn - NDIRECT
             b2 == b1 - N
             b3 == b2 - NINDIRECT2
  <1>1. N \in Nat \ {0} /\ NDIRECT \in Nat
      BY Numbers
  <1>2. NINDIRECT2 = N * N /\ NINDIRECT3 = NINDIRECT2 * N
      BY DEF NINDIRECT2, NINDIRECT3
  <1>3. NINDIRECT2 \in Nat \ {0} /\ N * NINDIRECT2 \in Nat /\ NINDIRECT3 = N * NINDIRECT2
      BY <1>1, <1>2
  <1>4. bn \in Nat /\ bn < NDIRECT + N + NINDIRECT2 + N * NINDIRECT2
      BY <1>1, <1>3 DEF MAXFILE_BLOCKS
  <1>5. Path(bn) = IF bn < NDIRECT THEN <<bn>>
            ELSE IF b1 < N THEN <<NDIRECT, b1>>
            ELSE IF b2 < NINDIRECT2 THEN <<NDIRECT + 1, b2 \div N, b2 % N>>
            ELSE <<NDIRECT + 2, b3 \div NINDIRECT2, (b3 % NINDIRECT2) \div N, (b3 % NINDIRECT2) % N>>
      BY DEF Path
  <1> HIDE DEF N
  <1>6. CASE bn < NDIRECT
      BY <1>1, <1>4, <1>5, <1>6 DEF Slots
  <1>7. CASE ~ (bn < NDIRECT) /\ b1 < N
    <2>1. b1 \in Index
        BY <1>1, <1>4, <1>7 DEF Index, N
    <2> QED
        BY <1>5, <1>7, <2>1
  <1>8. CASE ~ (bn < NDIRECT) /\ ~ (b1 < N) /\ b2 < NINDIRECT2
    <2>1. b2 \in Nat /\ b2 < N * N
        BY <1>1, <1>2, <1>4, <1>8
    <2> HIDE DEF b2
    <2>2. b2 \div N \in Nat /\ b2 % N \in 0 .. (N - 1)
        BY <1>1, <2>1, Division
    <2>3. b2 \div N < N
        BY <1>1, <2>1, QuotientBelow
    <2>4. b2 \div N \in Index /\ b2 % N \in Index
        BY <1>1, <2>2, <2>3 DEF Index, N
    <2> QED
        BY <1>5, <1>8, <2>4 DEF b2
  <1>9. CASE ~ (bn < NDIRECT) /\ ~ (b1 < N) /\ ~ (b2 < NINDIRECT2)
    <2>1. b3 \in Nat /\ b3 < N * NINDIRECT2
        BY <1>1, <1>3, <1>4, <1>9
    <2> HIDE DEF b3
    <2> DEFINE c == b3 % NINDIRECT2
    <2>2. b3 \div NINDIRECT2 \in Nat /\ c \in 0 .. (NINDIRECT2 - 1)
        BY <1>3, <2>1, Division
    <2>3. b3 \div NINDIRECT2 < N
        BY <1>1, <1>3, <2>1, QuotientBelow
    <2>4. c \in Nat /\ c < N * N
        BY <1>2, <1>3, <2>2
    <2>5. c \div N \in Nat /\ c % N \in 0 .. (N - 1)
        BY <1>1, <2>4, Division
    <2>6. c \div N < N
        BY <1>1, <2>4, QuotientBelow
    <2>7. b3 \div NINDIRECT2 \in Index /\ c \div N \in Index /\ c % N \in Index
        BY <1>1, <2>2, <2>3, <2>5, <2>6 DEF Index, N
    <2>8. Path(bn) = <<NDIRECT + 2, b3 \div NINDIRECT2, c \div N, c % N>>
        BY <1>5, <1>9 DEF b3
    <2> QED
        BY <2>7, <2>8
  <1> QED
      BY <1>6, <1>7, <1>8, <1>9

\* The four steps of the loop, for paths of one to four elements.
LEMMA LoadAllIs ==
    ASSUME NEW w
    PROVE  /\ \A s : LoadAll(w, <<s>>) = Load(w, Inode, s)
           /\ \A s, i : LoadAll(w, <<s, i>>) = NextLoad(Load(w, Inode, s), i)
           /\ \A s, i, j : LoadAll(w, <<s, i, j>>) = NextLoad(NextLoad(Load(w, Inode, s), i), j)
           /\ \A s, i, j, k :
                LoadAll(w, <<s, i, j, k>>) = NextLoad(NextLoad(NextLoad(Load(w, Inode, s), i), j), k)
  <1> DEFINE z == [w |-> w, at |-> Inode]
  <1>1. \A a, x : LoadNext(a, <<x>>, 2) = a /\ LoadNext(a, <<x>>, 3) = a /\ LoadNext(a, <<x>>, 4) = a
      BY DEF LoadNext
  <1>2. \A a, x, y : /\ LoadNext(a, <<x, y>>, 2) = NextLoad(a, y)
                     /\ LoadNext(a, <<x, y>>, 3) = a /\ LoadNext(a, <<x, y>>, 4) = a
      BY DEF LoadNext, NextLoad
  <1>3. \A a, x, y, u : /\ LoadNext(a, <<x, y, u>>, 2) = NextLoad(a, y)
                        /\ LoadNext(a, <<x, y, u>>, 3) = NextLoad(a, u) /\ LoadNext(a, <<x, y, u>>, 4) = a
      BY DEF LoadNext, NextLoad
  <1>4. \A a, x, y, u, v : /\ LoadNext(a, <<x, y, u, v>>, 2) = NextLoad(a, y)
                           /\ LoadNext(a, <<x, y, u, v>>, 3) = NextLoad(a, u)
                           /\ LoadNext(a, <<x, y, u, v>>, 4) = NextLoad(a, v)
      BY DEF LoadNext, NextLoad
  <1>5. /\ \A s : LoadNext(z, <<s>>, 1) = Load(w, Inode, s)
        /\ \A s, i : LoadNext(z, <<s, i>>, 1) = Load(w, Inode, s)
        /\ \A s, i, j : LoadNext(z, <<s, i, j>>, 1) = Load(w, Inode, s)
        /\ \A s, i, j, k : LoadNext(z, <<s, i, j, k>>, 1) = Load(w, Inode, s)
    <2>1. z.at = Inode /\ z.w = w /\ Inode # NoWay
        BY DEF Inode, NoWay
    <2> HIDE DEF z
    <2> QED
        BY <2>1 DEF LoadNext
  <1> HIDE DEF z
  <1>6. \A q : LoadAll(w, q) = LoadNext(LoadNext(LoadNext(LoadNext(z, q, 1), q, 2), q, 3), q, 4)
      BY DEF LoadAll, z
  <1> QED
      BY <1>1, <1>2, <1>3, <1>4, <1>5, <1>6

LEMMA ReachedMore ==
    ASSUME NEW w, IsWork(w), NEW r, NEW k, NEW m \in Nat, NEW n \in Nat, m <= n, Reached(w, r, k, m)
    PROVE  Reached(w, r, k, n)
  <1>1. IsWork(r.w)
      BY DEF Reached, IsResult
  <1>2. /\ Cardinality(Room(r.w.op, r.at)) \in Nat
        /\ Cardinality(Merged(w.op)) \in Nat
      BY <1>1, RoomFinite, FS_CardinalityType DEF IsWork
  <1> QED
      BY <1>2 DEF Reached

\* imap2blockno() comes to a data block.
LEMMA ImapIs ==
    ASSUME NEW w, IsWork(w), w.fs.used # Blocks, w.fs.whole => \E lev : IsTree(w.fs, lev),
           NEW bn \in 0 .. (MAXFILE_BLOCKS - 1)
    PROVE  Reached(w, imap2blockno(w, bn), 0, 4)
  <1>1. /\ NDIRECT \in Slots /\ NDIRECT + 1 \in Slots /\ NDIRECT + 2 \in Slots
        /\ Depth(NDIRECT) = 1 /\ Depth(NDIRECT + 1) = 2 /\ Depth(NDIRECT + 2) = 3
      BY Numbers DEF Slots, Depth
  <1>2. imap2blockno(w, bn) = LoadAll(w, Path(bn))
      BY DEF imap2blockno
  <1>3. CASE \E s \in Slots : s < NDIRECT /\ Path(bn) = <<s>>
    <2>1. PICK s \in Slots : s < NDIRECT /\ Path(bn) = <<s>>
        BY <1>3
    <2>2. Depth(s) = 0
        BY <2>1 DEF Depth
    <2>3. Reached(w, Load(w, Inode, s), 0, 1)
        BY <2>2, LoadFirst
    <2>4. imap2blockno(w, bn) = Load(w, Inode, s)
        BY <1>2, <2>1, LoadAllIs
    <2> QED
        BY <2>3, <2>4, ReachedMore
  <1>4. CASE \E i \in Index : Path(bn) = <<NDIRECT, i>>
    <2>1. PICK i \in Index : Path(bn) = <<NDIRECT, i>>
        BY <1>4
    <2> DEFINE a == Load(w, Inode, NDIRECT)
    <2>2. Reached(w, a, 1, 1)
        BY <1>1, LoadFirst
    <2>3. imap2blockno(w, bn) = NextLoad(a, i)
        BY <1>2, <2>1, LoadAllIs
    <2> HIDE DEF a
    <2>4. Reached(w, NextLoad(a, i), 0, 2)
        BY <2>2, LoadFurther
    <2> QED
        BY <2>3, <2>4, ReachedMore
  <1>5. CASE \E i, j \in Index : Path(bn) = <<NDIRECT + 1, i, j>>
    <2>1. PICK i, j \in Index : Path(bn) = <<NDIRECT + 1, i, j>>
        BY <1>5
    <2> DEFINE a == Load(w, Inode, NDIRECT + 1)
               b == NextLoad(a, i)
    <2>2. Reached(w, a, 2, 1)
        BY <1>1, LoadFirst
    <2>3. imap2blockno(w, bn) = NextLoad(b, j)
        BY <1>2, <2>1, LoadAllIs
    <2> HIDE DEF a
    <2>4. Reached(w, b, 1, 2)
        BY <2>2, LoadFurther
    <2> HIDE DEF b
    <2>5. Reached(w, NextLoad(b, j), 0, 3)
        BY <2>4, LoadFurther
    <2> QED
        BY <2>3, <2>5, ReachedMore
  <1>6. CASE \E i, j, k \in Index : Path(bn) = <<NDIRECT + 2, i, j, k>>
    <2>1. PICK i, j, k \in Index : Path(bn) = <<NDIRECT + 2, i, j, k>>
        BY <1>6
    <2> DEFINE a == Load(w, Inode, NDIRECT + 2)
               b == NextLoad(a, i)
               c == NextLoad(b, j)
    <2>2. Reached(w, a, 3, 1)
        BY <1>1, LoadFirst
    <2>3. imap2blockno(w, bn) = NextLoad(c, k)
        BY <1>2, <2>1, LoadAllIs
    <2> HIDE DEF a
    <2>4. Reached(w, b, 2, 2)
        BY <2>2, LoadFurther
    <2> HIDE DEF b
    <2>5. Reached(w, c, 1, 3)
        BY <2>4, LoadFurther
    <2> HIDE DEF c
    <2>6. Reached(w, NextLoad(c, k), 0, 4)
        BY <2>5, LoadFurther
    <2> QED
        BY <2>3, <2>6
  <1> QED
      BY <1>3, <1>4, <1>5, <1>6, PathIs

-----------------------------------------------------------------------------
(* Following a path, and freeing the block at its end.                     *)

HasEntries(f) == \A p \in Nodes : \A i \in EntriesOf(p) : EntryIn(f, p, i) \in Addresses
StepTo(f, p, i) == IF p = NoWay \/ EntryIn(f, p, i) = None THEN NoWay ELSE EntryIn(f, p, i)

LEMMA FollowIs ==
    ASSUME NEW w, NEW q
    PROVE  /\ Len(q) = 0 => Follow(w, q) = Inode
           /\ Len(q) = 1 => Follow(w, q) = StepTo(w.fs, Inode, q[1])
           /\ Len(q) = 2 => Follow(w, q) = StepTo(w.fs, StepTo(w.fs, Inode, q[1]), q[2])
           /\ Len(q) = 3 => Follow(w, q) = StepTo(w.fs, StepTo(w.fs, StepTo(w.fs, Inode, q[1]), q[2]), q[3])
           /\ Len(q) = 4 => Follow(w, q) =
                StepTo(w.fs, StepTo(w.fs, StepTo(w.fs, StepTo(w.fs, Inode, q[1]), q[2]), q[3]), q[4])
  <1>1. \A p, n : FollowNext(w, p, q, n) = IF n > Len(q) THEN p ELSE StepTo(w.fs, p, q[n])
      BY DEF FollowNext, StepTo, EntryOf, EntryIn
  <1>2. Follow(w, q) = FollowNext(w, FollowNext(w, FollowNext(w, FollowNext(w, Inode, q, 1), q, 2), q, 3), q, 4)
      BY DEF Follow
  <1> QED
      BY <1>1, <1>2

\* A step leads to a block, in a tree to one in use of the level below.
LEMMA StepToIs ==
    ASSUME NEW f, HasEntries(f), NEW p \in Nodes \cup {NoWay}, NEW i, p # NoWay => i \in EntriesOf(p)
    PROVE  /\ StepTo(f, p, i) \in Blocks \cup {NoWay}
           /\ \A lev : IsTree(f, lev) /\ (p # NoWay => IsInner(f, lev, p)) /\ StepTo(f, p, i) # NoWay =>
                /\ p # NoWay /\ StepTo(f, p, i) = EntryIn(f, p, i) /\ StepTo(f, p, i) # None
                /\ StepTo(f, p, i) \in f.used /\ lev[StepTo(f, p, i)] = Below(lev, p, i)
  <1>1. p # NoWay => EntryIn(f, p, i) \in Addresses
      BY DEF HasEntries
  <1>2. StepTo(f, p, i) \in Blocks \cup {NoWay}
      BY <1>1 DEF StepTo, Addresses
  <1>3. ASSUME NEW lev, IsTree(f, lev), p # NoWay => IsInner(f, lev, p), StepTo(f, p, i) # NoWay
        PROVE  /\ p # NoWay /\ StepTo(f, p, i) = EntryIn(f, p, i) /\ StepTo(f, p, i) # None
               /\ StepTo(f, p, i) \in f.used /\ lev[StepTo(f, p, i)] = Below(lev, p, i)
    <2>1. p # NoWay /\ EntryIn(f, p, i) # None /\ StepTo(f, p, i) = EntryIn(f, p, i)
        BY <1>3 DEF StepTo
    <2> QED
        BY <1>3, <2>1 DEF IsTree, EntriesLead
  <1> QED
      BY <1>2, <1>3

LEMMA FrontIs ==
    ASSUME NEW S, NEW q \in Seq(S), Len(q) > 0
    PROVE  /\ Len(Front(q)) = Len(q) - 1 /\ Last(q) = q[Len(q)]
           /\ \A n \in 1 .. (Len(q) - 1) : Front(q)[n] = q[n]
  <1> DEFINE l == Len(q) - 1
  <1>1. l \in Nat /\ l <= Len(q) /\ Len(q) = l + 1
      BY LenProperties
  <1>2. Front(q) = SubSeq(q, 1, l) /\ Last(q) = q[Len(q)]
      BY DEF Front, Last
  <1> HIDE DEF l
  <1>3. /\ Len(SubSeq(q, 1, l)) = IF 1 <= l THEN l - 1 + 1 ELSE 0
        /\ \A n \in 1 .. (l - 1 + 1) : SubSeq(q, 1, l)[n] = q[1 + n - 1]
      BY <1>1, SubSeqProperties
  <1> QED
      BY <1>1, <1>2, <1>3

\* What comes before the last element of a file block's path leads to the
\* block that has the data block's address.
LEMMA FollowFront ==
    ASSUME NEW w, IsWork(w), NEW bn \in 0 .. (MAXFILE_BLOCKS - 1)
    PROVE  LET p == Follow(w, Front(Path(bn)))
               i == Last(Path(bn))
           IN  /\ p \in Nodes \cup {NoWay} /\ (p # NoWay => i \in EntriesOf(p))
               /\ \A lev : IsTree(w.fs, lev) /\ p # NoWay => IsInner(w.fs, lev, p) /\ Below(lev, p, i) = 0
  <1> DEFINE f == w.fs
             p == Follow(w, Front(Path(bn)))
             l == Last(Path(bn))
             Ends == /\ p \in Nodes \cup {NoWay} /\ (p # NoWay => l \in EntriesOf(p))
                     /\ \A lev : IsTree(f, lev) /\ p # NoWay => IsInner(f, lev, p) /\ Below(lev, p, l) = 0
  <1>1. HasEntries(f) /\ Inode \in Nodes /\ EntriesOf(Inode) = Slots /\ Inode # NoWay /\ NoWay \notin Nodes
    <2>1. f \in Files
        BY WorkParts
    <2> QED
        BY <2>1, EntryInIs, Numbers DEF EntriesOf, Nodes, HasEntries
  <1>2. \A b \in Blocks : b \in Nodes /\ b # Inode /\ EntriesOf(b) = Index
      BY Numbers DEF Nodes, EntriesOf
  <1>3. \A lev : IsInner(f, lev, Inode)
      BY DEF IsInner
  <1>4. /\ NDIRECT \in Slots /\ NDIRECT + 1 \in Slots /\ NDIRECT + 2 \in Slots
        /\ Depth(NDIRECT) = 1 /\ Depth(NDIRECT + 1) = 2 /\ Depth(NDIRECT + 2) = 3
      BY Numbers DEF Slots, Depth
  <1> HIDE DEF f
  <1>5. ASSUME NEW s \in Slots
        PROVE  /\ StepTo(f, Inode, s) \in Blocks \cup {NoWay}
               /\ \A lev : IsTree(f, lev) /\ StepTo(f, Inode, s) # NoWay =>
                    StepTo(f, Inode, s) \in f.used /\ lev[StepTo(f, Inode, s)] = Depth(s)
    <2>1. \A lev : Below(lev, Inode, s) = Depth(s)
        BY DEF Below
    <2> QED
        BY <1>1, <1>3, <2>1, StepToIs
  <1>6. ASSUME NEW b \in Blocks \cup {NoWay}, NEW i \in Index, NEW n \in 1 .. 3,
               \A lev : IsTree(f, lev) /\ b # NoWay => b \in f.used /\ lev[b] = n
        PROVE  /\ StepTo(f, b, i) \in Blocks \cup {NoWay}
               /\ \A lev : IsTree(f, lev) /\ StepTo(f, b, i) # NoWay =>
                    StepTo(f, b, i) \in f.used /\ lev[StepTo(f, b, i)] = n - 1
    <2>1. b \in Nodes \cup {NoWay} /\ (b # NoWay => i \in EntriesOf(b))
        BY <1>2
    <2>2. \A lev : IsTree(f, lev) /\ b # NoWay => IsInner(f, lev, b) /\ Below(lev, b, i) = n - 1
        BY <1>2, <1>6 DEF IsInner, Below
    <2>3. StepTo(f, b, i) # NoWay => b # NoWay
        BY DEF StepTo
    <2> QED
        BY <1>1, <2>1, <2>2, <2>3, StepToIs
  <1>7. ASSUME NEW b \in Blocks \cup {NoWay}, p = b, l \in Index,
               \A lev : IsTree(f, lev) /\ b # NoWay => b \in f.used /\ lev[b] = 1
        PROVE  Ends
    <2>1. p \in Nodes \cup {NoWay} /\ (p # NoWay => l \in EntriesOf(p))
        BY <1>2, <1>7
    <2>2. ASSUME NEW lev, IsTree(f, lev), p # NoWay
          PROVE  IsInner(f, lev, p) /\ Below(lev, p, l) = 0
        BY <1>2, <1>7, <2>2 DEF IsInner, Below
    <2> QED
        BY <2>1, <2>2
  <1>8. CASE \E s \in Slots : s < NDIRECT /\ Path(bn) = <<s>>
    <2>1. PICK s \in Slots : s < NDIRECT /\ Path(bn) = <<s>>
        BY <1>8
    <2>2. Path(bn) \in Seq({s}) /\ Len(Path(bn)) = 1 /\ Path(bn)[1] = s
        BY <2>1
    <2>20. /\ Len(Front(Path(bn))) = Len(Path(bn)) - 1 /\ l = Path(bn)[Len(Path(bn))]
           /\ \A n \in 1 .. (Len(Path(bn)) - 1) : Front(Path(bn))[n] = Path(bn)[n]
      <3>1. Len(Path(bn)) > 0
          BY <2>2
      <3> QED
          BY <2>2, <3>1, FrontIs
    <2>5. Len(Front(Path(bn))) = 0 /\ l = s
        BY <2>2, <2>20
    <2>3. p = Inode
        BY <2>5, FollowIs
    <2>4. \A lev : Below(lev, Inode, s) = 0
        BY <2>1 DEF Below, Depth
    <2> QED
        BY <1>1, <1>3, <2>3, <2>4, <2>5 DEF f
  <1>9. CASE \E i \in Index : Path(bn) = <<NDIRECT, i>>
    <2>1. PICK i \in Index : Path(bn) = <<NDIRECT, i>>
        BY <1>9
    <2>5. Path(bn) \in Seq({NDIRECT, i}) /\ Len(Path(bn)) = 2 /\ Path(bn)[1] = NDIRECT /\ Path(bn)[2] = i
        BY <2>1
    <2>20. /\ Len(Front(Path(bn))) = Len(Path(bn)) - 1 /\ l = Path(bn)[Len(Path(bn))]
           /\ \A n \in 1 .. (Len(Path(bn)) - 1) : Front(Path(bn))[n] = Path(bn)[n]
      <3>1. Len(Path(bn)) > 0
          BY <2>5
      <3> QED
          BY <2>5, <3>1, FrontIs
    <2>2. Len(Front(Path(bn))) = 1 /\ Front(Path(bn))[1] = NDIRECT /\ l = i
        BY <2>5, <2>20
    <2>3. p = StepTo(f, Inode, NDIRECT)
        BY <2>2, FollowIs DEF f
    <2>4. Ends
        BY <1>4, <1>5, <1>7, <2>2, <2>3
    <2> QED
        BY <2>4 DEF f
  <1>10. CASE \E i, j \in Index : Path(bn) = <<NDIRECT + 1, i, j>>
    <2>1. PICK i, j \in Index : Path(bn) = <<NDIRECT + 1, i, j>>
        BY <1>10
    <2> DEFINE a == StepTo(f, Inode, NDIRECT + 1)
               b == StepTo(f, a, i)
    <2>7. /\ Path(bn) \in Seq({NDIRECT + 1, i, j}) /\ Len(Path(bn)) = 3
          /\ Path(bn)[1] = NDIRECT + 1 /\ Path(bn)[2] = i /\ Path(bn)[3] = j
        BY <2>1
    <2>20. /\ Len(Front(Path(bn))) = Len(Path(bn)) - 1 /\ l = Path(bn)[Len(Path(bn))]
           /\ \A n \in 1 .. (Len(Path(bn)) - 1) : Front(Path(bn))[n] = Path(bn)[n]
      <3>1. Len(Path(bn)) > 0
          BY <2>7
      <3> QED
          BY <2>7, <3>1, FrontIs
    <2>2. Len(Front(Path(bn))) = 2 /\ Front(Path(bn))[1] = NDIRECT + 1 /\ Front(Path(bn))[2] = i /\ l = j
        BY <2>7, <2>20
    <2>3. p = b
        BY <2>2, FollowIs DEF f
    <2>4. a \in Blocks \cup {NoWay} /\ \A lev : IsTree(f, lev) /\ a # NoWay => a \in f.used /\ lev[a] = 2
        BY <1>4, <1>5
    <2> HIDE DEF a
    <2>5. b \in Blocks \cup {NoWay} /\ \A lev : IsTree(f, lev) /\ b # NoWay => b \in f.used /\ lev[b] = 1
        BY <1>6, <2>4
    <2> HIDE DEF b
    <2>6. Ends
        BY <1>7, <2>2, <2>3, <2>5
    <2> QED
        BY <2>6 DEF f
  <1>11. CASE \E i, j, k \in Index : Path(bn) = <<NDIRECT + 2, i, j, k>>
    <2>1. PICK i, j, k \in Index : Path(bn) = <<NDIRECT + 2, i, j, k>>
        BY <1>11
    <2> DEFINE a == StepTo(f, Inode, NDIRECT + 2)
               b == StepTo(f, a, i)
               c == StepTo(f, b, j)
    <2>8. /\ Path(bn) \in Seq({NDIRECT + 2, i, j, k}) /\ Len(Path(bn)) = 4
          /\ Path(bn)[1] = NDIRECT + 2 /\ Path(bn)[2] = i /\ Path(bn)[3] = j /\ Path(bn)[4] = k
        BY <2>1
    <2>20. /\ Len(Front(Path(bn))) = Len(Path(bn)) - 1 /\ l = Path(bn)[Len(Path(bn))]
           /\ \A n \in 1 .. (Len(Path(bn)) - 1) : Front(Path(bn))[n] = Path(bn)[n]
      <3>1. Len(Path(bn)) > 0
          BY <2>8
      <3> QED
          BY <2>8, <3>1, FrontIs
    <2>2. /\ Len(Front(Path(bn))) = 3 /\ Front(Path(bn))[1] = NDIRECT + 2
          /\ Front(Path(bn))[2] = i /\ Front(Path(bn))[3] = j /\ l = k
        BY <2>8, <2>20
    <2>3. p = c
        BY <2>2, FollowIs DEF f
    <2>4. a \in Blocks \cup {NoWay} /\ \A lev : IsTree(f, lev) /\ a # NoWay => a \in f.used /\ lev[a] = 3
        BY <1>4, <1>5
    <2> HIDE DEF a
    <2>5. b \in Blocks \cup {NoWay} /\ \A lev : IsTree(f, lev) /\ b # NoWay => b \in f.used /\ lev[b] = 2
        BY <1>6, <2>4
    <2> HIDE DEF b
    <2>6. c \in Blocks \cup {NoWay} /\ \A lev : IsTree(f, lev) /\ c # NoWay => c \in f.used /\ lev[c] = 1
        BY <1>6, <2>5
    <2> HIDE DEF c
    <2>7. Ends
        BY <1>7, <2>2, <2>3, <2>6
    <2> QED
        BY <2>7 DEF f
  <1> QED
      BY <1>8, <1>9, <1>10, <1>11, PathIs

\* The root that is allocated if need be.
LEMMA LoadRootIs ==
    ASSUME NEW w, IsWork(w), w.fs.used # Blocks, w.fs.whole => \E lev : IsTree(w.fs, lev),
           NEW bn \in 0 .. (MAXFILE_BLOCKS - 1)
    PROVE  LET v == LoadRoot(w, Path(bn)) IN
           /\ IsResult(w, v) /\ (v.w.fs.whole => \E lev : IsTree(v.w.fs, lev))
           /\ v.at # NoWay =>
                Cardinality(Merged(v.w.op)) <= Cardinality(Merged(w.op)) + 1
  <1> DEFINE v == LoadRoot(w, Path(bn))
  <1>1. IsFiniteSet(Merged(w.op)) /\ Cardinality(Merged(w.op)) \in Nat
      BY RoomFinite, FS_CardinalityType DEF IsWork
  <1>2. CASE Len(Path(bn)) # 3
    <2>1. v.w = w /\ v.at = Inode
        BY <1>2 DEF LoadRoot
    <2>2. IsResult(w, v)
        BY <2>1 DEF IsResult, SameInode
    <2> HIDE DEF v
    <2> QED
        BY <1>1, <2>1, <2>2 DEF v
  <1>3. CASE Len(Path(bn)) = 3
    <2>1. Path(bn)[1] \in Slots
        BY <1>3, PathIs, Numbers DEF Slots
    <2>2. v = Load(w, Inode, Path(bn)[1])
        BY <1>3 DEF LoadRoot
    <2> HIDE DEF v
    <2>3. Reached(w, v, Depth(Path(bn)[1]), 1)
        BY <2>1, <2>2, LoadFirst
    <2>4. IsResult(w, v) /\ (v.w.fs.whole => \E lev : IsTree(v.w.fs, lev))
        BY <2>3 DEF Reached, AtLevel
    <2>5. ASSUME v.at # NoWay
          PROVE  Cardinality(Merged(v.w.op)) <= Cardinality(Merged(w.op)) + 1
      <3>1. Cardinality(Room(v.w.op, v.at)) <= Cardinality(Merged(w.op)) + 1
          BY <2>3, <2>5 DEF Reached
      <3>2. IsFiniteSet(Room(v.w.op, v.at)) /\ IsFiniteSet(Merged(v.w.op))
          BY <2>4, RoomFinite DEF IsResult, IsWork
      <3>3. Merged(v.w.op) \subseteq Room(v.w.op, v.at)
          BY DEF Room
      <3>4. Cardinality(Merged(v.w.op)) <= Cardinality(Room(v.w.op, v.at))
          BY <3>2, <3>3, FS_Subset
      <3>5. /\ Cardinality(Merged(v.w.op)) \in Nat
            /\ Cardinality(Room(v.w.op, v.at)) \in Nat
          BY <3>2, FS_CardinalityType
      <3> QED
          BY <1>1, <3>1, <3>4, <3>5
    <2> QED
        BY <2>4, <2>5 DEF v
  <1> QED
      BY <1>2, <1>3

\* Freeing the block of an entry and clearing the entry.
LEMMA EntryFreed ==
    ASSUME NEW w, IsWork(w), w.fs.used # Blocks, NEW p \in Nodes, NEW i \in EntriesOf(p),
           EntryIn(w.fs, p, i) # None
    PROVE  LET v == SetEntry(block_free(w, EntryIn(w.fs, p, i)), p, i, None)
               r == [w |-> v, at |-> Inode]
           IN  /\ IsResult(w, r)
               /\ \A lev : IsTree(w.fs, lev) /\ IsInner(w.fs, lev, p) /\ Below(lev, p, i) = 0 =>
                    IsTree(v.fs, lev)
               /\ v.op.logged \subseteq w.op.logged \cup Bitmaps \cup {Data(p)}
  <1> DEFINE b == EntryIn(w.fs, p, i)
             u == block_free(w, b)
             v == SetEntry(u, p, i, None)
             r == [w |-> v, at |-> Inode]
  <1>1. w.fs \in Files /\ w.op.n \in Nat /\ IsFiniteSet(w.op.logged) /\ w.fs.used \subseteq Blocks
      BY WorkParts DEF Files
  <1>2. b \in Blocks
      BY <1>1, EntryInIs DEF Addresses
  <1>3. /\ IsWork(u) /\ SameInode(w.fs, u.fs) /\ u.fs.used = w.fs.used \ {b}
        /\ u.fs.addrs = w.fs.addrs /\ u.fs.ind = w.fs.ind
        /\ u.op.n = w.op.n + 1 /\ u.op.logged = w.op.logged \cup {BBLOCK(b)}
      BY <1>2, BlockFreeIs
  <1> HIDE DEF u
  <1>4. \A q, j : EntryIn(u.fs, q, j) = EntryIn(w.fs, q, j)
      BY <1>3 DEF EntryIn
  <1>5. /\ IsWork(v) /\ SameInode(u.fs, v.fs) /\ v.fs.used = u.fs.used
        /\ \A q \in Nodes : \A j \in EntriesOf(q) :
                EntryIn(v.fs, q, j) = IF q = p /\ j = i THEN None ELSE EntryIn(u.fs, q, j)
        /\ v.op.n = IF p = Inode THEN u.op.n ELSE u.op.n + 1
        /\ v.op.logged = u.op.logged \cup (IF p = Inode THEN {} ELSE {Data(p)})
      BY <1>3, Numbers, SetEntryIs
  <1> HIDE DEF v
  <1>6. \A q \in Nodes : \A j \in EntriesOf(q) :
            EntryIn(v.fs, q, j) = IF q = p /\ j = i THEN None ELSE EntryIn(w.fs, q, j)
      BY <1>4, <1>5
  <1>7. v.fs.used = w.fs.used \ {b} /\ v.fs.used # Blocks /\ SameInode(w.fs, v.fs)
      BY <1>2, <1>3, <1>5 DEF SameInode
  <1>8. Counted(w.op) => Counted(v.op)
    <2> DEFINE L1 == w.op.logged \cup {BBLOCK(b)}
               L2 == L1 \cup {Data(p)}
    <2>1. IsFiniteSet(L1) /\ Cardinality(w.op.logged) \in Nat /\ Cardinality(L1) \in Nat
          /\ Cardinality(L1) <= Cardinality(w.op.logged) + 1
        BY <1>1, AddOne
    <2> HIDE DEF L1
    <2>2. Cardinality(L2) \in Nat /\ Cardinality(L2) <= Cardinality(L1) + 1
        BY <2>1, AddOne
    <2> HIDE DEF L2
    <2>3. CASE p = Inode
      <3>1. v.op.n = w.op.n + 1 /\ v.op.logged = L1
          BY <1>3, <1>5, <2>3 DEF L1
      <3> QED
          BY <1>1, <2>1, <3>1 DEF Counted
    <2>4. CASE p # Inode
      <3>1. v.op.n = w.op.n + 1 + 1 /\ v.op.logged = L2
          BY <1>3, <1>5, <2>4 DEF L1, L2
      <3> QED
          BY <1>1, <2>1, <2>2, <3>1 DEF Counted
    <2> QED
        BY <2>3, <2>4
  <1>9. BBLOCK(b) \in Bitmaps /\ BBLOCK(b) \in v.op.logged /\ w.op.logged \subseteq v.op.logged
      BY <1>2, <1>3, <1>5 DEF Bitmaps
  <1>10. r.w = v
      OBVIOUS
  <1> HIDE DEF r
  <1>11. IsResult(w, r)
      BY <1>5, <1>7, <1>8, <1>9, <1>10 DEF IsResult
  <1>12. ASSUME NEW lev, IsTree(w.fs, lev), IsInner(w.fs, lev, p), Below(lev, p, i) = 0
         PROVE  IsTree(v.fs, lev)
      BY <1>1, <1>6, <1>7, <1>12, TreeShrinks
  <1>13. v.op.logged \subseteq w.op.logged \cup Bitmaps \cup {Data(p)}
      BY <1>3, <1>5, <1>9
  <1> QED
      BY <1>11, <1>12, <1>13 DEF r, v, u

\* imap2blockno_free() frees a data block, or finds that there is none.
LEMMA FreeIs ==
    ASSUME NEW w, IsWork(w), w.fs.used # Blocks, w.fs.whole => \E lev : IsTree(w.fs, lev),
           NEW bn \in 0 .. (MAXFILE_BLOCKS - 1)
    PROVE  LET r == imap2blockno_free(w, bn) IN
           /\ IsResult(w, r) /\ (r.w.fs.whole => \E lev : IsTree(r.w.fs, lev))
           /\ r.at # NoWay =>
                Cardinality(Merged(r.w.op)) <= Cardinality(Merged(w.op)) + 2
  <1> DEFINE r == imap2blockno_free(w, bn)
             v == LoadRoot(w, Path(bn))
             p == Follow(v.w, Front(Path(bn)))
             i == Last(Path(bn))
             x == SetEntry(block_free(v.w, EntryOf(v.w, p, i)), p, i, None)
  <1>1. /\ IsResult(w, v) /\ (v.w.fs.whole => \E lev : IsTree(v.w.fs, lev))
        /\ v.at # NoWay =>
             Cardinality(Merged(v.w.op)) <= Cardinality(Merged(w.op)) + 1
      BY LoadRootIs
  <1>2. r = IF v.at = NoWay \/ p = NoWay THEN v
            ELSE IF EntryOf(v.w, p, i) = None THEN v ELSE [w |-> x, at |-> v.at]
      BY DEF imap2blockno_free
  <1> HIDE DEF r, v
  <1>3. IsWork(v.w) /\ v.w.fs.used # Blocks
      BY <1>1 DEF IsResult
  <1>4. /\ p \in Nodes \cup {NoWay} /\ (p # NoWay => i \in EntriesOf(p))
        /\ \A lev : IsTree(v.w.fs, lev) /\ p # NoWay => IsInner(v.w.fs, lev, p) /\ Below(lev, p, i) = 0
      BY <1>3, FollowFront
  <1> HIDE DEF p, i
  <1>5. /\ IsFiniteSet(Merged(w.op)) /\ Cardinality(Merged(w.op)) \in Nat
        /\ IsFiniteSet(Merged(v.w.op)) /\ Cardinality(Merged(v.w.op)) \in Nat
      BY <1>3, RoomFinite, FS_CardinalityType DEF IsWork
  <1>6. CASE r = v
    <2>1. r.at # NoWay =>
             Cardinality(Merged(r.w.op)) <= Cardinality(Merged(w.op)) + 2
        BY <1>1, <1>5, <1>6
    <2> QED
        BY <1>1, <1>6, <2>1 DEF r
  <1>7. CASE r # v
    <2>1. v.at # NoWay /\ p # NoWay /\ EntryOf(v.w, p, i) # None /\ r = [w |-> x, at |-> v.at]
        BY <1>2, <1>7
    <2>2. EntryOf(v.w, p, i) = EntryIn(v.w.fs, p, i) /\ p \in Nodes /\ i \in EntriesOf(p)
        BY <1>4, <2>1 DEF EntryOf, EntryIn
    <2>3. x = SetEntry(block_free(v.w, EntryIn(v.w.fs, p, i)), p, i, None)
        BY <2>2
    <2> HIDE DEF x
    <2> DEFINE y == [w |-> x, at |-> Inode]
    <2>4. /\ IsResult(v.w, y)
          /\ \A lev : IsTree(v.w.fs, lev) /\ IsInner(v.w.fs, lev, p) /\ Below(lev, p, i) = 0 => IsTree(x.fs, lev)
          /\ x.op.logged \subseteq v.w.op.logged \cup Bitmaps \cup {Data(p)}
        BY <1>3, <2>1, <2>2, <2>3, EntryFreed
    <2>5. y.w = x /\ r.w = x
        BY <2>1
    <2> HIDE DEF y
    <2>6. IsResult(w, r)
        BY <1>1, <2>4, <2>5 DEF IsResult, SameInode
    <2>7. ASSUME r.w.fs.whole PROVE \E lev : IsTree(r.w.fs, lev)
      <3>1. v.w.fs.whole
          BY <2>4, <2>5, <2>7 DEF IsResult, SameInode
      <3>2. PICK lev : IsTree(v.w.fs, lev)
          BY <1>1, <3>1
      <3>3. IsInner(v.w.fs, lev, p) /\ Below(lev, p, i) = 0
          BY <1>4, <2>1, <3>2
      <3> QED
          BY <2>4, <2>5, <3>2, <3>3
    <2>8. Cardinality(Merged(r.w.op)) <= Cardinality(Merged(w.op)) + 2
      <3>1. Merged(r.w.op) \subseteq Merged(v.w.op) \cup {Data(p)}
          BY <2>4, <2>5 DEF Merged
      <3>2. /\ Cardinality(Merged(r.w.op)) \in Nat
            /\ Cardinality(Merged(r.w.op)) <= Cardinality(Merged(v.w.op)) + 1
        <4> DEFINE A == Merged(v.w.op)
                   B == Merged(r.w.op)
        <4>1. IsFiniteSet(A) /\ B \subseteq A \cup {Data(p)}
            BY <1>5, <3>1
        <4> HIDE DEF A, B
        <4>2. Cardinality(B) \in Nat /\ Cardinality(B) <= Cardinality(A) + 1
            BY <4>1, AtMostOneMore
        <4> QED
            BY <4>2 DEF A, B
      <3> QED
          BY <1>1, <1>5, <2>1, <3>2
    <2> QED
        BY <2>6, <2>7, <2>8 DEF r
  <1> QED
      BY <1>6, <1>7

-----------------------------------------------------------------------------
(* The positions of the code, in a tree.                                   *)

\* The level of the block at position q.
Rank(q) == Depth(q[1]) - Len(q) + 1

\* A position is a slot, or an entry of the indirect block at a position.
IsSlot(q) == Len(q) = 1 /\ q[1] \in Slots
IsBelow(q, r) ==
    /\ r \in Positions /\ Len(r) \in 1 .. 3 /\ Len(q) = Len(r) + 1 /\ Rank(r) \in 1 .. 3
    /\ q[Len(q)] \in Index /\ \A n \in 1 .. Len(r) : r[n] = q[n]

LEMMA PositionIs ==
    ASSUME NEW q \in Positions
    PROVE  /\ q[1] \in Slots /\ Rank(q) \in 0 .. 3
           /\ IsSlot(q) \/ \E r : IsBelow(q, r)
           /\ Len(q) \in 1 .. 4
  <1>1. /\ NDIRECT \in Slots /\ NDIRECT + 1 \in Slots /\ NDIRECT + 2 \in Slots
        /\ Depth(NDIRECT) = 1 /\ Depth(NDIRECT + 1) = 2 /\ Depth(NDIRECT + 2) = 3
        /\ \A s \in Slots : Depth(s) \in 0 .. 3
      BY Numbers DEF Slots, Depth
  <1>2. CASE q \in {<<s>> : s \in Slots}
    <2>1. PICK s \in Slots : q = <<s>>
        BY <1>2
    <2> QED
        BY <1>1, <2>1 DEF IsSlot, Rank
  <1>3. CASE q \in {<<s, i>> : s \in {NDIRECT, NDIRECT + 1, NDIRECT + 2}, i \in Index}
    <2>1. PICK s \in {NDIRECT, NDIRECT + 1, NDIRECT + 2}, i \in Index : q = <<s, i>>
        BY <1>3
    <2>2. s \in Slots /\ Depth(s) \in 1 .. 3
        BY <1>1
    <2>3. <<s>> \in Positions
        BY <2>2 DEF Positions
    <2>4. Rank(<<s>>) = Depth(s) /\ Rank(q) = Depth(s) - 1 /\ Len(q) = 2 /\ q[1] = s /\ q[2] = i
        BY <2>1, <2>2 DEF Rank
    <2>5. IsBelow(q, <<s>>)
        BY <2>2, <2>3, <2>4 DEF IsBelow
    <2> QED
        BY <2>2, <2>4, <2>5
  <1>4. CASE q \in {<<s, i, j>> : s \in {NDIRECT + 1, NDIRECT + 2}, i \in Index, j \in Index}
    <2>1. PICK s \in {NDIRECT + 1, NDIRECT + 2}, i \in Index, j \in Index : q = <<s, i, j>>
        BY <1>4
    <2>2. s \in Slots /\ Depth(s) \in 2 .. 3
        BY <1>1
    <2>3. <<s, i>> \in Positions
        BY <2>1 DEF Positions
    <2>4. Rank(<<s, i>>) = Depth(s) - 1 /\ Rank(q) = Depth(s) - 2 /\ Len(q) = 3 /\ q[1] = s /\ q[2] = i /\ q[3] = j
        BY <2>1, <2>2 DEF Rank
    <2>5. IsBelow(q, <<s, i>>)
        BY <2>2, <2>3, <2>4 DEF IsBelow
    <2> QED
        BY <2>2, <2>4, <2>5
  <1>5. CASE q \in {<<NDIRECT + 2, i, j, k>> : i \in Index, j \in Index, k \in Index}
    <2>1. PICK i \in Index, j \in Index, k \in Index : q = <<NDIRECT + 2, i, j, k>>
        BY <1>5
    <2> DEFINE s == NDIRECT + 2
    <2>2. s \in Slots /\ Depth(s) = 3
        BY <1>1
    <2>3. <<s, i, j>> \in Positions
        BY <2>1 DEF Positions
    <2>4. /\ Rank(<<s, i, j>>) = 1 /\ Rank(q) = 0 /\ Len(q) = 4
          /\ q[1] = s /\ q[2] = i /\ q[3] = j /\ q[4] = k
        BY <2>1, <2>2 DEF Rank
    <2>5. IsBelow(q, <<s, i, j>>)
        BY <2>2, <2>3, <2>4 DEF IsBelow
    <2> QED
        BY <2>2, <2>4, <2>5
  <1> QED
      BY <1>2, <1>3, <1>4, <1>5 DEF Positions

\* Positions with the same elements are the same.
LEMMA SamePosition ==
    ASSUME NEW q \in Positions, NEW r \in Positions, Len(q) = Len(r), \A n \in 1 .. Len(q) : q[n] = r[n]
    PROVE  q = r
  <1> DEFINE S == Slots \cup Index
  <1>1. NDIRECT \in Slots /\ NDIRECT + 1 \in Slots /\ NDIRECT + 2 \in Slots
      BY Numbers DEF Slots
  <1>3. Slots \subseteq S /\ Index \subseteq S
      OBVIOUS
  <1> HIDE DEF S
  <1>2. \A p \in Positions : p \in Seq(S)
    <2> SUFFICES ASSUME NEW p \in Positions PROVE p \in Seq(S)
        OBVIOUS
    <2>1. ASSUME NEW s \in S, NEW i \in S, NEW j \in S, NEW k \in S
          PROVE  <<s>> \in Seq(S) /\ <<s, i>> \in Seq(S) /\ <<s, i, j>> \in Seq(S) /\ <<s, i, j, k>> \in Seq(S)
        OBVIOUS
    <2>2. CASE p \in {<<s>> : s \in Slots}
        BY <1>3, <2>1, <2>2
    <2>3. CASE p \in {<<s, i>> : s \in {NDIRECT, NDIRECT + 1, NDIRECT + 2}, i \in Index}
      <3>1. PICK s \in {NDIRECT, NDIRECT + 1, NDIRECT + 2}, i \in Index : p = <<s, i>>
          BY <2>3
      <3> QED
          BY <1>1, <1>3, <2>1, <3>1
    <2>4. CASE p \in {<<s, i, j>> : s \in {NDIRECT + 1, NDIRECT + 2}, i \in Index, j \in Index}
      <3>1. PICK s \in {NDIRECT + 1, NDIRECT + 2}, i \in Index, j \in Index : p = <<s, i, j>>
          BY <2>4
      <3> QED
          BY <1>1, <1>3, <2>1, <3>1
    <2>5. CASE p \in {<<NDIRECT + 2, i, j, k>> : i \in Index, j \in Index, k \in Index}
      <3>1. PICK i \in Index, j \in Index, k \in Index : p = <<NDIRECT + 2, i, j, k>>
          BY <2>5
      <3> QED
          BY <1>1, <1>3, <2>1, <3>1
    <2> QED
        BY <2>2, <2>3, <2>4, <2>5 DEF Positions
  <1> QED
      BY <1>2, SeqEqual

\* Below a position of an indirect block there is one for every index.
LEMMA PositionBelow ==
    ASSUME NEW r \in Positions, Rank(r) \in 1 .. 3, NEW i \in Index
    PROVE  \E q \in Positions : IsBelow(q, r) /\ q[Len(q)] = i
  <1>1. /\ \A s \in Slots : Depth(s) = 1 => s = NDIRECT
        /\ \A s \in Slots : Depth(s) = 2 => s = NDIRECT + 1
        /\ \A s \in Slots : Depth(s) = 3 => s = NDIRECT + 2
        /\ \A s \in Slots : Depth(s) \in 0 .. 3
      BY Numbers DEF Slots, Depth
  <1>2. CASE r \in {<<s>> : s \in Slots}
    <2>1. PICK s \in Slots : r = <<s>>
        BY <1>2
    <2>2. Rank(r) = Depth(s) /\ Len(r) = 1 /\ r[1] = s
        BY <1>1, <2>1 DEF Rank
    <2>3. s \in {NDIRECT, NDIRECT + 1, NDIRECT + 2}
        BY <1>1, <2>2
    <2>4. <<s, i>> \in Positions
        BY <2>3 DEF Positions
    <2>5. IsBelow(<<s, i>>, r)
        BY <2>2, <2>4 DEF IsBelow
    <2> QED
        BY <2>4, <2>5
  <1>3. CASE r \in {<<s, k>> : s \in {NDIRECT, NDIRECT + 1, NDIRECT + 2}, k \in Index}
    <2>1. PICK s \in {NDIRECT, NDIRECT + 1, NDIRECT + 2}, k \in Index : r = <<s, k>>
        BY <1>3
    <2>2. Rank(r) = Depth(s) - 1 /\ Len(r) = 2 /\ r[1] = s /\ r[2] = k
        BY <1>1, <2>1, Numbers DEF Rank, Depth
    <2>3. s \in {NDIRECT + 1, NDIRECT + 2}
        BY <2>1, <2>2, Numbers DEF Depth
    <2>4. <<s, k, i>> \in Positions
        BY <2>1, <2>3 DEF Positions
    <2>5. IsBelow(<<s, k, i>>, r)
        BY <2>2, <2>4 DEF IsBelow
    <2> QED
        BY <2>4, <2>5
  <1>4. CASE r \in {<<s, k, j>> : s \in {NDIRECT + 1, NDIRECT + 2}, k \in Index, j \in Index}
    <2>1. PICK s \in {NDIRECT + 1, NDIRECT + 2}, k \in Index, j \in Index : r = <<s, k, j>>
        BY <1>4
    <2>2. Rank(r) = Depth(s) - 2 /\ Len(r) = 3 /\ r[1] = s /\ r[2] = k /\ r[3] = j
        BY <2>1, Numbers DEF Rank, Depth
    <2>3. s = NDIRECT + 2
        BY <2>1, <2>2, Numbers DEF Depth
    <2>4. <<s, k, j, i>> \in Positions
        BY <2>1, <2>3 DEF Positions
    <2>5. IsBelow(<<s, k, j, i>>, r)
        BY <2>2, <2>4 DEF IsBelow
    <2> QED
        BY <2>4, <2>5
  <1>5. CASE r \in {<<NDIRECT + 2, k, j, l>> : k \in Index, j \in Index, l \in Index}
    <2>1. Len(r) = 4 /\ r[1] = NDIRECT + 2
        BY <1>5
    <2>2. Rank(r) = 0
        BY <2>1, Numbers DEF Rank, Depth
    <2> QED
        BY <2>2
  <1> QED
      BY <1>2, <1>3, <1>4, <1>5 DEF Positions

\* Following a position, element by element.
LEMMA FollowPosition ==
    ASSUME NEW w, NEW f, w.fs.addrs = f.addrs, w.fs.ind = f.ind
    PROVE  /\ \A q : IsSlot(q) => Follow(w, q) = StepTo(f, Inode, q[1])
           /\ \A q, r : IsBelow(q, r) => Follow(w, q) = StepTo(f, Follow(w, r), q[Len(q)])
  <1>1. \A p, i : StepTo(w.fs, p, i) = StepTo(f, p, i)
      BY DEF StepTo, EntryIn
  <1>2. ASSUME NEW q, IsSlot(q) PROVE Follow(w, q) = StepTo(f, Inode, q[1])
      BY <1>1, <1>2, FollowIs DEF IsSlot
  <1>3. ASSUME NEW q, NEW r, IsBelow(q, r) PROVE Follow(w, q) = StepTo(f, Follow(w, r), q[Len(q)])
    <2>1. Len(r) \in 1 .. 3 /\ Len(q) = Len(r) + 1 /\ \A n \in 1 .. Len(r) : r[n] = q[n]
        BY <1>3 DEF IsBelow
    <2>2. CASE Len(r) = 1
      <3>1. Len(q) = 2 /\ r[1] = q[1]
          BY <2>1, <2>2
      <3> QED
          BY <1>1, <2>2, <3>1, FollowIs
    <2>3. CASE Len(r) = 2
      <3>1. Len(q) = 3 /\ r[1] = q[1] /\ r[2] = q[2]
          BY <2>1, <2>3
      <3> QED
          BY <1>1, <2>3, <3>1, FollowIs
    <2>4. CASE Len(r) = 3
      <3>1. Len(q) = 4 /\ r[1] = q[1] /\ r[2] = q[2] /\ r[3] = q[3]
          BY <2>1, <2>4
      <3> QED
          BY <1>1, <2>4, <3>1, FollowIs
    <2> QED
        BY <2>1, <2>2, <2>3, <2>4
  <1> QED
      BY <1>2, <1>3

\* A work record w of a file or disk f that is a tree.
IsTreeOf(w, f, lev) ==
    /\ w.fs.addrs = f.addrs /\ w.fs.ind = f.ind
    /\ HasEntries(f) /\ f.used \subseteq Blocks /\ IsTree(f, lev)

\* A position leads to a block in use, whose level is the rank of the position.
Leads(w, f, lev, q) ==
    Follow(w, q) # NoWay => Follow(w, q) \in f.used /\ lev[Follow(w, q)] = Rank(q)

LEMMA SlotLeads ==
    ASSUME NEW w, NEW f, NEW lev, IsTreeOf(w, f, lev), NEW q, IsSlot(q)
    PROVE  /\ Leads(w, f, lev, q)
           /\ Follow(w, q) # NoWay => Follow(w, q) = EntryIn(f, Inode, q[1]) /\ Follow(w, q) # None
  <1>1. Follow(w, q) = StepTo(f, Inode, q[1])
      BY FollowPosition DEF IsTreeOf
  <1>2. Inode \in Nodes /\ q[1] \in EntriesOf(Inode) /\ IsInner(f, lev, Inode) /\ Inode # NoWay
      BY Numbers DEF Nodes, EntriesOf, IsInner, IsSlot
  <1>3. Below(lev, Inode, q[1]) = Rank(q)
    <2>1. Depth(q[1]) \in Int /\ Len(q) = 1
        BY Numbers DEF Depth, IsSlot, Slots
    <2> QED
        BY <2>1 DEF Below, Rank
  <1> QED
      BY <1>1, <1>2, <1>3, StepToIs DEF IsTreeOf, Leads

LEMMA BelowLeads ==
    ASSUME NEW w, NEW f, NEW lev, IsTreeOf(w, f, lev), NEW q, NEW r, IsBelow(q, r), Leads(w, f, lev, r)
    PROVE  /\ Leads(w, f, lev, q)
           /\ Follow(w, q) # NoWay =>
                /\ Follow(w, r) \in Blocks /\ IsInner(f, lev, Follow(w, r)) /\ Follow(w, r) # NoWay
                /\ Follow(w, q) = EntryIn(f, Follow(w, r), q[Len(q)]) /\ Follow(w, q) # None
  <1> DEFINE p == Follow(w, r)
             i == q[Len(q)]
  <1>1. Follow(w, q) = StepTo(f, p, i)
      BY FollowPosition DEF IsTreeOf
  <1>2. CASE p = NoWay
      BY <1>1, <1>2 DEF StepTo, Leads
  <1>3. CASE p # NoWay
    <2>1. p \in f.used /\ lev[p] = Rank(r) /\ Rank(r) \in 1 .. 3 /\ p \in Blocks
        BY <1>3 DEF Leads, IsBelow, IsTreeOf
    <2>2. p \in Nodes /\ i \in EntriesOf(p) /\ IsInner(f, lev, p) /\ p # Inode
        BY <2>1, Numbers DEF Nodes, EntriesOf, IsInner, IsBelow
    <2>3. Rank(q) = Rank(r) - 1
      <3>1. Len(q) = Len(r) + 1 /\ Len(r) \in 1 .. 3 /\ r[1] = q[1] /\ r[1] \in Slots
          BY PositionIs DEF IsBelow
      <3>2. Depth(r[1]) \in Int
          BY <3>1, Numbers DEF Depth, Slots
      <3> QED
          BY <3>1, <3>2 DEF Rank
    <2>4. Below(lev, p, i) = Rank(q)
        BY <2>1, <2>2, <2>3 DEF Below
    <2> HIDE DEF p, i
    <2> QED
        BY <1>1, <1>3, <2>1, <2>2, <2>4, StepToIs DEF IsTreeOf, Leads, p, i
  <1> QED
      BY <1>2, <1>3

LEMMA PositionLeads ==
    ASSUME NEW w, NEW f, NEW lev, IsTreeOf(w, f, lev)
    PROVE  \A q \in Positions : Leads(w, f, lev, q)
  <1> DEFINE T(n) == \A q \in Positions : Len(q) = n => Leads(w, f, lev, q)
  <1>1. T(1)
    <2> SUFFICES ASSUME NEW q \in Positions, Len(q) = 1 PROVE Leads(w, f, lev, q)
        OBVIOUS
    <2>1. IsSlot(q)
        BY PositionIs DEF IsSlot
    <2> QED
        BY <2>1, SlotLeads
  <1>2. ASSUME NEW n \in 1 .. 3, T(n) PROVE T(n + 1)
    <2> SUFFICES ASSUME NEW q \in Positions, Len(q) = n + 1 PROVE Leads(w, f, lev, q)
        OBVIOUS
    <2>1. PICK r : IsBelow(q, r)
        BY PositionIs DEF IsSlot
    <2>2. r \in Positions /\ Len(r) = n
        BY <2>1 DEF IsBelow
    <2>3. Leads(w, f, lev, r)
        BY <1>2, <2>2
    <2> QED
        BY <2>1, <2>3, BelowLeads
  <1> HIDE DEF T
  <1>3. T(1) /\ T(1 + 1) /\ T(1 + 1 + 1) /\ T(1 + 1 + 1 + 1)
      BY <1>1, <1>2
  <1>4. \A n \in 1 .. 4 : T(n)
      BY <1>3
  <1> QED
      BY <1>4, PositionIs DEF T

\* Two positions do not lead to one block.
LEMMA PositionsDiffer ==
    ASSUME NEW w, NEW f, NEW lev, IsTreeOf(w, f, lev)
    PROVE  \A q, r \in Positions : Follow(w, q) # NoWay /\ Follow(w, q) = Follow(w, r) => q = r
  <1> DEFINE Same(q) == \A r \in Positions : Follow(w, q) # NoWay /\ Follow(w, q) = Follow(w, r) => q = r
             T(n) == \A q \in Positions : Len(q) = n => Same(q)
  <1>1. \A q \in Positions : Leads(w, f, lev, q)
      BY PositionLeads
  <1>2. EntriesDiffer(f, lev) /\ Inode \in Nodes /\ IsInner(f, lev, Inode) /\ EntriesOf(Inode) = Slots
        /\ \A b \in Blocks : b \in Nodes /\ b # Inode /\ EntriesOf(b) = Index
      BY Numbers DEF IsTreeOf, IsTree, Nodes, IsInner, EntriesOf
  <1>3. T(1)
    <2> SUFFICES ASSUME NEW q \in Positions, Len(q) = 1, NEW r \in Positions,
                        Follow(w, q) # NoWay, Follow(w, q) = Follow(w, r)
                 PROVE  q = r
        OBVIOUS
    <2>1. IsSlot(q)
        BY PositionIs DEF IsSlot
    <2>2. Follow(w, q) = EntryIn(f, Inode, q[1]) /\ Follow(w, q) # None /\ q[1] \in Slots
        BY <2>1, SlotLeads DEF IsSlot
    <2>3. CASE IsSlot(r)
      <3>1. Follow(w, r) = EntryIn(f, Inode, r[1]) /\ r[1] \in Slots
          BY <2>3, SlotLeads DEF IsSlot
      <3>2. q[1] = r[1]
        <4>1. /\ q[1] \in EntriesOf(Inode) /\ r[1] \in EntriesOf(Inode)
              /\ EntryIn(f, Inode, q[1]) # None /\ EntryIn(f, Inode, q[1]) = EntryIn(f, Inode, r[1])
            BY <1>2, <2>2, <3>1
        <4> QED
            BY <1>2, <4>1, SameEntry, Zenon
      <3> QED
          BY <2>1, <2>3, <3>2, SamePosition DEF IsSlot
    <2>4. CASE \E u : IsBelow(r, u)
      <3>1. PICK u : IsBelow(r, u)
          BY <2>4
      <3>2. u \in Positions /\ r[Len(r)] \in Index
          BY <3>1 DEF IsBelow
      <3>3. Leads(w, f, lev, u)
          BY <1>1, <3>2
      <3>4. /\ Follow(w, u) \in Blocks /\ IsInner(f, lev, Follow(w, u))
            /\ Follow(w, r) = EntryIn(f, Follow(w, u), r[Len(r)])
          BY <3>1, <3>3, BelowLeads
      <3>5. Inode = Follow(w, u)
        <4>1. /\ Follow(w, u) \in Nodes /\ q[1] \in EntriesOf(Inode) /\ r[Len(r)] \in EntriesOf(Follow(w, u))
              /\ EntryIn(f, Inode, q[1]) # None
              /\ EntryIn(f, Inode, q[1]) = EntryIn(f, Follow(w, u), r[Len(r)])
            BY <1>2, <2>2, <3>2, <3>4
        <4> QED
            BY <1>2, <3>4, <4>1, SameEntry, Zenon
      <3> QED
          BY <1>2, <3>4, <3>5
    <2> QED
        BY <2>3, <2>4, PositionIs
  <1>4. ASSUME NEW n \in 1 .. 3, T(n) PROVE T(n + 1)
    <2> SUFFICES ASSUME NEW q \in Positions, Len(q) = n + 1, NEW r \in Positions,
                        Follow(w, q) # NoWay, Follow(w, q) = Follow(w, r)
                 PROVE  q = r
        OBVIOUS
    <2>7. ~ IsSlot(q)
        BY DEF IsSlot
    <2>1. PICK v : IsBelow(q, v)
        BY <2>7, PositionIs
    <2>2. v \in Positions /\ Len(v) = n /\ q[Len(q)] \in Index
        BY <2>1 DEF IsBelow
    <2>3. Leads(w, f, lev, v)
        BY <1>1, <2>2
    <2>4. /\ Follow(w, v) \in Blocks /\ IsInner(f, lev, Follow(w, v)) /\ Follow(w, v) # NoWay
          /\ Follow(w, q) = EntryIn(f, Follow(w, v), q[Len(q)]) /\ Follow(w, q) # None
        BY <2>1, <2>3, BelowLeads
    <2>5. CASE IsSlot(r)
      <3>1. Follow(w, r) = EntryIn(f, Inode, r[1]) /\ r[1] \in Slots
          BY <2>5, SlotLeads DEF IsSlot
      <3>2. Inode = Follow(w, v)
          BY <1>2, <2>2, <2>4, <3>1, SameEntry
      <3> QED
          BY <1>2, <2>4, <3>2
    <2>6. CASE \E u : IsBelow(r, u)
      <3>1. PICK u : IsBelow(r, u)
          BY <2>6
      <3>2. u \in Positions /\ r[Len(r)] \in Index
          BY <3>1 DEF IsBelow
      <3>3. Leads(w, f, lev, u)
          BY <1>1, <3>2
      <3>4. /\ Follow(w, u) \in Blocks /\ IsInner(f, lev, Follow(w, u))
            /\ Follow(w, r) = EntryIn(f, Follow(w, u), r[Len(r)])
          BY <3>1, <3>3, BelowLeads
      <3>5. Follow(w, v) = Follow(w, u) /\ q[Len(q)] = r[Len(r)]
        <4> DEFINE x == Follow(w, v)
                   y == Follow(w, u)
                   i == q[Len(q)]
                   j == r[Len(r)]
        <4>1. /\ x \in Nodes /\ y \in Nodes /\ i \in EntriesOf(x) /\ j \in EntriesOf(y)
              /\ IsInner(f, lev, x) /\ IsInner(f, lev, y)
              /\ EntryIn(f, x, i) # None /\ EntryIn(f, x, i) = EntryIn(f, y, j)
            BY <1>2, <2>2, <2>4, <3>2, <3>4
        <4> HIDE DEF x, y, i, j
        <4>2. x = y /\ i = j
            BY <1>2, <4>1, SameEntry, Zenon
        <4> QED
            BY <4>2 DEF x, y, i, j
      <3>6. v = u
          BY <1>4, <2>2, <2>4, <3>2, <3>5
      <3>7. Len(r) = Len(q) /\ Len(q) = Len(v) + 1 /\ \A k \in 1 .. Len(v) : q[k] = r[k]
          BY <2>1, <3>1, <3>6 DEF IsBelow
      <3>8. \A k \in 1 .. Len(q) : q[k] = r[k]
        <4>1. Len(v) \in Nat
            BY <2>2
        <4>2. \A k \in 1 .. Len(q) : k \in 1 .. Len(v) \/ k = Len(q)
            BY <3>7, <4>1
        <4> QED
            BY <3>5, <3>7, <4>2
      <3> QED
          BY <3>7, <3>8, SamePosition
    <2> QED
        BY <2>5, <2>6, PositionIs
  <1> HIDE DEF T
  <1>5. T(1) /\ T(1 + 1) /\ T(1 + 1 + 1) /\ T(1 + 1 + 1 + 1)
      BY <1>3, <1>4
  <1>6. \A n \in 1 .. 4 : T(n)
      BY <1>5
  <1> QED
      BY <1>6, PositionIs DEF T

\* The block that has the entry of a block in use: the inode, or a block of
\* the level above.
LEMMA HasParent ==
    ASSUME NEW f, f.used \subseteq Blocks, NEW lev, IsTree(f, lev), NEW b \in f.used
    PROVE  \E p \in Nodes : \E i \in EntriesOf(p) :
             /\ EntryIn(f, p, i) = b /\ b # None /\ IsInner(f, lev, p) /\ lev[b] = Below(lev, p, i)
             /\ p # Inode => p \in f.used /\ lev[p] = lev[b] + 1 /\ lev[p] \in 1 .. 3
  <1>1. PICK p \in Nodes : IsInner(f, lev, p) /\ \E i \in EntriesOf(p) : EntryIn(f, p, i) = b
      BY DEF IsTree, EntriesCover
  <1>2. PICK i \in EntriesOf(p) : EntryIn(f, p, i) = b
      BY <1>1
  <1>3. b # None
      BY Numbers
  <1>4. lev[b] = Below(lev, p, i)
      BY <1>1, <1>2, <1>3 DEF IsTree, EntriesLead
  <1>5. ASSUME p # Inode PROVE p \in f.used /\ lev[p] = lev[b] + 1 /\ lev[p] \in 1 .. 3
    <2>1. p \in f.used /\ lev[p] > 0 /\ lev[p] \in 0 .. 3
        BY <1>1, <1>5 DEF IsInner, IsTree
    <2>2. lev[b] = lev[p] - 1
        BY <1>4, <1>5 DEF Below
    <2> QED
        BY <2>1, <2>2
  <1> QED
      BY <1>1, <1>2, <1>3, <1>4, <1>5

\* Every block in use is at a position.
LEMMA PositionsCover ==
    ASSUME NEW w, NEW f, NEW lev, IsTreeOf(w, f, lev)
    PROVE  \A b \in f.used : \E q \in Positions : Follow(w, q) = b
  <1> DEFINE Found(b) == \E q \in Positions : Follow(w, q) = b
             T(n) == \A b \in f.used : lev[b] = n => Found(b)
  <1>1. f.used \subseteq Blocks /\ IsTree(f, lev) /\ lev \in [Blocks -> 0 .. 3]
      BY DEF IsTreeOf, IsTree
  <1>2. NoWay \notin Blocks /\ EntriesOf(Inode) = Slots /\ \A b \in Blocks : EntriesOf(b) = Index
      BY Numbers DEF Nodes, EntriesOf
  <1>3. ASSUME NEW b \in f.used,
               \A p \in f.used : lev[p] = lev[b] + 1 /\ lev[p] \in 1 .. 3 => Found(p)
        PROVE  Found(b)
    <2>1. PICK p \in Nodes : \E i \in EntriesOf(p) :
             /\ EntryIn(f, p, i) = b /\ b # None /\ IsInner(f, lev, p) /\ lev[b] = Below(lev, p, i)
             /\ p # Inode => p \in f.used /\ lev[p] = lev[b] + 1 /\ lev[p] \in 1 .. 3
        BY <1>1, HasParent
    <2>2. PICK i \in EntriesOf(p) :
             /\ EntryIn(f, p, i) = b /\ b # None /\ IsInner(f, lev, p) /\ lev[b] = Below(lev, p, i)
             /\ p # Inode => p \in f.used /\ lev[p] = lev[b] + 1 /\ lev[p] \in 1 .. 3
        BY <2>1
    <2>3. CASE p = Inode
      <3>1. i \in Slots /\ <<i>> \in Positions
          BY <1>2, <2>3 DEF Positions
      <3>2. IsSlot(<<i>>) /\ <<i>>[1] = i
          BY <3>1 DEF IsSlot
      <3>3. Follow(w, <<i>>) = StepTo(f, Inode, i)
          BY <3>2, FollowPosition DEF IsTreeOf
      <3>4. StepTo(f, Inode, i) = b
          BY <2>2, <2>3, Numbers DEF StepTo, Nodes
      <3> QED
          BY <3>1, <3>3, <3>4
    <2>4. CASE p # Inode
      <3>1. PICK r \in Positions : Follow(w, r) = p
          BY <1>3, <2>2, <2>4
      <3>2. p \in Blocks /\ i \in Index
          BY <1>1, <1>2, <2>2, <2>4
      <3>3. Rank(r) \in 1 .. 3
        <4>1. Leads(w, f, lev, r) /\ Follow(w, r) # NoWay
            BY <1>2, <3>1, <3>2, PositionLeads
        <4> QED
            BY <2>2, <2>4, <3>1, <4>1 DEF Leads
      <3>4. PICK q \in Positions : IsBelow(q, r) /\ q[Len(q)] = i
          BY <3>2, <3>3, PositionBelow
      <3>5. Follow(w, q) = StepTo(f, p, i)
          BY <3>1, <3>4, FollowPosition DEF IsTreeOf
      <3>6. StepTo(f, p, i) = b
          BY <1>2, <2>2, <3>2 DEF StepTo
      <3> QED
          BY <3>5, <3>6
    <2> QED
        BY <2>3, <2>4
  <1> HIDE DEF Found
  <1>4. T(3)
      BY <1>3
  <1>5. ASSUME NEW n \in 0 .. 2, T(n + 1) PROVE T(n)
      BY <1>3, <1>5
  <1>6. T(3) /\ T(2) /\ T(1) /\ T(0)
    <2>1. T(2 + 1) BY <1>4
    <2> HIDE DEF T
    <2>2. T(2) BY <1>5, <2>1
    <2>3. T(1 + 1) BY <2>2
    <2>4. T(1) BY <1>5, <2>3
    <2>5. T(0 + 1) BY <2>4
    <2>6. T(0) BY <1>5, <2>5
    <2> QED
        BY <2>1, <2>2, <2>4, <2>6
  <1>7. \A b \in f.used : lev[b] \in 0 .. 3
      BY <1>1
  <1>8. \A b \in f.used : Found(b)
      BY <1>6, <1>7
  <1> QED
      BY <1>8 DEF Found

\* In a tree no block is in the map twice, and the map reaches what is in use.
LEMMA TreeNoSharing ==
    ASSUME NEW f, HasEntries(f), f.used \subseteq Blocks, NEW lev, IsTree(f, lev)
    PROVE  NoSharing(f.addrs, f.ind)
  <1> DEFINE w == [fs |-> [addrs |-> f.addrs, ind |-> f.ind]]
             F == [q \in Mapped(w) |-> Follow(w, q)]
  <1>1. w.fs.addrs = f.addrs /\ w.fs.ind = f.ind
      OBVIOUS
  <1>2. NoSharing(f.addrs, f.ind) <=> IsInjective(F)
      BY DEF NoSharing
  <1> HIDE DEF w
  <1>3. IsTreeOf(w, f, lev)
      BY <1>1 DEF IsTreeOf
  <1>4. ASSUME NEW q \in Mapped(w), NEW r \in Mapped(w), F[q] = F[r]
        PROVE  q = r
    <2>1. q \in Positions /\ r \in Positions /\ Follow(w, q) # NoWay /\ Follow(w, q) = Follow(w, r)
        BY <1>4 DEF Mapped
    <2> QED
        BY <1>3, <2>1, PositionsDiffer
  <1> QED
      BY <1>2, <1>4 DEF IsInjective

LEMMA TreeReached ==
    ASSUME NEW w, NEW f, NEW lev, IsTreeOf(w, f, lev)
    PROVE  {Follow(w, q) : q \in Mapped(w)} = f.used
  <1>1. ASSUME NEW q \in Mapped(w) PROVE Follow(w, q) \in f.used
    <2>1. q \in Positions /\ Follow(w, q) # NoWay
        BY DEF Mapped
    <2> QED
        BY <2>1, PositionLeads DEF Leads
  <1>2. ASSUME NEW b \in f.used PROVE \E q \in Mapped(w) : Follow(w, q) = b
    <2>1. PICK q \in Positions : Follow(w, q) = b
        BY PositionsCover
    <2>2. b # NoWay
        BY Numbers DEF IsTreeOf, Nodes
    <2> QED
        BY <2>1, <2>2 DEF Mapped
  <1> QED
      BY <1>1, <1>2

-----------------------------------------------------------------------------
(* The diagnostic tool, in a tree.                                         *)

OnLevel(d, lev, A, k) == \A a \in A : a = None \/ (a \in d.used /\ lev[a] = k)

\* The blocks R that a function of the tool reports for the addresses A: all
\* in use, the addresses among them, and what the indirect blocks lead to.
Reports(d, lev, R, A) ==
    /\ A \ {None} \subseteq R /\ R \subseteq d.used
    /\ \A p \in R : lev[p] > 0 => \A i \in Index : d.ind[p][i] = None \/ d.ind[p][i] \in R

LEMMA DirectReports ==
    ASSUME NEW d, NEW lev, NEW A, OnLevel(d, lev, A, 0)
    PROVE  Reports(d, lev, print_direct_map(A), A)
  BY DEF OnLevel, Reports, print_direct_map

LEMMA EntriesOnLevel ==
    ASSUME NEW d, d.used \subseteq Blocks, NEW lev, IsTree(d, lev), NEW k \in 1 .. 3,
           NEW A, OnLevel(d, lev, A, k)
    PROVE  OnLevel(d, lev, AddressesIn(d, A \ {None}), k - 1)
  <1> SUFFICES ASSUME NEW p \in A \ {None}, NEW i \in 0 .. (NINDIRECT1 - 1), d.ind[p][i] # None
               PROVE  d.ind[p][i] \in d.used /\ lev[d.ind[p][i]] = k - 1
      BY DEF OnLevel, AddressesIn
  <1>1. p \in d.used /\ lev[p] = k
      BY DEF OnLevel
  <1>2. p \in Nodes /\ p # Inode /\ i \in EntriesOf(p) /\ IsInner(d, lev, p)
      BY <1>1, Numbers DEF Nodes, EntriesOf, Index, IsInner
  <1>3. EntryIn(d, p, i) = d.ind[p][i] /\ Below(lev, p, i) = k - 1
      BY <1>1, <1>2 DEF EntryIn, Entry, Below
  <1> QED
      BY <1>2, <1>3 DEF IsTree, EntriesLead

LEMMA IndirectReports ==
    ASSUME NEW d, d.used \subseteq Blocks, NEW lev, IsTree(d, lev), NEW k \in 1 .. 3,
           NEW A, OnLevel(d, lev, A, k), NEW R, Reports(d, lev, R, AddressesIn(d, A \ {None}))
    PROVE  Reports(d, lev, (A \ {None}) \cup R, A)
  <1>1. A \ {None} \subseteq d.used /\ R \subseteq d.used
      BY DEF OnLevel, Reports
  <1>2. ASSUME NEW p \in (A \ {None}) \cup R, lev[p] > 0, NEW i \in Index, d.ind[p][i] # None
        PROVE  d.ind[p][i] \in R
    <2>1. CASE p \in A \ {None}
      <3>1. d.ind[p][i] \in AddressesIn(d, A \ {None})
          BY <2>1 DEF AddressesIn, Index
      <3> QED
          BY <1>2, <3>1 DEF Reports
    <2>2. CASE p \in R
        BY <1>2, <2>2 DEF Reports
    <2> QED
        BY <2>1, <2>2
  <1> QED
      BY <1>1, <1>2 DEF Reports

\* Together: the tool reports the blocks in use.
LEMMA TreeReported ==
    ASSUME NEW d, d.used \subseteq Blocks, NEW lev, IsTree(d, lev)
    PROVE  output_dinode(d) = d.used
  <1> DEFINE Direct == {d.addrs[i] : i \in 0 .. (NDIRECT - 1)}
             O0 == print_direct_map(Direct)
             O1 == print_indirect1_map(d, {d.addrs[NDIRECT]})
             O2 == print_indirect2_map(d, {d.addrs[NDIRECT + 1]})
             O3 == print_indirect3_map(d, {d.addrs[NDIRECT + 2]})
             O == output_dinode(d)
  <1>1. ASSUME NEW A, OnLevel(d, lev, A, 1)
        PROVE  Reports(d, lev, print_indirect1_map(d, A), A)
    <2>1. OnLevel(d, lev, AddressesIn(d, A \ {None}), 0)
        BY <1>1, EntriesOnLevel
    <2>2. Reports(d, lev, print_direct_map(AddressesIn(d, A \ {None})), AddressesIn(d, A \ {None}))
        BY <2>1, DirectReports
    <2> QED
        BY <1>1, <2>2, IndirectReports DEF print_indirect1_map
  <1>2. ASSUME NEW A, OnLevel(d, lev, A, 2)
        PROVE  Reports(d, lev, print_indirect2_map(d, A), A)
    <2>1. OnLevel(d, lev, AddressesIn(d, A \ {None}), 1)
        BY <1>2, EntriesOnLevel
    <2>2. Reports(d, lev, print_indirect1_map(d, AddressesIn(d, A \ {None})), AddressesIn(d, A \ {None}))
        BY <1>1, <2>1
    <2> QED
        BY <1>2, <2>2, IndirectReports DEF print_indirect2_map
  <1>3. ASSUME NEW A, OnLevel(d, lev, A, 3)
        PROVE  Reports(d, lev, print_indirect3_map(d, A), A)
    <2>1. OnLevel(d, lev, AddressesIn(d, A \ {None}), 2)
        BY <1>3, EntriesOnLevel
    <2>2. Reports(d, lev, print_indirect2_map(d, AddressesIn(d, A \ {None})), AddressesIn(d, A \ {None}))
        BY <1>2, <2>1
    <2> DEFINE R == print_indirect2_map(d, AddressesIn(d, A \ {None}))
    <2>3. print_indirect3_map(d, A) = (A \ {None}) \cup R
        BY DEF print_indirect3_map
    <2> HIDE DEF R
    <2>4. Reports(d, lev, R, AddressesIn(d, A \ {None}))
        BY <2>2 DEF R
    <2>5. Reports(d, lev, (A \ {None}) \cup R, A)
        BY <1>3, <2>4, IndirectReports
    <2> QED
        BY <2>3, <2>5
  <1>4. ASSUME NEW s \in Slots, d.addrs[s] # None
        PROVE  d.addrs[s] \in d.used /\ lev[d.addrs[s]] = Depth(s)
    <2>1. Inode \in Nodes /\ s \in EntriesOf(Inode) /\ IsInner(d, lev, Inode)
          /\ EntryIn(d, Inode, s) = d.addrs[s] /\ Below(lev, Inode, s) = Depth(s)
        BY DEF Nodes, EntriesOf, IsInner, EntryIn, Entry, Below
    <2> QED
        BY <1>4, <2>1 DEF IsTree, EntriesLead
  <1>5. /\ NDIRECT \in Slots /\ NDIRECT + 1 \in Slots /\ NDIRECT + 2 \in Slots
        /\ Depth(NDIRECT) = 1 /\ Depth(NDIRECT + 1) = 2 /\ Depth(NDIRECT + 2) = 3
        /\ \A i \in 0 .. (NDIRECT - 1) : i \in Slots /\ Depth(i) = 0
        /\ \A s \in Slots : s \in 0 .. (NDIRECT - 1) \/ s \in {NDIRECT, NDIRECT + 1, NDIRECT + 2}
      BY Numbers DEF Slots, Depth
  <1>6. /\ OnLevel(d, lev, Direct, 0) /\ OnLevel(d, lev, {d.addrs[NDIRECT]}, 1)
        /\ OnLevel(d, lev, {d.addrs[NDIRECT + 1]}, 2) /\ OnLevel(d, lev, {d.addrs[NDIRECT + 2]}, 3)
      BY <1>4, <1>5 DEF OnLevel
  <1>7. /\ Reports(d, lev, O0, Direct) /\ Reports(d, lev, O1, {d.addrs[NDIRECT]})
        /\ Reports(d, lev, O2, {d.addrs[NDIRECT + 1]}) /\ Reports(d, lev, O3, {d.addrs[NDIRECT + 2]})
      BY <1>1, <1>2, <1>3, <1>6, DirectReports
  <1>8. O = O0 \cup O1 \cup O2 \cup O3
      BY DEF output_dinode
  <1>9. \A s \in Slots : d.addrs[s] = None \/ d.addrs[s] \in Direct \cup {d.addrs[NDIRECT], d.addrs[NDIRECT + 1], d.addrs[NDIRECT + 2]}
      BY <1>5
  <1> HIDE DEF O0, O1, O2, O3, O, Direct
  <1>10. O \subseteq d.used /\ (\A s \in Slots : d.addrs[s] = None \/ d.addrs[s] \in O)
      BY <1>7, <1>8, <1>9 DEF Reports
  <1>11. \A p \in O : lev[p] > 0 => \A i \in Index : d.ind[p][i] = None \/ d.ind[p][i] \in O
      BY <1>7, <1>8 DEF Reports
  <1> DEFINE T(n) == \A b \in d.used : lev[b] = n => b \in O
  <1>12. ASSUME NEW b \in d.used,
                \A p \in d.used : lev[p] = lev[b] + 1 /\ lev[p] \in 1 .. 3 => p \in O
         PROVE  b \in O
    <2>1. PICK p \in Nodes : \E i \in EntriesOf(p) :
             /\ EntryIn(d, p, i) = b /\ b # None /\ IsInner(d, lev, p) /\ lev[b] = Below(lev, p, i)
             /\ p # Inode => p \in d.used /\ lev[p] = lev[b] + 1 /\ lev[p] \in 1 .. 3
        BY HasParent
    <2>2. PICK i \in EntriesOf(p) :
             /\ EntryIn(d, p, i) = b /\ b # None /\ IsInner(d, lev, p) /\ lev[b] = Below(lev, p, i)
             /\ p # Inode => p \in d.used /\ lev[p] = lev[b] + 1 /\ lev[p] \in 1 .. 3
        BY <2>1
    <2>3. CASE p = Inode
        BY <1>10, <2>2, <2>3 DEF EntriesOf, EntryIn, Entry
    <2>4. CASE p # Inode
      <3>1. p \in O /\ lev[p] > 0 /\ i \in Index /\ d.ind[p][i] = b
          BY <1>12, <2>2, <2>4 DEF EntriesOf, EntryIn, Entry
      <3> QED
          BY <1>11, <2>2, <3>1
    <2> QED
        BY <2>3, <2>4
  <1>13. T(3)
      BY <1>12
  <1>14. ASSUME NEW n \in 0 .. 2, T(n + 1) PROVE T(n)
      BY <1>12, <1>14
  <1>15. T(3) /\ T(2) /\ T(1) /\ T(0)
    <2>1. T(2 + 1) BY <1>13
    <2> HIDE DEF T
    <2>2. T(2) BY <1>14, <2>1
    <2>3. T(1 + 1) BY <2>2
    <2>4. T(1) BY <1>14, <2>3
    <2>5. T(0 + 1) BY <2>4
    <2>6. T(0) BY <1>14, <2>5
    <2> QED
        BY <2>1, <2>2, <2>4, <2>6
  <1>16. \A b \in d.used : lev[b] \in 0 .. 3
      BY DEF IsTree
  <1>17. \A b \in d.used : b \in O
      BY <1>15, <1>16
  <1> QED
      BY <1>10, <1>17 DEF O

-----------------------------------------------------------------------------
(* itrunc().                                                               *)

LEMMA ImageFinite ==
    ASSUME NEW D, IsFiniteSet(D), NEW F, NEW T, \A y \in T : \E x \in D : F[x] = y
    PROVE  IsFiniteSet(T)
  <1> DEFINE E == {x \in D : F[x] \in T}
             G == [x \in E |-> F[x]]
  <1>1. IsFiniteSet(E)
      BY FS_Subset
  <1>2. G \in [E -> T] /\ \A y \in T : \E x \in E : G[x] = y
      OBVIOUS
  <1>3. G \in Surjection(E, T)
      BY <1>2 DEF Surjection
  <1> HIDE DEF G, E
  <1> QED
      BY <1>1, <1>3, FS_Surjection

LEMMA FinitePositions == IsFiniteSet(Positions) /\ IsFiniteSet(Bitmaps)
  <1> DEFINE D2 == Slots \X Index
             D3 == D2 \X Index
             D4 == D3 \X Index
  <1>1. IsFiniteSet(Slots) /\ IsFiniteSet(Index) /\ IsFiniteSet(Blocks)
      BY Numbers, FS_Interval DEF Slots, Index, Blocks
  <1>2. IsFiniteSet(D2)
      BY <1>1, FS_Product
  <1> HIDE DEF D2
  <1>3. IsFiniteSet(D3)
      BY <1>1, <1>2, FS_Product
  <1> HIDE DEF D3
  <1>4. IsFiniteSet(D4)
      BY <1>1, <1>3, FS_Product
  <1> HIDE DEF D4
  <1> DEFINE P1 == {<<s>> : s \in Slots}
             P2 == {<<s, i>> : s \in {NDIRECT, NDIRECT + 1, NDIRECT + 2}, i \in Index}
             P3 == {<<s, i, j>> : s \in {NDIRECT + 1, NDIRECT + 2}, i \in Index, j \in Index}
             P4 == {<<NDIRECT + 2, i, j, k>> : i \in Index, j \in Index, k \in Index}
  <1>5. NDIRECT \in Slots /\ NDIRECT + 1 \in Slots /\ NDIRECT + 2 \in Slots
      BY Numbers DEF Slots
  <1>6. IsFiniteSet(P1)
    <2> DEFINE F == [s \in Slots |-> <<s>>]
    <2>1. \A y \in P1 : \E x \in Slots : F[x] = y
        OBVIOUS
    <2> HIDE DEF F, P1
    <2> QED
        BY <1>1, <2>1, ImageFinite
  <1>7. IsFiniteSet(P2)
    <2>1. P2 \subseteq D2
        BY <1>5 DEF D2
    <2> QED
        BY <1>2, <2>1, FS_Subset
  <1>8. IsFiniteSet(P3)
    <2> DEFINE F == [x \in D3 |-> <<x[1][1], x[1][2], x[2]>>]
    <2>1. ASSUME NEW y \in P3 PROVE \E x \in D3 : F[x] = y
      <3>1. PICK s \in {NDIRECT + 1, NDIRECT + 2}, i \in Index, j \in Index : y = <<s, i, j>>
          OBVIOUS
      <3>2. <<s, i>> \in D2
          BY <1>5, <3>1 DEF D2
      <3>3. <<<<s, i>>, j>> \in D3
          BY <3>2 DEF D3
      <3> QED
          BY <3>1, <3>3
    <2> HIDE DEF F, P3
    <2> QED
        BY <1>3, <2>1, ImageFinite
  <1>9. IsFiniteSet(P4)
    <2> DEFINE F == [x \in D4 |-> <<x[1][1][1], x[1][1][2], x[1][2], x[2]>>]
    <2>1. ASSUME NEW y \in P4 PROVE \E x \in D4 : F[x] = y
      <3>1. PICK i \in Index, j \in Index, k \in Index : y = <<NDIRECT + 2, i, j, k>>
          OBVIOUS
      <3>2. <<NDIRECT + 2, i>> \in D2
          BY <1>5, <3>1 DEF D2
      <3>3. <<<<NDIRECT + 2, i>>, j>> \in D3
          BY <3>2 DEF D3
      <3>4. <<<<<<NDIRECT + 2, i>>, j>>, k>> \in D4
          BY <3>3 DEF D4
      <3> QED
          BY <3>1, <3>4
    <2> HIDE DEF F, P4
    <2> QED
        BY <1>4, <2>1, ImageFinite
  <1>10. IsFiniteSet(Bitmaps)
    <2> DEFINE F == [b \in Blocks |-> BBLOCK(b)]
    <2>1. \A y \in Bitmaps : \E x \in Blocks : F[x] = y
        BY DEF Bitmaps
    <2> HIDE DEF F
    <2> QED
        BY <1>1, <2>1, ImageFinite
  <1>11. Positions = P1 \cup P2 \cup P3 \cup P4
      BY DEF Positions
  <1> HIDE DEF P1, P2, P3, P4
  <1>12. IsFiniteSet(P1 \cup P2)
      BY <1>6, <1>7, FS_Union
  <1>13. IsFiniteSet((P1 \cup P2) \cup P3)
      BY <1>8, <1>12, FS_Union
  <1>14. IsFiniteSet(((P1 \cup P2) \cup P3) \cup P4)
      BY <1>9, <1>13, FS_Union
  <1> QED
      BY <1>10, <1>11, <1>14

\* Where positions lead to in any file.
LEMMA FollowInBlocks ==
    ASSUME NEW w, HasEntries(w.fs), NEW q \in Positions
    PROVE  Follow(w, q) \in Blocks \cup {NoWay}
  <1> DEFINE T(n) == \A r \in Positions : Len(r) = n => Follow(w, r) \in Blocks \cup {NoWay}
  <1>1. Inode \in Nodes /\ EntriesOf(Inode) = Slots /\ \A b \in Blocks : b \in Nodes /\ EntriesOf(b) = Index
      BY Numbers DEF Nodes, EntriesOf
  <1>6. \A r, v : IsBelow(r, v) => Follow(w, r) = StepTo(w.fs, Follow(w, v), r[Len(r)])
    <2> DEFINE f == w.fs
    <2>1. w.fs.addrs = f.addrs /\ w.fs.ind = f.ind
        OBVIOUS
    <2>2. \A r, v : IsBelow(r, v) => Follow(w, r) = StepTo(f, Follow(w, v), r[Len(r)])
        BY <2>1, FollowPosition, Zenon
    <2> QED
        BY <2>2
  <1>2. T(1)
    <2> SUFFICES ASSUME NEW r \in Positions, Len(r) = 1 PROVE Follow(w, r) \in Blocks \cup {NoWay}
        OBVIOUS
    <2>1. IsSlot(r)
        BY PositionIs DEF IsSlot
    <2>2. Follow(w, r) = StepTo(w.fs, Inode, r[1]) /\ r[1] \in EntriesOf(Inode)
        BY <1>1, <2>1, FollowPosition DEF IsSlot
    <2> QED
        BY <1>1, <2>2, StepToIs
  <1>3. ASSUME NEW n \in 1 .. 3, T(n) PROVE T(n + 1)
    <2> SUFFICES ASSUME NEW r \in Positions, Len(r) = n + 1 PROVE Follow(w, r) \in Blocks \cup {NoWay}
        OBVIOUS
    <2>1. ~ IsSlot(r)
        BY DEF IsSlot
    <2>2. PICK v : IsBelow(r, v)
        BY <2>1, PositionIs
    <2>3. v \in Positions /\ Len(v) = n /\ r[Len(r)] \in Index
        BY <2>2 DEF IsBelow
    <2>4. Follow(w, v) \in Blocks \cup {NoWay}
        BY <1>3, <2>3
    <2>5. Follow(w, r) = StepTo(w.fs, Follow(w, v), r[Len(r)])
        BY <1>6, <2>2
    <2>6. Follow(w, v) \in Nodes \cup {NoWay} /\ (Follow(w, v) # NoWay => r[Len(r)] \in EntriesOf(Follow(w, v)))
        BY <1>1, <2>3, <2>4
    <2> QED
        BY <2>5, <2>6, StepToIs
  <1> HIDE DEF T
  <1>4. T(1) /\ T(1 + 1) /\ T(1 + 1 + 1) /\ T(1 + 1 + 1 + 1)
      BY <1>2, <1>3
  <1>5. \A n \in 1 .. 4 : T(n)
      BY <1>4
  <1> QED
      BY <1>5, PositionIs DEF T

\* A file that calls work on, and a disk that was committed.
FileOK(f) == f \in Files /\ f.used # Blocks /\ (f.whole => \E lev : IsTree(f, lev))
DiskOK(d) == d \in Disks /\ d.used # Blocks /\ (d.whole => \E lev : IsTree(d, lev))
Saved(f) == f.daddrs = f.addrs /\ f.dsize = f.size

LEMMA FileEntries ==
    ASSUME NEW f \in Files
    PROVE  HasEntries(f) /\ f.used \subseteq Blocks
  BY EntryInIs DEF HasEntries, Files

\* itrunc() leaves an empty file that is saved, and logs the bitmap and the
\* inode.
LEMMA ItruncIs ==
    ASSUME NEW w, IsWork(w), FileOK(w.fs)
    PROVE  LET r == itrunc(w) IN
           /\ IsWork(r) /\ FileOK(r.fs) /\ Saved(r.fs)
           /\ r.op.logged \subseteq w.op.logged \cup Bitmaps \cup {IBLOCK}
  <1> DEFINE blocks == {Follow(w, q) : q \in Mapped(w)}
             f == [w.fs EXCEPT !.used = @ \ blocks, !.addrs = EmptyFile.addrs, !.size = 0]
             n == w.op.n + Cardinality(Mapped(w))
             L == w.op.logged \cup {BBLOCK(b) : b \in blocks}
             v == [fs |-> f, op |-> [n |-> n, logged |-> L]]
             r == iupdate(v)
  <1>1. w.fs \in Files /\ w.op.n \in Nat /\ IsFiniteSet(w.op.logged)
      BY WorkParts
  <1>2. HasEntries(w.fs) /\ w.fs.used \subseteq Blocks
      BY <1>1, FileEntries
  <1>3. itrunc(w) = r
      BY DEF itrunc
  <1>4. blocks \subseteq Blocks
    <2>1. \A q \in Mapped(w) : q \in Positions /\ Follow(w, q) # NoWay
        BY DEF Mapped
    <2> QED
        BY <1>2, <2>1, FollowInBlocks
  <1>5. IsFiniteSet(Mapped(w)) /\ Cardinality(Mapped(w)) \in Nat
    <2>1. Mapped(w) \subseteq Positions
        BY DEF Mapped
    <2>2. IsFiniteSet(Mapped(w))
        BY <2>1, FinitePositions, FS_Subset
    <2> QED
        BY <2>2, FS_CardinalityType
  <1>6. {BBLOCK(b) : b \in blocks} \subseteq Bitmaps
      BY <1>4 DEF Bitmaps
  <1>7. w.fs.whole => blocks = w.fs.used
    <2> SUFFICES ASSUME w.fs.whole PROVE blocks = w.fs.used
        OBVIOUS
    <2>1. PICK lev : IsTree(w.fs, lev)
        BY DEF FileOK
    <2> DEFINE g == w.fs
    <2>2. IsTreeOf(w, g, lev)
        BY <1>2, <2>1 DEF IsTreeOf
    <2>3. blocks = g.used
        BY <2>2, TreeReached
    <2> QED
        BY <2>3
  <1> HIDE DEF blocks
  <1>8. IsFiniteSet(L) /\ L \subseteq w.op.logged \cup Bitmaps
    <2>1. IsFiniteSet({BBLOCK(b) : b \in blocks})
        BY <1>6, FinitePositions, FS_Subset
    <2> QED
        BY <1>1, <1>6, <2>1, FS_Union
  <1>9. EmptyFile.addrs = [i \in Slots |-> None] /\ EmptyFile.addrs \in [Slots -> Addresses]
      BY Numbers DEF EmptyFile
  <1>10. 0 \in 0 .. MAXFILE_BLOCKS
    <2>1. w.fs.size \in 0 .. MAXFILE_BLOCKS
        BY <1>1 DEF Files
    <2>2. MAXFILE_BLOCKS \in Int
        BY Numbers DEF MAXFILE_BLOCKS, NINDIRECT2, NINDIRECT3
    <2> QED
        BY <2>1, <2>2
  <1>11. f \in Files
      BY <1>1, <1>9, <1>10 DEF Files
  <1>12. /\ f.used = w.fs.used \ blocks /\ f.addrs = [i \in Slots |-> None] /\ f.whole = w.fs.whole
         /\ f.size = 0
      BY <1>1, <1>9 DEF Files
  <1>13. n \in Nat
      BY <1>1, <1>5
  <1> HIDE DEF f, n, L
  <1>14. IsWork(v) /\ v.fs = f /\ v.op.logged = L
      BY <1>8, <1>11, <1>13, WorkFromParts
  <1> HIDE DEF v
  <1>15. /\ IsWork(r) /\ r.fs = [v.fs EXCEPT !.daddrs = v.fs.addrs, !.dsize = v.fs.size]
         /\ r.op.logged = v.op.logged \cup {IBLOCK}
      BY <1>14, IupdateIs
  <1> HIDE DEF r
  <1>16. /\ r.fs.used = f.used /\ r.fs.addrs = f.addrs /\ r.fs.whole = f.whole
         /\ Saved(r.fs)
      BY <1>11, <1>14, <1>15 DEF Files, Saved
  <1>17. r.fs.used # Blocks
      BY <1>2, <1>12, <1>16 DEF FileOK
  <1>18. ASSUME r.fs.whole PROVE \E lev : IsTree(r.fs, lev)
    <2>1. r.fs.used = {}
        BY <1>7, <1>12, <1>16, <1>18
    <2>2. \A i \in Slots : r.fs.addrs[i] = None
        BY <1>12, <1>16
    <2> QED
        BY <2>1, <2>2, TreeEmpty
  <1>19. r.fs \in Files
      BY <1>15, WorkParts
  <1>20. r.op.logged \subseteq w.op.logged \cup Bitmaps \cup {IBLOCK}
      BY <1>8, <1>14, <1>15
  <1> QED
      BY <1>3, <1>15, <1>16, <1>17, <1>18, <1>19, <1>20 DEF FileOK

-----------------------------------------------------------------------------
(* The inductive invariant.                                                *)

Calls == [kind : Kinds, first : FileBlocks, next : FileBlocks, last : FileBlocks]

\* The parts of CallsInRange, for a thread at l with call c and operation o.
InRange(l, c, o) ==
    /\ l = "idle" <=> c = NoCall
    /\ l \in {"idle", "start"} => o = NewOp
    /\ l = "start" /\ c.kind \in {"read", "write"} =>
        c.next = c.first /\ c.first <= c.last /\ c.last < MAXFILE_BLOCKS
    /\ l = "block" => c.first <= c.next /\ c.next <= c.last /\ c.last < MAXFILE_BLOCKS
    /\ l = "block" /\ c.kind = "read" /\ c.next = c.first => o = NewOp

\* What is logged fits if the bitmap is one block, is counted while there are
\* tests to come, and has a part of the bitmap in it when a truncation is at
\* work.
LogFits(l, c, o) ==
    /\ Cardinality(Merged(o)) <= MAXOPBLOCKS
    /\ l = "block" => Counted(o)
    /\ l = "block" /\ c.kind \in {"grow", "shrink"} => o.logged = {} \/ o.logged \cap Bitmaps # {}

\* MapInv, the trees in memory and on the disk, and the room in the log.
MapIndInv ==
    /\ MapInv
    /\ FileOK(fs) /\ DiskOK(durable)
    /\ \A t \in Threads : LogFits(pc[t], call[t], op[t])

LEMMA CallsInRangeIs == CallsInRange <=> \A t \in Threads : InRange(pc[t], call[t], op[t])
  BY DEF CallsInRange, InRange

\* What the invariant says of one thread.
LEMMA ThreadParts ==
    ASSUME MapIndInv, NEW t \in Threads
    PROVE  /\ pc[t] \in Labels /\ call[t] \in Calls /\ IsOp(op[t]) /\ InRange(pc[t], call[t], op[t])
           /\ IsWork(Work(t)) /\ Work(t).fs = fs /\ Work(t).op = op[t]
           /\ LogFits(pc[t], call[t], op[t])
  <1>1. TypeOK /\ CallsInRange /\ FileOK(fs)
      BY DEF MapIndInv, MapInv
  <1>2. pc[t] \in Labels /\ call[t] \in Calls /\ IsOp(op[t]) /\ InRange(pc[t], call[t], op[t])
      BY <1>1, CallsInRangeIs DEF TypeOK, Calls
  <1>3. Work(t) = [fs |-> fs, op |-> op[t]]
      BY DEF Work
  <1>4. IsWork(Work(t)) /\ Work(t).fs = fs /\ Work(t).op = op[t]
      BY <1>1, <1>2, <1>3 DEF IsWork, FileOK
  <1> QED
      BY <1>2, <1>4 DEF MapIndInv

\* A step of thread t, to label l with call c and work record w, keeps the
\* invariant if these are in order.
LEMMA StepKeeps ==
    ASSUME MapIndInv, NEW t \in Threads, NEW w, NEW l \in Labels, NEW c \in Calls,
           IsWork(w), FileOK(w.fs), InRange(l, c, w.op), LogFits(l, c, w.op),
           (\A s \in Threads \ {t} : pc[s] # "block") /\ l # "block" => Saved(w.fs),
           fs' = w.fs, op' = [op EXCEPT ![t] = w.op],
           pc' = [pc EXCEPT ![t] = l], call' = [call EXCEPT ![t] = c],
           lock' \in Threads \cup {Nobody}, DiskOK(durable'), ncalls' \in 0 .. MaxCalls, err' = err
    PROVE  MapIndInv'
  <1>1. TypeOK /\ NoErrExit /\ CallsInRange
      BY DEF MapIndInv, MapInv
  <1>2. /\ pc \in [Threads -> Labels] /\ call \in [Threads -> Calls]
        /\ op = [s \in Threads |-> op[s]] /\ \A s \in Threads : IsOp(op[s])
      BY <1>1 DEF TypeOK, Calls
  <1>3. /\ pc' \in [Threads -> Labels] /\ pc'[t] = l /\ \A s \in Threads \ {t} : pc'[s] = pc[s]
        /\ call' \in [Threads -> Calls] /\ call'[t] = c /\ \A s \in Threads \ {t} : call'[s] = call[s]
      BY <1>2
  <1>4. /\ op' = [s \in Threads |-> op'[s]]
        /\ op'[t] = w.op /\ \A s \in Threads \ {t} : op'[s] = op[s]
      BY <1>2
  <1>5. \A s \in Threads : IsOp(op'[s])
      BY <1>2, <1>4 DEF IsWork
  <1>6. \A s \in Threads : InRange(pc'[s], call'[s], op'[s])
      BY <1>1, <1>3, <1>4, CallsInRangeIs
  <1>7. \A s \in Threads : LogFits(pc'[s], call'[s], op'[s])
      BY <1>3, <1>4 DEF MapIndInv
  <1>8. TypeOK'
      BY <1>1, <1>3, <1>4, <1>5 DEF TypeOK, Calls, FileOK, DiskOK
  <1>9. NoErrExit'
      BY <1>1 DEF NoErrExit
  <1>10. CallsInRange'
      BY <1>6 DEF CallsInRange, InRange
  <1>11. InodeSaved'
    <2> SUFFICES ASSUME \A s \in Threads : pc'[s] # "block" PROVE Saved(fs')
        BY DEF InodeSaved, Saved
    <2>1. (\A s \in Threads \ {t} : pc[s] # "block") /\ l # "block"
        BY <1>3
    <2> QED
        BY <2>1
  <1>12. SpaceLeft'
      BY DEF SpaceLeft, FileOK, DiskOK
  <1>13. FileOK(fs') /\ DiskOK(durable')
      OBVIOUS
  <1> QED
      BY <1>7, <1>8, <1>9, <1>10, <1>11, <1>12, <1>13 DEF MapIndInv, MapInv, FileOK, DiskOK, LogFits, Counted

-----------------------------------------------------------------------------
(* Commits, and the end of the process.                                    *)

LEMMA TreeSame ==
    ASSUME NEW f, NEW g, NEW lev, IsTree(f, lev),
           g.addrs = f.addrs, g.ind = f.ind, g.used = f.used
    PROVE  IsTree(g, lev)
  <1>1. \A p, i : EntryIn(g, p, i) = EntryIn(f, p, i)
      BY DEF EntryIn
  <1>2. \A p : IsInner(g, lev, p) <=> IsInner(f, lev, p)
      BY DEF IsInner
  <1>3. EntriesLead(g, lev)
      BY <1>1, <1>2 DEF IsTree, EntriesLead
  <1>4. EntriesDiffer(g, lev)
      BY <1>1, <1>2 DEF IsTree, EntriesDiffer
  <1>5. EntriesCover(g, lev)
      BY <1>1, <1>2 DEF IsTree, EntriesCover
  <1> QED
      BY <1>3, <1>4, <1>5 DEF IsTree

\* Only the inode as it is in memory makes a whole disk.
LEMMA CommitOK ==
    ASSUME NEW f \in Files, FileOK(f), f.whole => Saved(f)
    PROVE  DiskOK(OnDisk(f))
  <1> DEFINE d == OnDisk(f)
  <1>1. /\ d = [addrs |-> f.daddrs, size |-> f.dsize, ind |-> f.ind, used |-> f.used, whole |-> f.whole]
        /\ d.addrs = f.daddrs /\ d.ind = f.ind /\ d.used = f.used /\ d.whole = f.whole
      BY DEF OnDisk
  <1>2. d \in Disks
      BY <1>1 DEF Files, Disks
  <1> HIDE DEF d
  <1>3. ASSUME d.whole PROVE \E lev : IsTree(d, lev)
    <2>1. PICK lev : IsTree(f, lev)
        BY <1>1, <1>3 DEF FileOK
    <2> QED
        BY <1>1, <1>3, <2>1, TreeSame DEF Saved
  <1> QED
      BY <1>1, <1>2, <1>3 DEF FileOK, DiskOK, d

LEMMA EndOpOK ==
    ASSUME MapIndInv, NEW t \in Threads, NEW w, FileOK(w.fs),
           (\A s \in Threads \ {t} : pc[s] = "idle") /\ w.fs.whole => Saved(w.fs), end_op(t, w)
    PROVE  DiskOK(durable')
  <1>1. CASE \A s \in Threads \ {t} : pc[s] = "idle"
    <2>1. durable' = OnDisk(w.fs)
        BY <1>1 DEF end_op
    <2>2. DiskOK(OnDisk(w.fs))
        BY <1>1, CommitOK DEF FileOK
    <2> QED
        BY <2>1, <2>2
  <1>2. CASE ~ \A s \in Threads \ {t} : pc[s] = "idle"
      BY <1>2 DEF end_op, MapIndInv
  <1> QED
      BY <1>1, <1>2

\* No thread, no operation.
LEMMA IdleOK == InRange("idle", NoCall, NewOp) /\ LogFits("idle", NoCall, NewOp) /\ IsOp(NewOp) /\ NoCall \in Calls
  <1>1. NewOp.logged = {} /\ NewOp.n = 0 /\ NewOp = [n |-> 0, logged |-> {}]
      BY DEF NewOp
  <1>2. Cardinality(Merged(NewOp)) <= MAXOPBLOCKS
      BY <1>1, FewMerged
  <1>3. 0 \in FileBlocks
    <2>1. MAXFILE_BLOCKS \in Nat
      <3>1. NINDIRECT2 \in Nat
          BY Numbers DEF NINDIRECT2
      <3>2. NINDIRECT3 \in Nat
          BY <3>1, Numbers DEF NINDIRECT3
      <3> QED
          BY <3>1, <3>2, Numbers DEF MAXFILE_BLOCKS
    <2> QED
        BY <2>1 DEF FileBlocks
  <1>4. IsOp(NewOp)
      BY <1>1, FS_EmptySet DEF IsOp
  <1>5. NoCall \in Calls
      BY <1>3 DEF NoCall, Calls, Kinds
  <1> QED
      BY <1>2, <1>4, <1>5, Numbers DEF InRange, LogFits, NoCall

LEMMA DieKeeps ==
    ASSUME MapIndInv, Die, ncalls' \in 0 .. MaxCalls,
           err' \in {"none", "no more free space in disk!"}
    PROVE  MapIndInv'
  <1> DEFINE f == [addrs |-> durable.addrs, size |-> durable.size, daddrs |-> durable.addrs,
                   dsize |-> durable.size, ind |-> durable.ind, used |-> durable.used,
                   whole |-> durable.whole]
  <1>1. DiskOK(durable) /\ durable' = durable /\ fs' = f
      BY DEF Die, MapIndInv
  <1>2. /\ f.addrs = durable.addrs /\ f.ind = durable.ind /\ f.used = durable.used
        /\ f.whole = durable.whole /\ Saved(f)
      BY DEF Saved
  <1>3. f \in Files
      BY <1>1 DEF DiskOK, Disks, Files
  <1> HIDE DEF f
  <1>4. FileOK(f)
    <2>1. ASSUME f.whole PROVE \E lev : IsTree(f, lev)
      <3>1. PICK lev : IsTree(durable, lev)
          BY <1>1, <1>2, <2>1 DEF DiskOK
      <3> QED
          BY <1>2, <3>1, TreeSame
    <2> QED
        BY <1>1, <1>2, <1>3, <2>1 DEF FileOK, DiskOK
  <1>5. /\ lock' \in Threads \cup {Nobody} /\ pc' \in [Threads -> Labels] /\ call' \in [Threads -> Calls]
        /\ op' = [s \in Threads |-> op'[s]]
        /\ \A s \in Threads : pc'[s] = "idle" /\ call'[s] = NoCall /\ op'[s] = NewOp
      BY IdleOK DEF Die, Labels
  <1>6. TypeOK'
      BY <1>1, <1>3, <1>5, IdleOK DEF TypeOK, DiskOK, Calls
  <1>7. NoErrExit'
      BY DEF NoErrExit
  <1>8. \A s \in Threads : InRange(pc'[s], call'[s], op'[s]) /\ LogFits(pc'[s], call'[s], op'[s])
      BY <1>5, IdleOK
  <1>9. CallsInRange'
      BY <1>8 DEF CallsInRange, InRange
  <1>10. InodeSaved'
      BY <1>1, <1>2 DEF InodeSaved, Saved
  <1>11. FileOK(fs') /\ DiskOK(durable')
      BY <1>1, <1>4
  <1>12. SpaceLeft'
      BY <1>11 DEF SpaceLeft, FileOK, DiskOK
  <1> QED
      BY <1>6, <1>7, <1>8, <1>9, <1>10, <1>11, <1>12 DEF MapIndInv, MapInv, FileOK, DiskOK, LogFits, Counted

-----------------------------------------------------------------------------
(* The steps of a thread.                                                  *)

LEMMA UnlockKeeps ==
    ASSUME MapIndInv, NEW t \in Threads, Unlock(t)
    PROVE  MapIndInv'
  <1> DEFINE w == Work(t)
  <1>1. /\ pc[t] \in Labels /\ call[t] \in Calls /\ InRange(pc[t], call[t], op[t])
        /\ IsWork(w) /\ w.fs = fs /\ w.op = op[t]
        /\ LogFits(pc[t], call[t], op[t])
      BY ThreadParts
  <1> HIDE DEF w
  <1>2. /\ TypeOK /\ InodeSaved /\ FileOK(fs) /\ DiskOK(durable)
      BY DEF MapIndInv, MapInv
  <1>3. /\ pc[t] = "out" /\ lock' = Nobody /\ pc' = [pc EXCEPT ![t] = "end"]
        /\ fs' = fs /\ durable' = durable /\ call' = call /\ op' = op /\ ncalls' = ncalls /\ err' = err
      BY DEF Unlock
  <1>4. op' = [op EXCEPT ![t] = w.op] /\ call' = [call EXCEPT ![t] = call[t]]
      BY <1>1, <1>2, <1>3 DEF TypeOK
  <1>5. InRange("end", call[t], w.op) /\ LogFits("end", call[t], w.op)
      BY <1>1, <1>3 DEF InRange, LogFits
  <1>6. (\A s \in Threads \ {t} : pc[s] # "block") => Saved(w.fs)
      BY <1>1, <1>2, <1>3 DEF InodeSaved, Saved
  <1>7. lock' \in Threads \cup {Nobody} /\ ncalls' \in 0 .. MaxCalls /\ "end" \in Labels
      BY <1>2, <1>3 DEF TypeOK, Labels
  <1> QED
      BY <1>1, <1>2, <1>3, <1>4, <1>5, <1>6, <1>7, StepKeeps

LEMMA EndKeeps ==
    ASSUME MapIndInv, NEW t \in Threads, End(t)
    PROVE  MapIndInv'
  <1> DEFINE w == [fs |-> fs, op |-> NewOp]
  <1>1. Work(t).fs = fs /\ IsWork(Work(t))
      BY ThreadParts
  <1>2. /\ TypeOK /\ InodeSaved /\ FileOK(fs)
      BY DEF MapIndInv, MapInv
  <1>3. IsWork(w) /\ w.fs = fs /\ w.op = NewOp
      BY <1>2, IdleOK DEF IsWork, FileOK
  <1> HIDE DEF w
  <1>4. /\ pc[t] = "end" /\ pc' = [pc EXCEPT ![t] = "idle"] /\ call' = [call EXCEPT ![t] = NoCall]
        /\ op' = [op EXCEPT ![t] = w.op] /\ end_op(t, Work(t))
        /\ fs' = fs /\ lock' = lock /\ ncalls' = ncalls /\ err' = err
      BY <1>3 DEF End
  <1>5. (\A s \in Threads \ {t} : pc[s] # "block") => Saved(fs)
      BY <1>2, <1>4 DEF InodeSaved, Saved
  <1>6. DiskOK(durable')
      BY <1>1, <1>2, <1>4, <1>5, EndOpOK
  <1>7. lock' \in Threads \cup {Nobody} /\ ncalls' \in 0 .. MaxCalls /\ "idle" \in Labels
      BY <1>2, <1>4 DEF TypeOK, Labels
  <1> QED
      BY <1>2, <1>3, <1>4, <1>5, <1>6, <1>7, IdleOK, StepKeeps

LEMMA MaxFile == MAXFILE_BLOCKS \in Nat
  <1>1. NINDIRECT2 \in Nat
      BY Numbers DEF NINDIRECT2
  <1>2. NINDIRECT3 \in Nat
      BY <1>1, Numbers DEF NINDIRECT3
  <1> QED
      BY <1>1, <1>2, Numbers DEF MAXFILE_BLOCKS

LEMMA CallKeeps ==
    ASSUME MapIndInv, NEW t \in Threads, NEW kind \in Kinds \ {"none"}, NEW first \in FileBlocks, NEW last \in FileBlocks,
           kind \in {"read", "write"} => first <= last /\ last < MAXFILE_BLOCKS,
           Call(t, kind, first, last)
    PROVE  MapIndInv'
  <1> DEFINE w == [fs |-> fs, op |-> NewOp]
             c == [kind |-> kind, first |-> first, next |-> first, last |-> last]
  <1>1. /\ TypeOK /\ InodeSaved /\ FileOK(fs) /\ DiskOK(durable)
      BY DEF MapIndInv, MapInv
  <1>2. IsWork(w) /\ w.fs = fs /\ w.op = NewOp
      BY <1>1, IdleOK DEF IsWork, FileOK
  <1>3. c \in Calls /\ c.kind = kind /\ c.first = first /\ c.next = first /\ c.last = last /\ c # NoCall
      BY DEF Calls, NoCall
  <1>4. /\ pc[t] = "idle" /\ ncalls < MaxCalls /\ ncalls' = ncalls + 1
        /\ pc' = [pc EXCEPT ![t] = "start"] /\ call' = [call EXCEPT ![t] = c]
        /\ op' = [op EXCEPT ![t] = NewOp]
        /\ fs' = fs /\ durable' = durable /\ lock' = lock /\ err' = err
      BY DEF Call
  <1> HIDE DEF w, c
  <1>5. InRange("start", c, w.op)
      BY <1>2, <1>3 DEF InRange
  <1>6. LogFits("start", c, w.op)
      BY <1>2, IdleOK DEF LogFits
  <1>7. (\A s \in Threads \ {t} : pc[s] # "block") => Saved(w.fs)
      BY <1>1, <1>2, <1>4 DEF InodeSaved, Saved
  <1>8. lock' \in Threads \cup {Nobody} /\ "start" \in Labels /\ op' = [op EXCEPT ![t] = w.op] /\ fs' = w.fs
      BY <1>1, <1>2, <1>4 DEF TypeOK, Labels
  <1>9. ncalls' \in 0 .. MaxCalls
    <2>1. ncalls \in 0 .. MaxCalls /\ MaxCalls \in Nat
        BY <1>1, MapAssumption DEF TypeOK
    <2> QED
        BY <1>4, <2>1
  <1> QED
      BY <1>1, <1>2, <1>3, <1>4, <1>5, <1>6, <1>7, <1>8, <1>9, StepKeeps

LEMMA NewCallKeeps ==
    ASSUME MapIndInv, NEW t \in Threads, NewCall(t)
    PROVE  MapIndInv'
  <1>1. CASE \E off \in Offsets, len \in Lengths :
                /\ off + len <= MAXFILE_BLOCKS
                /\ Call(t, "read", off, off + len - 1) \/ Call(t, "write", off, off + len - 1)
    <2>1. PICK off \in Offsets, len \in Lengths :
                /\ off + len <= MAXFILE_BLOCKS
                /\ Call(t, "read", off, off + len - 1) \/ Call(t, "write", off, off + len - 1)
        BY <1>1
    <2>2. off \in 0 .. (MAXFILE_BLOCKS - 1) /\ len \in 1 .. MAXFILE_BLOCKS
        BY BoundsAssumption
    <2>3. /\ off \in FileBlocks /\ off + len - 1 \in FileBlocks /\ off <= off + len - 1
          /\ off + len - 1 < MAXFILE_BLOCKS
        BY <2>1, <2>2, MaxFile DEF FileBlocks
    <2>4. "read" \in Kinds \ {"none"} /\ "write" \in Kinds \ {"none"}
        BY DEF Kinds
    <2> QED
        BY <2>1, <2>3, <2>4, CallKeeps
  <1>2. CASE \E size \in TruncSizes : Call(t, "grow", 0, size)
    <2>1. PICK size \in TruncSizes : Call(t, "grow", 0, size)
        BY <1>2
    <2>2. size \in FileBlocks /\ 0 \in FileBlocks
        BY BoundsAssumption, MaxFile DEF FileBlocks
    <2>3. "grow" \in Kinds \ {"none"} /\ "grow" \notin {"read", "write"}
        BY DEF Kinds
    <2> QED
        BY <2>1, <2>2, <2>3, CallKeeps
  <1> QED
      BY <1>1, <1>2 DEF NewCall

\* The size of a file with its blocks as they are.
LEMMA SizeSet ==
    ASSUME NEW f, FileOK(f), NEW size \in FileBlocks
    PROVE  LET g == [f EXCEPT !.size = size] IN
           /\ FileOK(g) /\ g.addrs = f.addrs /\ g.ind = f.ind /\ g.used = f.used
           /\ g.daddrs = f.daddrs /\ g.dsize = f.dsize /\ g.whole = f.whole /\ g.size = size
  <1> DEFINE g == [f EXCEPT !.size = size]
  <1>1. f \in Files /\ f.used # Blocks /\ (f.whole => \E lev : IsTree(f, lev))
      BY DEF FileOK
  <1>2. /\ g \in Files /\ g.addrs = f.addrs /\ g.ind = f.ind /\ g.used = f.used
        /\ g.daddrs = f.daddrs /\ g.dsize = f.dsize /\ g.whole = f.whole /\ g.size = size
      BY <1>1 DEF Files, FileBlocks
  <1> HIDE DEF g
  <1>3. ASSUME g.whole PROVE \E lev : IsTree(g, lev)
    <2>1. PICK lev : IsTree(f, lev)
        BY <1>1, <1>2, <1>3
    <2> QED
        BY <1>2, <2>1, TreeSame
  <1> QED
      BY <1>1, <1>2, <1>3 DEF FileOK, g

\* iupdate() saves the inode.
LEMMA IupdateOK ==
    ASSUME NEW w, IsWork(w), FileOK(w.fs)
    PROVE  LET r == iupdate(w) IN
           /\ IsWork(r) /\ FileOK(r.fs) /\ Saved(r.fs)
           /\ r.op.n = w.op.n + 1 /\ r.op.logged = w.op.logged \cup {IBLOCK}
  <1> DEFINE r == iupdate(w)
  <1>1. /\ IsWork(r) /\ r.fs = [w.fs EXCEPT !.daddrs = w.fs.addrs, !.dsize = w.fs.size]
        /\ r.op.n = w.op.n + 1 /\ r.op.logged = w.op.logged \cup {IBLOCK}
      BY IupdateIs
  <1> HIDE DEF r
  <1>2. w.fs \in Files /\ r.fs \in Files /\ w.fs.used # Blocks /\ (w.fs.whole => \E lev : IsTree(w.fs, lev))
      BY <1>1, WorkParts DEF FileOK
  <1>3. /\ r.fs.addrs = w.fs.addrs /\ r.fs.ind = w.fs.ind /\ r.fs.used = w.fs.used /\ r.fs.whole = w.fs.whole
        /\ Saved(r.fs)
      BY <1>1, <1>2 DEF Files, Saved
  <1>4. ASSUME r.fs.whole PROVE \E lev : IsTree(r.fs, lev)
    <2>1. PICK lev : IsTree(w.fs, lev)
        BY <1>2, <1>3, <1>4
    <2> QED
        BY <1>3, <2>1, TreeSame
  <1> QED
      BY <1>1, <1>2, <1>3, <1>4 DEF FileOK, r

LEMMA StartWriteKeeps ==
    ASSUME MapIndInv, NEW t \in Threads, StartWrite(t)
    PROVE  MapIndInv'
  <1> DEFINE c == call[t]
             end == WriteEnd(t)
             size == IF fs.size < end THEN end ELSE fs.size
             f == [fs EXCEPT !.size = size]
             v == WithFile(Work(t), f)
             w == iupdate(v)
  <1>1. /\ c \in Calls /\ InRange(pc[t], c, op[t]) /\ IsWork(Work(t)) /\ Work(t).fs = fs /\ Work(t).op = op[t]
      BY ThreadParts
  <1>2. /\ TypeOK /\ FileOK(fs) /\ DiskOK(durable)
      BY DEF MapIndInv, MapInv
  <1>3. /\ pc[t] = "start" /\ c.kind = "write" /\ lock' = t
        /\ fs' = w.fs /\ op' = [op EXCEPT ![t] = w.op]
        /\ pc' = [pc EXCEPT ![t] = "block"] /\ durable' = durable /\ call' = call /\ ncalls' = ncalls /\ err' = err
      BY DEF StartWrite, Done
  <1>4. c.next = c.first /\ c.first <= c.last /\ c.last < MAXFILE_BLOCKS /\ op[t] = NewOp /\ c # NoCall
      BY <1>1, <1>3 DEF InRange
  <1>5. size \in FileBlocks
    <2>1. fs.size \in 0 .. MAXFILE_BLOCKS /\ c.last \in FileBlocks
        BY <1>1, <1>2 DEF TypeOK, Files, Calls
    <2> QED
        BY <1>4, <2>1, MaxFile DEF FileBlocks, WriteEnd
  <1> HIDE DEF size
  <1>6. FileOK(f)
      BY <1>2, <1>5, SizeSet
  <1> HIDE DEF f
  <1>7. IsWork(v) /\ v.fs = f /\ v.op = NewOp
      BY <1>1, <1>4, <1>6, WithFileIs DEF FileOK
  <1> HIDE DEF v
  <1>8. IsWork(w) /\ FileOK(w.fs) /\ w.op.n = 0 + 1 /\ w.op.logged = {} \cup {IBLOCK}
      BY <1>6, <1>7, IupdateOK DEF NewOp
  <1> HIDE DEF w
  <1>9. InRange("block", c, w.op)
    <2>1. c.first \in Nat /\ c.last \in Nat
        BY <1>1, MaxFile DEF Calls, FileBlocks
    <2> QED
        BY <1>3, <1>4, <2>1 DEF InRange
  <1>10. LogFits("block", c, w.op)
    <2>1. w.op.logged = {IBLOCK} /\ w.op.logged \subseteq Bitmaps \cup {IBLOCK} /\ w.op.n = 1
        BY <1>8
    <2>2. Cardinality({IBLOCK}) = 1 /\ Cardinality(Merged(w.op)) <= MAXOPBLOCKS
        BY <2>1, FS_Singleton, FewMerged
    <2>3. Counted(w.op) /\ Cardinality(Merged(w.op)) <= MAXOPBLOCKS
        BY <2>1, <2>2, Numbers DEF Counted
    <2> QED
        BY <1>3, <2>3 DEF LogFits
  <1>11. /\ lock' \in Threads \cup {Nobody} /\ ncalls' \in 0 .. MaxCalls /\ "block" \in Labels
         /\ call' = [call EXCEPT ![t] = c]
      BY <1>2, <1>3 DEF TypeOK, Labels
  <1> HIDE DEF c
  <1> QED
      BY <1>1, <1>2, <1>3, <1>8, <1>9, <1>10, <1>11, StepKeeps

LEMMA StartReadKeeps ==
    ASSUME MapIndInv, NEW t \in Threads, StartRead(t)
    PROVE  MapIndInv'
  <1> DEFINE c == call[t]
             w == Work(t)
             new == IF c.last < fs.size THEN c.last ELSE IF c.first = fs.size THEN c.first ELSE fs.size - 1
             d == [c EXCEPT !.last = new]
  <1>1. /\ c \in Calls /\ InRange(pc[t], c, op[t]) /\ IsWork(w) /\ w.fs = fs /\ w.op = op[t]
        /\ LogFits(pc[t], c, op[t])
      BY ThreadParts
  <1> HIDE DEF w
  <1>2. /\ TypeOK /\ FileOK(fs) /\ DiskOK(durable) /\ InodeSaved
      BY DEF MapIndInv, MapInv
  <1>3. /\ pc[t] = "start" /\ c.kind = "read" /\ lock' = t
        /\ fs' = fs /\ op' = op /\ durable' = durable /\ ncalls' = ncalls /\ err' = err
        /\ \/ pc' = [pc EXCEPT ![t] = "out"] /\ call' = call
           \/ /\ ~ (c.first > fs.size) /\ pc' = [pc EXCEPT ![t] = "block"]
              /\ call' = [call EXCEPT ![t] = d]
      BY DEF StartRead
  <1>4. c.next = c.first /\ c.first <= c.last /\ c.last < MAXFILE_BLOCKS /\ op[t] = NewOp /\ c # NoCall
      BY <1>1, <1>3 DEF InRange
  <1>5. fs.size \in Nat /\ fs.size <= MAXFILE_BLOCKS /\ c.first \in Nat /\ c.last \in Nat /\ c.next \in Nat
    <2>1. fs.size \in 0 .. MAXFILE_BLOCKS
        BY <1>2 DEF TypeOK, Files
    <2>2. c.first \in 0 .. MAXFILE_BLOCKS /\ c.last \in 0 .. MAXFILE_BLOCKS /\ c.next \in 0 .. MAXFILE_BLOCKS
        BY <1>1 DEF Calls, FileBlocks
    <2> QED
        BY <2>1, <2>2, MaxFile
  <1>6. /\ lock' \in Threads \cup {Nobody} /\ ncalls' \in 0 .. MaxCalls /\ "block" \in Labels /\ "out" \in Labels
        /\ op' = [op EXCEPT ![t] = w.op] /\ fs' = w.fs
      BY <1>1, <1>2, <1>3 DEF TypeOK, Labels
  <1>7. CASE pc' = [pc EXCEPT ![t] = "out"] /\ call' = call
    <2>1. call' = [call EXCEPT ![t] = c]
        BY <1>2, <1>7 DEF TypeOK
    <2>2. InRange("out", c, w.op) /\ LogFits("out", c, w.op)
        BY <1>1, <1>4 DEF InRange, LogFits
    <2>3. (\A s \in Threads \ {t} : pc[s] # "block") => Saved(w.fs)
        BY <1>1, <1>2, <1>3 DEF InodeSaved, Saved
    <2>4. DiskOK(durable') /\ err' = err /\ FileOK(w.fs) /\ pc' = [pc EXCEPT ![t] = "out"]
        BY <1>1, <1>2, <1>3, <1>7
    <2> HIDE DEF c, d
    <2> QED
        BY <1>1, <1>6, <2>1, <2>2, <2>3, <2>4, StepKeeps
  <1>8. CASE ~ (c.first > fs.size) /\ pc' = [pc EXCEPT ![t] = "block"] /\ call' = [call EXCEPT ![t] = d]
    <2>1. new \in Nat /\ new < MAXFILE_BLOCKS /\ c.first <= new
        BY <1>4, <1>5, <1>8, MaxFile
    <2> HIDE DEF new
    <2>2. d \in Calls /\ d.kind = c.kind /\ d.first = c.first /\ d.next = c.next /\ d.last = new
        BY <1>1, <2>1, MaxFile DEF Calls, FileBlocks
    <2> HIDE DEF d
    <2>3. d # NoCall
        BY <1>3, <2>2 DEF NoCall
    <2>4. InRange("block", d, w.op)
        BY <1>1, <1>3, <1>4, <1>5, <2>1, <2>2, <2>3 DEF InRange
    <2>5. LogFits("block", d, w.op)
        BY <1>1, <1>4, IdleOK, FS_EmptySet DEF LogFits, Counted, NewOp
    <2> QED
        BY <1>1, <1>2, <1>3, <1>6, <1>8, <2>2, <2>4, <2>5, StepKeeps
  <1> QED
      BY <1>3, <1>7, <1>8

\* The work on a file block is over, with w as it should be.
LEMMA NextBlockKeeps ==
    ASSUME MapIndInv, NEW t \in Threads, pc[t] = "block", NEW w, IsWork(w), FileOK(w.fs), NextBlock(t, w),
           Counted(w.op), Cardinality(Merged(w.op)) <= MAXOPBLOCKS,
           call[t].kind \in {"grow", "shrink"} => w.op.logged = {} \/ w.op.logged \cap Bitmaps # {},
           lock' \in Threads \cup {Nobody}, durable' = durable, ncalls' = ncalls, err' = err
    PROVE  MapIndInv'
  <1> DEFINE c == call[t]
             d == [c EXCEPT !.next = c.next + 1]
             v == iupdate(w)
  <1>1. c \in Calls /\ InRange("block", c, op[t])
      BY ThreadParts
  <1>2. TypeOK /\ DiskOK(durable)
      BY DEF MapIndInv, MapInv
  <1>3. c # NoCall /\ c.first <= c.next /\ c.next <= c.last /\ c.last < MAXFILE_BLOCKS
      BY <1>1 DEF InRange
  <1>4. c.first \in Nat /\ c.next \in Nat /\ c.last \in Nat
      BY <1>1, MaxFile DEF Calls, FileBlocks
  <1>5. "block" \in Labels /\ "out" \in Labels /\ ncalls' \in 0 .. MaxCalls /\ DiskOK(durable')
      BY <1>2 DEF TypeOK, Labels
  <1>6. CASE c.next = c.last
    <2>1. /\ fs' = v.fs /\ op' = [op EXCEPT ![t] = v.op] /\ pc' = [pc EXCEPT ![t] = "out"] /\ call' = call
        BY <1>6 DEF NextBlock, Done
    <2>2. call' = [call EXCEPT ![t] = c]
        BY <1>2, <2>1 DEF TypeOK
    <2>3. IsWork(v) /\ FileOK(v.fs) /\ Saved(v.fs) /\ v.op.logged = w.op.logged \cup {IBLOCK}
        BY IupdateOK
    <2> HIDE DEF v
    <2>4. InRange("out", c, v.op)
        BY <1>3 DEF InRange
    <2>5. Merged(v.op) = Merged(w.op)
        BY <2>3, BitmapsApart DEF Merged
    <2>6. LogFits("out", c, v.op)
        BY <2>5 DEF LogFits
    <2> HIDE DEF c
    <2> QED
        BY <1>1, <1>5, <2>1, <2>2, <2>3, <2>4, <2>6, StepKeeps
  <1>7. CASE c.next # c.last
    <2>1. /\ fs' = w.fs /\ op' = [op EXCEPT ![t] = w.op] /\ call' = [call EXCEPT ![t] = d] /\ pc' = pc
        BY <1>7 DEF NextBlock, Done
    <2>2. pc' = [pc EXCEPT ![t] = "block"]
        BY <1>2, <2>1 DEF TypeOK
    <2>3. c.next + 1 \in FileBlocks /\ c.next + 1 <= c.last /\ c.first <= c.next + 1 /\ c.next + 1 # c.first
        BY <1>3, <1>4, <1>7, MaxFile DEF FileBlocks
    <2>4. d \in Calls /\ d.kind = c.kind /\ d.first = c.first /\ d.last = c.last /\ d.next = c.next + 1
        BY <1>1, <2>3 DEF Calls
    <2> HIDE DEF d
    <2>5. d # NoCall
        BY <1>4, <2>4 DEF NoCall
    <2>6. InRange("block", d, w.op)
        BY <1>3, <2>3, <2>4, <2>5 DEF InRange
    <2>7. LogFits("block", d, w.op)
        BY <2>4 DEF LogFits
    <2> HIDE DEF c
    <2> QED
        BY <1>1, <1>5, <2>1, <2>2, <2>4, <2>6, <2>7, StepKeeps
  <1> QED
      BY <1>6, <1>7

\* The tests for a restart leave room for the bitmap, the inode and four more.
LEMMA RoomLeft ==
    ASSUME NEW o, IsOp(o), Counted(o),
           \/ o.logged = {}
           \/ o.n <= MAXOPBLOCKS - 6
           \/ o.n <= MAXOPBLOCKS - 5 /\ o.logged \cap Bitmaps # {}
    PROVE  /\ Cardinality(Merged(o)) \in Nat
           /\ Cardinality(Merged(o)) + 4 <= MAXOPBLOCKS
  <1> DEFINE L == o.logged
             A == L \ Bitmaps
             B == A \cup {Bitmap}
             C == B \cup {IBLOCK}
  <1>1. IsFiniteSet(L) /\ o.n \in Nat /\ Cardinality(L) <= o.n /\ MAXOPBLOCKS \in Nat /\ MAXOPBLOCKS > 6
      BY MapAssumption DEF IsOp, Counted
  <1>2. Merged(o) = C
      BY DEF Merged
  <1>3. L = {} => Cardinality(L) = 0
      BY FS_EmptySet
  <1>4. IsFiniteSet(A) /\ Cardinality(L) \in Nat /\ Cardinality(A) \in Nat /\ Cardinality(A) <= Cardinality(L)
    <2>1. A \subseteq L
        OBVIOUS
    <2> HIDE DEF L, A
    <2>2. IsFiniteSet(A) /\ Cardinality(A) <= Cardinality(L)
        BY <1>1, <2>1, FS_Subset
    <2> QED
        BY <1>1, <2>2, FS_CardinalityType
  <1>5. ASSUME L \cap Bitmaps # {} PROVE Cardinality(A) <= Cardinality(L) - 1
    <2>1. PICK x \in L : x \in Bitmaps
        BY <1>5
    <2>2. A \subseteq L \ {x}
        BY <2>1
    <2> HIDE DEF L, A
    <2>3. IsFiniteSet(L \ {x}) /\ Cardinality(L \ {x}) = Cardinality(L) - 1
        BY <1>1, <2>1, FS_RemoveElement
    <2>4. Cardinality(A) <= Cardinality(L \ {x})
        BY <2>2, <2>3, FS_Subset
    <2> QED
        BY <1>4, <2>3, <2>4
  <1> HIDE DEF A, B, C
  <1>6. IsFiniteSet(B) /\ Cardinality(B) \in Nat /\ Cardinality(B) <= Cardinality(A) + 1
      BY <1>4, AddOne DEF B
  <1>7. Cardinality(C) \in Nat /\ Cardinality(C) <= Cardinality(B) + 1
      BY <1>6, AddOne DEF C
  <1>8. Cardinality(C) + 4 <= MAXOPBLOCKS
    <2>1. CASE o.logged = {}
        BY <1>1, <1>3, <1>4, <1>6, <1>7, <2>1
    <2>2. CASE o.n <= MAXOPBLOCKS - 6
        BY <1>1, <1>4, <1>6, <1>7, <2>2
    <2>3. CASE o.n <= MAXOPBLOCKS - 5 /\ o.logged \cap Bitmaps # {}
      <3>1. Cardinality(A) <= Cardinality(L) - 1
          BY <1>5, <2>3
      <3> HIDE DEF L
      <3> QED
          BY <1>1, <1>4, <1>6, <1>7, <2>3, <3>1
    <2> QED
        BY <2>1, <2>2, <2>3
  <1> QED
      BY <1>2, <1>7, <1>8

\* A write fills a data block.
LEMMA FilledOK ==
    ASSUME NEW f \in Files, f.used # Blocks, NEW b \in Blocks,
           f.whole => \E lev : IsTree(f, lev) /\ lev[b] = 0
    PROVE  FileOK([f EXCEPT !.ind[b] = UserData])
  <1> DEFINE g == [f EXCEPT !.ind[b] = UserData]
  <1>1. f.ind \in [Blocks -> [Index -> Addresses]] /\ UserData \in [Index -> Addresses]
      BY Rows DEF Files, Contents
  <1>2. /\ g.ind = [f.ind EXCEPT ![b] = UserData]
        /\ g.addrs = f.addrs /\ g.used = f.used /\ g.whole = f.whole
      BY DEF Files
  <1>3. g.ind \in [Blocks -> [Index -> Addresses]] /\ \A q \in Blocks : q # b => g.ind[q] = f.ind[q]
      BY <1>1, <1>2
  <1>4. g \in Files
      BY <1>2, <1>3 DEF Files, Contents
  <1> HIDE DEF g
  <1>5. \A q \in Nodes : q # b => \A j \in EntriesOf(q) : EntryIn(g, q, j) = EntryIn(f, q, j)
      BY <1>2, <1>3 DEF Nodes, EntryIn, Entry
  <1>6. ASSUME g.whole PROVE \E lev : IsTree(g, lev)
    <2>1. PICK lev : IsTree(f, lev) /\ lev[b] = 0
        BY <1>2, <1>6
    <2>2. b # Inode
        BY Numbers DEF Blocks, Inode
    <2> QED
        BY <1>2, <1>5, <2>1, <2>2, TreeFilled
  <1> QED
      BY <1>2, <1>4, <1>6 DEF FileOK, g

\* The work on a file block either ends the process for want of space or goes
\* on; never for the blocks that it logs.
LEMMA MessageIs ==
    ASSUME MapIndInv, NEW t \in Threads, op[t].n < MAXOPBLOCKS - 1 - 3, NEW r
    PROVE  Message(t, r) = IF r.at = NoWay THEN "no more free space in disk!" ELSE "none"
  <1>1. Work(t).op = op[t] /\ op[t].n \in Nat
      BY ThreadParts DEF IsOp
  <1>2. ~ TooMany(Work(t))
      BY <1>1, MapAssumption DEF TooMany
  <1> QED
      BY <1>2 DEF Message

LEMMA ExitKeeps ==
    ASSUME MapIndInv, NEW message, err_exit(message), message = "no more free space in disk!"
    PROVE  MapIndInv'
  <1>1. Die /\ err' = message /\ ncalls' = ncalls
      BY DEF err_exit
  <1>2. ncalls' \in 0 .. MaxCalls
      BY <1>1 DEF MapIndInv, MapInv, TypeOK
  <1> QED
      BY <1>1, <1>2, DieKeeps

\* A part of what there is room for.
LEMMA RoomFor ==
    ASSUME NEW o, IsOp(o), NEW at, NEW v, v.logged \subseteq o.logged \cup {Data(at)}, NEW k \in Nat,
           Cardinality(Room(o, at)) <= k
    PROVE  Cardinality(Merged(v)) <= k
  <1> DEFINE A == Merged(v)
             R == Room(o, at)
  <1>1. A \subseteq R
      BY DEF Room, Merged
  <1>2. IsFiniteSet(R) /\ Cardinality(R) <= k
      BY RoomFinite
  <1> HIDE DEF A, R
  <1>3. IsFiniteSet(A) /\ Cardinality(A) <= Cardinality(R)
      BY <1>1, <1>2, FS_Subset
  <1>4. Cardinality(A) \in Nat /\ Cardinality(R) \in Nat
      BY <1>2, <1>3, FS_CardinalityType
  <1>5. Cardinality(A) <= k
      BY <1>2, <1>3, <1>4
  <1> QED
      BY <1>5 DEF A

LEMMA CountedMore ==
    ASSUME NEW o, IsOp(o), Counted(o), NEW b
    PROVE  Cardinality(o.logged \cup {b}) <= o.n + 1
  <1>1. IsFiniteSet(o.logged) /\ o.n \in Nat /\ Cardinality(o.logged) <= o.n
      BY DEF IsOp, Counted
  <1>2. /\ Cardinality(o.logged) \in Nat /\ Cardinality(o.logged \cup {b}) \in Nat
        /\ Cardinality(o.logged \cup {b}) <= Cardinality(o.logged) + 1
      BY <1>1, AddOne
  <1> QED
      BY <1>1, <1>2

LEMMA TransferBlockKeeps ==
    ASSUME MapIndInv, NEW t \in Threads, TransferBlock(t)
    PROVE  MapIndInv'
  <1> DEFINE c == call[t]
             w == Work(t)
             m == imap2blockno(w, c.next)
             f == [m.w.fs EXCEPT !.ind[m.at] = UserData]
             x == WithFile(m.w, f)
             y == logged_write(x, Data(m.at))
             v == IF c.kind = "write" THEN y ELSE m.w
  <1>1. /\ c \in Calls /\ IsOp(op[t]) /\ InRange(pc[t], c, op[t]) /\ IsWork(w) /\ w.fs = fs /\ w.op = op[t]
        /\ LogFits(pc[t], c, op[t])
      BY ThreadParts
  <1>2. FileOK(fs)
      BY DEF MapIndInv
  <1>3. /\ pc[t] = "block" /\ c.kind \in {"read", "write"} /\ op[t].n < RestartAt(t)
        /\ IF Message(t, m) # "none" THEN err_exit(Message(t, m))
           ELSE lock' = t /\ NextBlock(t, v) /\ durable' = durable /\ ncalls' = ncalls /\ err' = err
      BY DEF TransferBlock, AtBlock
  <1>4. c.first <= c.next /\ c.next <= c.last /\ c.last < MAXFILE_BLOCKS
        /\ (c.kind = "read" /\ c.next = c.first => op[t] = NewOp)
      BY <1>1, <1>3 DEF InRange
  <1>5. c.next \in 0 .. (MAXFILE_BLOCKS - 1)
    <2>1. c.next \in Nat /\ c.last \in Nat
        BY <1>1, MaxFile DEF Calls, FileBlocks
    <2> QED
        BY <1>4, <2>1, MaxFile
  <1>6. /\ op[t].logged = {} \/ op[t].n <= MAXOPBLOCKS - 6
        /\ op[t].n < MAXOPBLOCKS - 1 - 3
    <2>1. op[t].n \in Nat /\ MAXOPBLOCKS \in Nat /\ MAXOPBLOCKS > 6
        BY <1>1, MapAssumption DEF IsOp
    <2>2. CASE op[t] = NewOp
      <3>1. op[t].n = 0 /\ op[t].logged = {}
          BY <2>2 DEF NewOp
      <3> QED
          BY <2>1, <3>1
    <2>3. CASE op[t] # NewOp
      <3>1. ~ (c.kind = "read" /\ c.next = c.first)
          BY <1>4, <2>3
      <3>2. RestartAt(t) \in {MAXOPBLOCKS - 5, MAXOPBLOCKS - 6}
          BY <2>1, <3>1 DEF RestartAt
      <3> QED
          BY <1>3, <2>1, <3>2
    <2> QED
        BY <2>2, <2>3
  <1>7. Reached(w, m, 0, 4)
      BY <1>1, <1>2, <1>5, ImapIs DEF FileOK
  <1>8. Message(t, m) = IF m.at = NoWay THEN "no more free space in disk!" ELSE "none"
      BY <1>6, MessageIs
  <1> HIDE DEF m, w
  <1>9. CASE m.at = NoWay
    <2>1. Message(t, m) = "no more free space in disk!"
        BY <1>8, <1>9
    <2>2. err_exit(Message(t, m))
        BY <1>3, <2>1
    <2> QED
        BY <2>1, <2>2, ExitKeeps
  <1>10. CASE m.at # NoWay
    <2>1. m.at \in Blocks /\ IsResult(w, m) /\ AtLevel(m, 0)
        BY <1>7, <1>10 DEF Reached
    <2>2. IsWork(m.w) /\ m.w.fs.used # Blocks /\ m.w.fs \in Files /\ IsOp(m.w.op)
        BY <2>1 DEF IsResult, IsWork
    <2>3. m.w.fs.whole => \E lev : IsTree(m.w.fs, lev) /\ lev[m.at] = 0
        BY <1>10, <2>1 DEF AtLevel
    <2>4. FileOK(m.w.fs)
        BY <2>2, <2>3 DEF FileOK
    <2>5. FileOK(f)
        BY <2>1, <2>2, <2>3, FilledOK
    <2> HIDE DEF f
    <2>6. IsWork(x) /\ x.fs = f /\ x.op = m.w.op
        BY <2>2, <2>5, WithFileIs DEF FileOK
    <2> HIDE DEF x
    <2>7. IsWork(y) /\ y.fs = f /\ y.op.n = m.w.op.n + 1 /\ y.op.logged = m.w.op.logged \cup {Data(m.at)}
        BY <2>6, LoggedWriteIs
    <2> HIDE DEF y
    <2>8. IsWork(v) /\ FileOK(v.fs)
        BY <2>2, <2>4, <2>5, <2>7
    <2>9. Counted(v.op) /\ Cardinality(Merged(v.op)) <= MAXOPBLOCKS
      <3>1. Counted(w.op) /\ IsOp(w.op)
          BY <1>1, <1>3 DEF LogFits
      <3>2. Counted(m.w.op)
          BY <2>1, <3>1 DEF IsResult
      <3>3. /\ Cardinality(Merged(w.op)) \in Nat
            /\ Cardinality(Merged(w.op)) + 4 <= MAXOPBLOCKS
          BY <1>1, <1>6, <3>1, RoomLeft
      <3>4. Cardinality(Room(m.w.op, m.at)) <= Cardinality(Merged(w.op)) + 4
          BY <1>7, <1>10 DEF Reached
      <3>5. Cardinality(Room(m.w.op, m.at)) \in Nat
          BY <2>2, RoomFinite, FS_CardinalityType
      <3>6. Cardinality(Room(m.w.op, m.at)) <= MAXOPBLOCKS
          BY <3>3, <3>4, <3>5, MapAssumption
      <3>7. Cardinality(Merged(m.w.op)) <= MAXOPBLOCKS /\ Cardinality(Merged(y.op)) <= MAXOPBLOCKS
        <4>1. /\ m.w.op.logged \subseteq m.w.op.logged \cup {Data(m.at)}
              /\ y.op.logged \subseteq m.w.op.logged \cup {Data(m.at)} /\ MAXOPBLOCKS \in Nat
            BY <2>7, Numbers
        <4> QED
            BY <2>2, <3>6, <4>1, RoomFor
      <3>8. Cardinality(m.w.op.logged \cup {Data(m.at)}) <= m.w.op.n + 1
          BY <2>2, <3>2, CountedMore
      <3>9. Counted(y.op) /\ Cardinality(Merged(y.op)) <= MAXOPBLOCKS
          BY <2>7, <3>7, <3>8 DEF Counted
      <3> QED
          BY <3>2, <3>7, <3>9
    <2>10. Message(t, m) = "none"
        BY <1>8, <1>10
    <2>11. /\ NextBlock(t, v) /\ lock' \in Threads \cup {Nobody} /\ durable' = durable /\ ncalls' = ncalls /\ err' = err
        BY <1>3, <2>10
    <2>12. call[t].kind \notin {"grow", "shrink"}
        BY <1>3
    <2> HIDE DEF v, c
    <2> QED
        BY <1>3, <2>8, <2>9, <2>11, <2>12, NextBlockKeeps
  <1> QED
      BY <1>9, <1>10

\* An operation that has just begun, in the middle of a call.
LEMMA NewOpOK ==
    ASSUME NEW l \in {"start", "block", "out"}, NEW c, c # NoCall, NEW o, InRange(l, c, o)
    PROVE  InRange(l, c, NewOp) /\ LogFits(l, c, NewOp)
  <1>1. NewOp.logged = {} /\ NewOp.n = 0
      BY DEF NewOp
  <1>2. Cardinality(Merged(NewOp)) <= MAXOPBLOCKS
      BY IdleOK DEF LogFits
  <1>3. Counted(NewOp)
      BY <1>1, FS_EmptySet DEF Counted
  <1> QED
      BY <1>1, <1>2, <1>3 DEF InRange, LogFits

LEMMA restart_op_onKeeps ==
    ASSUME MapIndInv, NEW t \in Threads, restart_op_on(t)
    PROVE  MapIndInv'
  <1> DEFINE c == call[t]
             v == iupdate(Work(t))
             w == [fs |-> v.fs, op |-> NewOp]
  <1>1. /\ c \in Calls /\ InRange(pc[t], c, op[t]) /\ IsWork(Work(t)) /\ Work(t).fs = fs
      BY ThreadParts
  <1>2. TypeOK /\ FileOK(fs)
      BY DEF MapIndInv, MapInv
  <1>3. /\ pc[t] = "block" /\ end_op(t, v) /\ fs' = v.fs /\ op' = [op EXCEPT ![t] = NewOp] /\ lock' = Nobody
        /\ pc' = pc /\ call' = call /\ ncalls' = ncalls /\ err' = err
      BY DEF restart_op_on, AtBlock, SaveInode, Restarted
  <1>4. IsWork(v) /\ FileOK(v.fs) /\ Saved(v.fs)
      BY <1>1, <1>2, IupdateOK
  <1> HIDE DEF v
  <1>5. DiskOK(durable')
      BY <1>3, <1>4, EndOpOK
  <1>6. IsWork(w) /\ w.fs = v.fs /\ w.op = NewOp
      BY <1>4, IdleOK DEF IsWork, FileOK
  <1> HIDE DEF w
  <1>7. c # NoCall
      BY <1>1, <1>3 DEF InRange
  <1>8. InRange("block", c, w.op) /\ LogFits("block", c, w.op)
      BY <1>1, <1>3, <1>6, <1>7, NewOpOK
  <1>9. /\ pc' = [pc EXCEPT ![t] = "block"] /\ call' = [call EXCEPT ![t] = c] /\ op' = [op EXCEPT ![t] = w.op]
        /\ fs' = w.fs /\ FileOK(w.fs) /\ lock' \in Threads \cup {Nobody} /\ ncalls' \in 0 .. MaxCalls /\ "block" \in Labels
      BY <1>2, <1>3, <1>4, <1>6 DEF TypeOK, Labels
  <1>10. err' = err
      BY <1>3
  <1> HIDE DEF c
  <1> QED
      BY <1>1, <1>5, <1>6, <1>8, <1>9, <1>10, StepKeeps

\* The commit that a truncation makes on its way is not whole.
LEMMA itrunc2size_log_op_restart_helperKeeps ==
    ASSUME MapIndInv, NEW t \in Threads, itrunc2size_log_op_restart_helper(t)
    PROVE  MapIndInv'
  <1> DEFINE c == call[t]
             f == [fs EXCEPT !.whole = FALSE]
             v == WithFile(Work(t), f)
             w == [fs |-> fs, op |-> NewOp]
  <1>1. /\ c \in Calls /\ InRange(pc[t], c, op[t]) /\ IsWork(Work(t))
      BY ThreadParts
  <1>2. TypeOK /\ FileOK(fs)
      BY DEF MapIndInv, MapInv
  <1>3. /\ pc[t] = "block" /\ end_op(t, v) /\ op' = [op EXCEPT ![t] = NewOp]
        /\ fs' = fs /\ lock' = lock /\ pc' = pc /\ call' = call /\ ncalls' = ncalls /\ err' = err
      BY DEF itrunc2size_log_op_restart_helper, AtBlock, Restarted
  <1>4. f \in Files /\ f.used = fs.used /\ f.whole = FALSE
      BY <1>2 DEF FileOK, Files
  <1>5. FileOK(f)
      BY <1>2, <1>4 DEF FileOK
  <1> HIDE DEF f
  <1>6. v.fs = f
      BY <1>1, <1>4, WithFileIs
  <1> HIDE DEF v
  <1>7. DiskOK(durable')
      BY <1>3, <1>4, <1>5, <1>6, EndOpOK
  <1>8. IsWork(w) /\ w.fs = fs /\ w.op = NewOp
      BY <1>2, IdleOK DEF IsWork, FileOK
  <1> HIDE DEF w
  <1>9. c # NoCall
      BY <1>1, <1>3 DEF InRange
  <1>10. InRange("block", c, w.op) /\ LogFits("block", c, w.op)
      BY <1>1, <1>3, <1>8, <1>9, NewOpOK
  <1>11. /\ pc' = [pc EXCEPT ![t] = "block"] /\ call' = [call EXCEPT ![t] = c] /\ op' = [op EXCEPT ![t] = w.op]
         /\ fs' = w.fs /\ FileOK(w.fs) /\ lock' \in Threads \cup {Nobody} /\ ncalls' \in 0 .. MaxCalls /\ "block" \in Labels
      BY <1>2, <1>3, <1>8 DEF TypeOK, Labels
  <1>12. err' = err
      BY <1>3
  <1> HIDE DEF c
  <1> QED
      BY <1>1, <1>7, <1>8, <1>10, <1>11, <1>12, StepKeeps

LEMMA StartTruncateKeeps ==
    ASSUME MapIndInv, NEW t \in Threads, StartTruncate(t)
    PROVE  MapIndInv'
  <1> DEFINE c == call[t]
             size == c.last
             f == [fs EXCEPT !.size = size]
             x == WithFile(Work(t), f)
             z == itrunc(Work(t))
             w == IF size = fs.size THEN iupdate(x) ELSE iupdate(z)
             d == IF size > fs.size
                  THEN [kind |-> "grow", first |-> fs.size, next |-> fs.size, last |-> size - 1]
                  ELSE [kind |-> "shrink", first |-> size, next |-> size, last |-> fs.size - 1]
  <1>1. /\ c \in Calls /\ InRange(pc[t], c, op[t]) /\ IsWork(Work(t)) /\ Work(t).fs = fs /\ Work(t).op = op[t]
      BY ThreadParts
  <1>2. TypeOK /\ FileOK(fs) /\ DiskOK(durable)
      BY DEF MapIndInv, MapInv
  <1>3. /\ pc[t] = "start" /\ lock' = t /\ durable' = durable /\ ncalls' = ncalls /\ err' = err
        /\ IF size = fs.size \/ size = 0
           THEN fs' = w.fs /\ op' = [op EXCEPT ![t] = w.op] /\ pc' = [pc EXCEPT ![t] = "out"] /\ call' = call
           ELSE pc' = [pc EXCEPT ![t] = "block"] /\ call' = [call EXCEPT ![t] = d] /\ fs' = fs /\ op' = op
      BY DEF StartTruncate, Done
  <1>4. op[t] = NewOp /\ c # NoCall
      BY <1>1, <1>3 DEF InRange
  <1>5. size \in FileBlocks /\ fs.size \in FileBlocks /\ size \in Nat /\ fs.size \in Nat
        /\ size <= MAXFILE_BLOCKS /\ fs.size <= MAXFILE_BLOCKS
    <2>1. size \in FileBlocks /\ fs.size \in 0 .. MAXFILE_BLOCKS
        BY <1>1, <1>2 DEF TypeOK, Files, Calls
    <2> QED
        BY <2>1, MaxFile DEF FileBlocks
  <1> HIDE DEF size
  <1>6. lock' \in Threads \cup {Nobody} /\ ncalls' \in 0 .. MaxCalls /\ "block" \in Labels /\ "out" \in Labels
        /\ DiskOK(durable') /\ err' = err
      BY <1>2, <1>3 DEF TypeOK, Labels
  <1>7. CASE size = fs.size \/ size = 0
    <2>1. FileOK(f)
        BY <1>2, <1>5, SizeSet
    <2> HIDE DEF f
    <2>2. IsWork(x) /\ x.fs = f /\ x.op = NewOp
        BY <1>1, <1>4, <2>1, WithFileIs DEF FileOK
    <2> HIDE DEF x
    <2>3. IsWork(iupdate(x)) /\ FileOK(iupdate(x).fs) /\ Saved(iupdate(x).fs) /\ iupdate(x).op.logged = {} \cup {IBLOCK}
        BY <2>1, <2>2, IupdateOK DEF NewOp
    <2>4. IsWork(z) /\ FileOK(z.fs) /\ z.op.logged \subseteq {} \cup Bitmaps \cup {IBLOCK}
        BY <1>1, <1>2, <1>4, ItruncIs DEF NewOp
    <2> HIDE DEF z
    <2>5. /\ IsWork(iupdate(z)) /\ FileOK(iupdate(z).fs) /\ Saved(iupdate(z).fs)
          /\ iupdate(z).op.logged = z.op.logged \cup {IBLOCK}
        BY <2>4, IupdateOK
    <2>6. IsWork(w) /\ FileOK(w.fs) /\ Saved(w.fs) /\ w.op.logged \subseteq Bitmaps \cup {IBLOCK}
        BY <2>3, <2>4, <2>5
    <2> HIDE DEF w
    <2>7. LogFits("out", c, w.op)
        BY <2>6, FewMerged DEF LogFits
    <2>8. InRange("out", c, w.op)
        BY <1>4 DEF InRange
    <2>9. fs' = w.fs /\ op' = [op EXCEPT ![t] = w.op] /\ pc' = [pc EXCEPT ![t] = "out"] /\ call' = [call EXCEPT ![t] = c]
        BY <1>2, <1>3, <1>7 DEF TypeOK
    <2> HIDE DEF c
    <2> QED
        BY <1>1, <1>6, <2>6, <2>7, <2>8, <2>9, StepKeeps
  <1>8. CASE ~ (size = fs.size \/ size = 0)
    <2> DEFINE v == Work(t)
    <2>1. IsWork(v) /\ v.fs = fs /\ v.op = NewOp
        BY <1>1, <1>4
    <2> HIDE DEF v
    <2>2. /\ pc' = [pc EXCEPT ![t] = "block"] /\ call' = [call EXCEPT ![t] = d]
          /\ fs' = v.fs /\ FileOK(v.fs) /\ op' = op
        BY <1>2, <1>3, <1>8, <2>1
    <2>3. op' = [op EXCEPT ![t] = v.op]
        BY <1>2, <1>4, <2>1, <2>2 DEF TypeOK
    <2>4. /\ d.kind \in {"grow", "shrink"} /\ d.first = d.next /\ d.first \in FileBlocks /\ d.last \in FileBlocks
          /\ d.first <= d.last /\ d.last < MAXFILE_BLOCKS /\ d \in Calls /\ d.next <= d.last /\ d.first <= d.next
      <3>1. CASE size > fs.size
        <4>1. size - 1 \in FileBlocks /\ fs.size <= size - 1 /\ size - 1 < MAXFILE_BLOCKS
            BY <1>5, <3>1, MaxFile DEF FileBlocks
        <4> QED
            BY <1>5, <3>1, <4>1 DEF Calls, Kinds
      <3>2. CASE ~ (size > fs.size)
        <4>1. fs.size - 1 \in FileBlocks /\ size <= fs.size - 1 /\ fs.size - 1 < MAXFILE_BLOCKS
            BY <1>5, <1>8, <3>2, MaxFile DEF FileBlocks
        <4> QED
            BY <1>5, <3>2, <4>1 DEF Calls, Kinds
      <3> QED
          BY <3>1, <3>2
    <2> HIDE DEF d
    <2>5. d # NoCall
        BY <2>4 DEF NoCall
    <2>6. InRange("block", d, NewOp)
        BY <2>4, <2>5 DEF InRange
    <2>7. LogFits("block", d, NewOp)
        BY <2>5, <2>6, NewOpOK
    <2>8. InRange("block", d, v.op) /\ LogFits("block", d, v.op)
        BY <2>1, <2>6, <2>7
    <2> QED
        BY <1>6, <2>1, <2>2, <2>3, <2>4, <2>8, StepKeeps
  <1> QED
      BY <1>7, <1>8

LEMMA TruncateBlockKeeps ==
    ASSUME MapIndInv, NEW t \in Threads, TruncateBlock(t)
    PROVE  MapIndInv'
  <1> DEFINE c == call[t]
             w == Work(t)
             r == IF c.kind = "grow" THEN imap2blockno(w, c.next) ELSE imap2blockno_free(w, c.next)
             size == IF c.next # c.last THEN fs.size ELSE IF c.kind = "grow" THEN c.last + 1 ELSE c.first
             f == [r.w.fs EXCEPT !.size = size]
             v == WithFile(r.w, f)
  <1>1. /\ c \in Calls /\ IsOp(op[t]) /\ InRange(pc[t], c, op[t]) /\ IsWork(w) /\ w.fs = fs /\ w.op = op[t]
        /\ LogFits(pc[t], c, op[t])
      BY ThreadParts
  <1>2. FileOK(fs) /\ TypeOK
      BY DEF MapIndInv, MapInv
  <1>3. /\ pc[t] = "block" /\ c.kind \in {"grow", "shrink"} /\ ~ (op[t].n >= MAXOPBLOCKS - 1 - 3)
        /\ IF Message(t, r) # "none" THEN err_exit(Message(t, r))
           ELSE NextBlock(t, v) /\ durable' = durable /\ lock' = lock /\ ncalls' = ncalls /\ err' = err
      BY DEF TruncateBlock, AtBlock, NeedsRestart
  <1>4. c.first <= c.next /\ c.next <= c.last /\ c.last < MAXFILE_BLOCKS
      BY <1>1, <1>3 DEF InRange
  <1>5. c.first \in Nat /\ c.next \in Nat /\ c.last \in Nat
      BY <1>1, MaxFile DEF Calls, FileBlocks
  <1>6. c.next \in 0 .. (MAXFILE_BLOCKS - 1)
      BY <1>4, <1>5, MaxFile
  <1>7. op[t].n \in Nat /\ op[t].n < MAXOPBLOCKS - 1 - 3 /\ op[t].n <= MAXOPBLOCKS - 5
    <2>1. op[t].n \in Nat
        BY <1>1 DEF IsOp
    <2> QED
        BY <1>3, <2>1, MapAssumption
  <1>8. size \in FileBlocks
    <2>1. fs.size \in FileBlocks
        BY <1>2 DEF TypeOK, Files, FileBlocks
    <2>2. c.last + 1 \in FileBlocks /\ c.first \in FileBlocks
        BY <1>4, <1>5, MaxFile DEF FileBlocks
    <2> QED
        BY <2>1, <2>2
  <1> HIDE DEF size
  <1>9. /\ IsResult(w, r) /\ (r.w.fs.whole => \E lev : IsTree(r.w.fs, lev))
        /\ r.at # NoWay =>
             Cardinality(Merged(r.w.op)) <= Cardinality(Merged(w.op)) + 4
    <2> DEFINE m == imap2blockno(w, c.next)
               x == imap2blockno_free(w, c.next)
    <2>1. Reached(w, m, 0, 4)
        BY <1>1, <1>2, <1>6, ImapIs DEF FileOK
    <2>2. /\ IsResult(w, x) /\ (x.w.fs.whole => \E lev : IsTree(x.w.fs, lev))
          /\ x.at # NoWay =>
               Cardinality(Merged(x.w.op)) <= Cardinality(Merged(w.op)) + 2
        BY <1>1, <1>2, <1>6, FreeIs DEF FileOK
    <2>3. r = IF c.kind = "grow" THEN m ELSE x
        OBVIOUS
    <2> HIDE DEF m, x, r, w
    <2> DEFINE N == Cardinality(Merged(w.op))
    <2>4. N \in Nat
        BY <1>1, RoomFinite, FS_CardinalityType
    <2> HIDE DEF N
    <2>5. CASE r = m
      <3>1. IsResult(w, m) /\ (m.w.fs.whole => \E lev : IsTree(m.w.fs, lev)) /\ IsOp(m.w.op)
          BY <2>1 DEF Reached, AtLevel, IsResult, IsWork
      <3>2. ASSUME m.at # NoWay PROVE Cardinality(Merged(m.w.op)) <= N + 4
        <4>1. Cardinality(Room(m.w.op, m.at)) <= N + 4
            BY <2>1, <3>2 DEF Reached, N
        <4>2. m.w.op.logged \subseteq m.w.op.logged \cup {Data(m.at)} /\ N + 4 \in Nat
            BY <2>4
        <4> QED
            BY <3>1, <4>1, <4>2, RoomFor
      <3> QED
          BY <2>5, <3>1, <3>2 DEF N
    <2>6. CASE r = x
      <3>1. IsOp(x.w.op)
          BY <2>2 DEF IsResult, IsWork
      <3>2. ASSUME x.at # NoWay PROVE Cardinality(Merged(x.w.op)) <= N + 4
        <4>1. Cardinality(Merged(x.w.op)) <= N + 2
            BY <2>2, <3>2 DEF N
        <4>2. Cardinality(Merged(x.w.op)) \in Nat
            BY <3>1, RoomFinite, FS_CardinalityType
        <4> QED
            BY <2>4, <4>1, <4>2
      <3> QED
          BY <2>2, <2>6, <3>2 DEF N
    <2> QED
        BY <2>3, <2>5, <2>6
  <1>10. Message(t, r) = IF r.at = NoWay THEN "no more free space in disk!" ELSE "none"
      BY <1>7, MessageIs
  <1> HIDE DEF r, w
  <1>11. CASE r.at = NoWay
    <2>1. Message(t, r) = "no more free space in disk!"
        BY <1>10, <1>11
    <2>2. err_exit(Message(t, r))
        BY <1>3, <2>1
    <2> QED
        BY <2>1, <2>2, ExitKeeps
  <1>12. CASE r.at # NoWay
    <2>1. FileOK(r.w.fs) /\ IsWork(r.w)
        BY <1>9 DEF IsResult, IsWork, FileOK
    <2>2. FileOK(f)
        BY <1>8, <2>1, SizeSet
    <2> HIDE DEF f
    <2>3. IsWork(v) /\ v.fs = f /\ v.op = r.w.op
        BY <2>1, <2>2, WithFileIs DEF FileOK
    <2> HIDE DEF v
    <2>4. /\ Counted(v.op) /\ Cardinality(Merged(v.op)) <= MAXOPBLOCKS
          /\ v.op.logged = {} \/ v.op.logged \cap Bitmaps # {}
      <3>1. Counted(w.op) /\ IsOp(w.op) /\ (w.op.logged = {} \/ w.op.logged \cap Bitmaps # {})
          BY <1>1, <1>3 DEF LogFits
      <3>3. w.op.n <= MAXOPBLOCKS - 5
          BY <1>1, <1>7
      <3>4. /\ Cardinality(Merged(w.op)) \in Nat
            /\ Cardinality(Merged(w.op)) + 4 <= MAXOPBLOCKS
          BY <3>1, <3>3, RoomLeft
      <3>5. Cardinality(Merged(r.w.op)) <= Cardinality(Merged(w.op)) + 4
          BY <1>9, <1>12
      <3>6. Cardinality(Merged(r.w.op)) \in Nat
          BY <2>1, RoomFinite, FS_CardinalityType DEF IsWork
      <3>7. Cardinality(Merged(v.op)) <= MAXOPBLOCKS
          BY <2>3, <3>4, <3>5, <3>6, MapAssumption
      <3>8. Counted(v.op) /\ (v.op.logged = {} \/ v.op.logged \cap Bitmaps # {})
          BY <1>9, <2>3, <3>1 DEF IsResult
      <3> QED
          BY <3>7, <3>8
    <2>5. Message(t, r) = "none"
        BY <1>10, <1>12
    <2>6. /\ NextBlock(t, v) /\ lock' \in Threads \cup {Nobody} /\ durable' = durable /\ ncalls' = ncalls /\ err' = err
        BY <1>2, <1>3, <2>5 DEF TypeOK
    <2>7. IsWork(v) /\ FileOK(v.fs)
        BY <2>2, <2>3
    <2> HIDE DEF c
    <2> QED
        BY <1>3, <2>4, <2>6, <2>7, NextBlockKeeps
  <1> QED
      BY <1>11, <1>12

-----------------------------------------------------------------------------
(* The theorems.                                                           *)

LEMMA MapInit == Init => MapIndInv
  <1> SUFFICES ASSUME Init PROVE MapIndInv
      OBVIOUS
  <1>1. fs = EmptyFile /\ durable = OnDisk(EmptyFile)
      BY DEF Init
  <1>2. /\ fs.addrs = [i \in Slots |-> None] /\ fs.size = 0 /\ fs.daddrs = [i \in Slots |-> None] /\ fs.dsize = 0
        /\ fs.ind = [b \in Blocks |-> Zeros] /\ fs.used = {} /\ fs.whole = TRUE
      BY <1>1 DEF EmptyFile
  <1>3. fs \in Files
    <2>1. 0 \in 0 .. MAXFILE_BLOCKS /\ Zeros \in [Index -> Addresses] /\ None \in Addresses
        BY MaxFile, Rows DEF Addresses
    <2> QED
        BY <1>1, <2>1 DEF EmptyFile, Files, Contents
  <1>4. FileOK(fs) /\ Saved(fs)
    <2>1. Blocks # {}
        BY Numbers DEF Blocks
    <2>2. \E lev : IsTree(fs, lev)
        BY <1>2, TreeEmpty
    <2> QED
        BY <1>2, <1>3, <2>1, <2>2 DEF FileOK, Saved
  <1>5. DiskOK(durable)
      BY <1>1, <1>3, <1>4, CommitOK
  <1>6. /\ lock = Nobody /\ ncalls = 0 /\ err = "none"
        /\ pc = [t \in Threads |-> "idle"] /\ call = [t \in Threads |-> NoCall] /\ op = [t \in Threads |-> NewOp]
      BY DEF Init
  <1>7. TypeOK
    <2>1. 0 \in 0 .. MaxCalls
        BY MapAssumption
    <2> QED
        BY <1>3, <1>5, <1>6, <2>1, IdleOK DEF TypeOK, DiskOK, Labels, Calls
  <1>8. \A t \in Threads : InRange(pc[t], call[t], op[t]) /\ LogFits(pc[t], call[t], op[t])
      BY <1>6, IdleOK
  <1>9. CallsInRange /\ NoErrExit /\ InodeSaved /\ SpaceLeft
      BY <1>4, <1>5, <1>6, <1>8, CallsInRangeIs DEF NoErrExit, InodeSaved, Saved, SpaceLeft, FileOK, DiskOK
  <1> QED
      BY <1>4, <1>5, <1>7, <1>8, <1>9 DEF MapIndInv, MapInv

LEMMA MapStep == MapIndInv /\ [Next]_vars => MapIndInv'
  <1> SUFFICES ASSUME MapIndInv, [Next]_vars PROVE MapIndInv'
      OBVIOUS
  <1>1. CASE UNCHANGED vars
      BY <1>1 DEF vars, MapIndInv, MapInv, TypeOK, NoErrExit, CallsInRange, InodeSaved, SpaceLeft
  <1>2. CASE Finished
      BY <1>1, <1>2 DEF Finished
  <1>3. CASE Crash
    <2>1. Die /\ err' = err /\ ncalls < MaxCalls /\ ncalls' = ncalls + 1
        BY <1>3 DEF Crash
    <2>2. ncalls \in 0 .. MaxCalls /\ err \in {"none", "no more free space in disk!"}
        BY DEF MapIndInv, MapInv, TypeOK, NoErrExit
    <2>3. ncalls' \in 0 .. MaxCalls
      <3>1. ncalls \in 0 .. MaxCalls /\ MaxCalls \in Nat /\ ncalls < MaxCalls /\ ncalls' = ncalls + 1
          BY <2>1, <2>2, MapAssumption
      <3> QED
          BY <3>1
    <2> QED
        BY <2>1, <2>2, <2>3, DieKeeps
  <1>4. ASSUME NEW t \in Threads, Step(t) PROVE MapIndInv'
      BY <1>4, StartWriteKeeps, StartReadKeeps, TransferBlockKeeps, restart_op_onKeeps, StartTruncateKeeps,
         TruncateBlockKeeps, itrunc2size_log_op_restart_helperKeeps, UnlockKeeps, EndKeeps DEF Step
  <1>5. ASSUME NEW t \in Threads, NewCall(t) PROVE MapIndInv'
      BY <1>5, NewCallKeeps
  <1> QED
      BY <1>1, <1>2, <1>3, <1>4, <1>5 DEF Next

LEMMA MapInductive == Spec => []MapIndInv
  BY MapInit, MapStep, PTL DEF Spec

\* Truncations, writes and reads of inode.c leave sizes and addresses in range,
\* never run into "too many blocks in one op" of imap2blockno(), never take the
\* last block of the disk, and leave no inode unsaved when no call is at work:
\* for every number of threads, every geometry of the inode and every size of
\* the disk, with crashes at any moment.
THEOREM MapSound == Spec => []MapInv
  <1>1. MapIndInv => MapInv
      BY DEF MapIndInv
  <1> QED
      BY <1>1, MapInductive, PTL

\* What imap2blockno(), imap2blockno_free() and itrunc() do to the direct
\* addresses and the three trees keeps the map exact: the allocated blocks are
\* those that the map reaches, and no two positions lead to one block.
THEOREM MapIsExact == Spec => []MapExact
  <1>1. MapIndInv => MapExact
    <2> SUFFICES ASSUME MapIndInv, fs.whole
                 PROVE  /\ NoSharing(fs.addrs, fs.ind)
                        /\ {Follow([fs |-> fs], q) : q \in Mapped([fs |-> fs])} = fs.used
        BY DEF MapExact
    <2>1. fs \in Files /\ \E lev : IsTree(fs, lev)
        BY DEF MapIndInv, FileOK
    <2>2. PICK lev : IsTree(fs, lev)
        BY <2>1
    <2>3. HasEntries(fs) /\ fs.used \subseteq Blocks
        BY <2>1, FileEntries
    <2>4. NoSharing(fs.addrs, fs.ind)
        BY <2>2, <2>3, TreeNoSharing
    <2> DEFINE w == [fs |-> fs]
    <2>5. IsTreeOf(w, fs, lev)
        BY <2>2, <2>3 DEF IsTreeOf
    <2> HIDE DEF w
    <2>6. {Follow(w, q) : q \in Mapped(w)} = fs.used
        BY <2>5, TreeReached
    <2> QED
        BY <2>4, <2>6 DEF w
  <1> QED
      BY <1>1, MapInductive, PTL

\* Every commit, except those that itrunc2size() makes on its way, leaves an
\* inode whose map the diagnostic tool finds in order: no block leaked, none
\* reached that is free, none reached twice.
THEOREM CommitsAreWhole == Spec => []DurableConsistent
  <1>1. MapIndInv => DurableConsistent
    <2> SUFFICES ASSUME MapIndInv, durable.whole PROVE WholeOnDisk
        BY DEF DurableConsistent
    <2> DEFINE d == durable
    <2>1. d \in Disks /\ \E lev : IsTree(d, lev)
        BY DEF MapIndInv, DiskOK
    <2>2. PICK lev : IsTree(d, lev)
        BY <2>1
    <2>3. d.addrs \in [Slots -> Addresses] /\ d.ind \in [Blocks -> [Index -> Addresses]] /\ d.used \subseteq Blocks
        BY <2>1 DEF Disks, Contents
    <2>4. HasEntries(d)
        BY <2>3 DEF HasEntries, EntryIn, Entry, Nodes, EntriesOf
    <2>5. output_dinode(d) = d.used
        BY <2>2, <2>3, TreeReported
    <2>6. NoSharing(d.addrs, d.ind)
        BY <2>2, <2>3, <2>4, TreeNoSharing
    <2> QED
        BY <2>5, <2>6 DEF WholeOnDisk, count_leakblock
  <1> QED
      BY <1>1, MapInductive, PTL

\* If the bitmap is counted as one block, no operation of a read, a write or a
\* truncation logs more than the MAXOPBLOCKS blocks that begin_op() reserved
\* for it, the inode included: the margins of restart_op_on() and itrunc2size()
\* suffice although they count three writes for imap2blockno(), which can make
\* eleven.  It holds for a bitmap of any number of blocks.
THEOREM ReservationSuffices == Spec => []ReservationHolds
  <1>1. MapIndInv => ReservationHolds
    <2> SUFFICES ASSUME MapIndInv, NEW t \in Threads
                 PROVE  Cardinality((op[t].logged \ Bitmaps) \cup {IBLOCK}) + 1 <= MAXOPBLOCKS
        BY DEF ReservationHolds
    <2> DEFINE A == (op[t].logged \ Bitmaps) \cup {IBLOCK}
    <2>1. IsOp(op[t]) /\ LogFits(pc[t], call[t], op[t])
        BY ThreadParts
    <2>2. IsFiniteSet(A)
      <3>1. IsFiniteSet(op[t].logged \ Bitmaps)
          BY <2>1, FS_Subset DEF IsOp
      <3> QED
          BY <3>1, AddOne
    <2>3. Bitmap \notin A /\ Merged(op[t]) = A \cup {Bitmap}
        BY BitmapsApart DEF Merged
    <2> HIDE DEF A
    <2>4. Cardinality(A \cup {Bitmap}) = Cardinality(A) + 1
        BY <2>2, <2>3, FS_AddElement
    <2>5. Cardinality(A) + 1 <= MAXOPBLOCKS
        BY <2>1, <2>3, <2>4 DEF LogFits
    <2> QED
        BY <2>5 DEF A
  <1> QED
      BY <1>1, MapInductive, PTL

\* How far an operation can go beyond its reservation: by the blocks of the
\* bitmap other than one.  itrunc(), which frees all blocks of a file in one
\* operation, can log them all; with one bitmap block nobody exceeds it.
THEOREM ReservationBound ==
    Spec => [](\A t \in Threads :
                 Cardinality(op[t].logged \cup {IBLOCK}) <= MAXOPBLOCKS + Cardinality(Bitmaps) - 1)
  <1>1. MapIndInv => \A t \in Threads :
            Cardinality(op[t].logged \cup {IBLOCK}) <= MAXOPBLOCKS + Cardinality(Bitmaps) - 1
    <2> SUFFICES ASSUME MapIndInv, NEW t \in Threads
                 PROVE  Cardinality(op[t].logged \cup {IBLOCK}) <= MAXOPBLOCKS + Cardinality(Bitmaps) - 1
        OBVIOUS
    <2> DEFINE A == (op[t].logged \ Bitmaps) \cup {IBLOCK}
               L == op[t].logged \cup {IBLOCK}
    <2>1. IsOp(op[t]) /\ LogFits(pc[t], call[t], op[t])
        BY ThreadParts
    <2>2. IsFiniteSet(A) /\ IsFiniteSet(Bitmaps)
      <3>1. IsFiniteSet(op[t].logged \ Bitmaps)
          BY <2>1, FS_Subset DEF IsOp
      <3> QED
          BY <3>1, AddOne, FinitePositions
    <2>3. Bitmap \notin A /\ Merged(op[t]) = A \cup {Bitmap} /\ L \subseteq A \cup Bitmaps
        BY BitmapsApart DEF Merged
    <2> HIDE DEF A, L
    <2>4. Cardinality(A \cup {Bitmap}) = Cardinality(A) + 1
        BY <2>2, <2>3, FS_AddElement
    <2>5. Cardinality(A) + 1 <= MAXOPBLOCKS
        BY <2>1, <2>3, <2>4 DEF LogFits
    <2>6. /\ IsFiniteSet(A \cup Bitmaps)
          /\ Cardinality(A \cup Bitmaps) = Cardinality(A) + Cardinality(Bitmaps) - Cardinality(A \cap Bitmaps)
        BY <2>2, FS_Union
    <2>7. IsFiniteSet(L) /\ Cardinality(L) <= Cardinality(A \cup Bitmaps)
        BY <2>3, <2>6, FS_Subset
    <2>8. IsFiniteSet(A \cap Bitmaps)
        BY <2>2, FS_Intersection
    <2>9. /\ Cardinality(A) \in Nat /\ Cardinality(Bitmaps) \in Nat /\ Cardinality(L) \in Nat
          /\ Cardinality(A \cap Bitmaps) \in Nat /\ Cardinality(A \cup Bitmaps) \in Nat /\ MAXOPBLOCKS \in Nat
        BY <2>2, <2>6, <2>7, <2>8, FS_CardinalityType, Numbers
    <2>10. Cardinality(L) <= MAXOPBLOCKS + Cardinality(Bitmaps) - 1
        BY <2>5, <2>6, <2>7, <2>9
    <2> QED
        BY <2>10 DEF L
  <1> QED
      BY <1>1, MapInductive, PTL
=============================================================================
