-------------------------- MODULE InodeTableProofs --------------------------
(***************************************************************************)
(* The inode table of inode.c keeps what it promises for any number of     *)
(* threads, inodes and entries, however calls look up, create, unlink and  *)
(* let go of the same inode side by side.                                  *)
(***************************************************************************)
EXTENDS InodeTable, FiniteSets, FiniteSetTheorems, TLAPS

-----------------------------------------------------------------------------
(* The first free slot, and counts of one.                                 *)

\* A set of numbers that is not empty has a least member: what a loop from
\* zero upwards finds first.
LEMMA NatMinimum ==
    ASSUME NEW S \in SUBSET Nat, S # {}
    PROVE  \E m \in S : \A k \in S : m <= k
  <1>1. S \subseteq Nat /\ S # {}
      OBVIOUS
  <1>2. \A x, y \in Nat : <<x, y>> \in OpToRel(<, Nat) <=> x < y
      BY DEF OpToRel
  <1>3. PICK R : IsWellFoundedOn(R, Nat) /\ \A x, y \in Nat : <<x, y>> \in R <=> x < y
      BY <1>2, NatLessThanWellFounded, Zenon
  <1>4. \A A : IsWellFoundedOn(R, A) =>
            \A T : T \subseteq A /\ T # {} => \E x \in T : \A y \in T : ~ (<<y, x>> \in R)
      BY ONLY WFMin, Zenon
  <1>5. IsWellFoundedOn(R, Nat)
      BY <1>3
  <1>6. PICK m \in S : \A k \in S : ~ (<<k, m>> \in R)
      BY <1>1, <1>4, <1>5, Zenon
  <1>7. \A k \in S : ~ (k < m)
      BY <1>1, <1>3, <1>6, Zenon
  <1> QED
      BY <1>1, <1>7

\* A finite set with one member has no other.
LEMMA OneMember ==
    ASSUME NEW S, IsFiniteSet(S), Cardinality(S) = 1, NEW x \in S, NEW y \in S
    PROVE  x = y
  <1>1. Cardinality(S \ {x}) = 0 /\ IsFiniteSet(S \ {x})
      BY FS_RemoveElement
  <1>2. S \ {x} = {}
      BY <1>1, FS_EmptySet
  <1> QED
      BY <1>2

-----------------------------------------------------------------------------
(* The inductive invariant.                                                *)

\* The structure of the table, the exact reference counts, and the inodes that
\* threads rely on.
Inv == TableInv /\ RefExact /\ ReferenceKeepsInode

\* The threads with a pointer to an entry.
Pointers(s) == {t \in Threads : ip[t] = s}

-----------------------------------------------------------------------------
(* Lemmas about the operators.                                             *)

\* What the loops of iget() find first is an entry that they look for.
LEMMA LeastIsMember == ASSUME NEW S \in SUBSET Slots, S # {} PROVE Least(S) \in S
  <1>1. S \in SUBSET Nat
      BY DEF Slots
  <1>2. \E m \in S : \A k \in S : m <= k
      BY <1>1, NatMinimum
  <1> QED
      BY <1>2 DEF Least

\* The entries in use are entries.
LEMMA EntriesAreSlots == TypeOK => 1 .. ninode \subseteq Slots
  BY TableAssumption DEF TypeOK, Slots

\* The number of pointers to an entry is a number.
LEMMA PointersFinite == \A s : IsFiniteSet(Pointers(s)) /\ Cardinality(Pointers(s)) \in Nat
  <1> SUFFICES ASSUME NEW s PROVE IsFiniteSet(Pointers(s)) /\ Cardinality(Pointers(s)) \in Nat
      OBVIOUS
  <1>1. IsFiniteSet(Pointers(s))
      BY TableAssumption, FS_Subset DEF Pointers
  <1> QED
      BY <1>1, FS_CardinalityType

\* A count of zero: nobody points to the entry.
LEMMA Unpointed ==
    ASSUME RefExact, NEW s \in Slots, ref[s] = 0
    PROVE  \A t \in Threads : ip[t] # s
  <1>1. Cardinality(Pointers(s)) = 0
      BY DEF RefExact, Pointers
  <1>2. Pointers(s) = {}
      BY <1>1, PointersFinite, FS_EmptySet
  <1> QED
      BY <1>2 DEF Pointers

\* A count above zero: somebody does.
LEMMA PointedBy ==
    ASSUME RefExact, NEW s \in Slots, ref[s] > 0
    PROVE  \E t \in Threads : ip[t] = s
  <1>1. Cardinality(Pointers(s)) # 0
      BY PointersFinite DEF RefExact, Pointers
  <1>2. Pointers(s) # {}
      BY <1>1, FS_EmptySet
  <1> QED
      BY <1>2 DEF Pointers

\* The entry that a thread points to is counted.
LEMMA Counted ==
    ASSUME TypeOK, RefExact, NEW t \in Threads, ip[t] \in Slots
    PROVE  ref[ip[t]] > 0
  <1>1. ref[ip[t]] \in Nat
      BY DEF TypeOK
  <1>2. ref[ip[t]] # 0
      BY Unpointed
  <1> QED
      BY <1>1, <1>2

\* The last reference: nobody else points to the entry.
LEMMA SolePointer ==
    ASSUME RefExact, NEW s \in Slots, ref[s] = 1, NEW t \in Threads, ip[t] = s,
           NEW u \in Threads, ip[u] = s
    PROVE  u = t
  <1>1. Cardinality(Pointers(s)) = 1 /\ t \in Pointers(s) /\ u \in Pointers(s)
      BY DEF RefExact, Pointers
  <1> QED
      BY <1>1, PointersFinite, OneMember

\* Threads that point to entries of the same inode point to the same entry.
LEMMA SameEntry ==
    ASSUME Inv, NEW t \in Threads, NEW u \in Threads, want[t] = want[u],
           pc[t] \in Pointing, pc[u] \in Pointing
    PROVE  ip[t] = ip[u]
  <1>1. /\ ip[t] \in Slots /\ inum[ip[t]] = want[t]
        /\ ip[u] \in Slots /\ inum[ip[u]] = want[u]
      BY EntriesAreSlots DEF Inv, TableInv, PointersGood
  <1>2. ref[ip[t]] > 0 /\ ref[ip[u]] > 0
      BY <1>1, Counted DEF Inv, TableInv
  <1> QED
      BY <1>1, <1>2 DEF Inv, TableInv, OneEntryPerInode

\* A thread that begins to point to entry e is one pointer more to e alone.
LEMMA PointersAdded ==
    ASSUME TypeOK, NEW t \in Threads, NEW e \in Slots, ip[t] = 0,
           ip' = [ip EXCEPT ![t] = e], NEW s \in Slots
    PROVE  Cardinality(Pointers(s)') = Cardinality(Pointers(s)) + (IF s = e THEN 1 ELSE 0)
  <1>0. s # 0 /\ e # 0
      BY DEF Slots
  <1>1. CASE s = e
      <2>1. Pointers(s)' = Pointers(s) \cup {t} /\ t \notin Pointers(s)
          BY <1>0, <1>1 DEF TypeOK, Pointers
      <2> QED
          BY <1>1, <2>1, PointersFinite, FS_AddElement
  <1>2. CASE s # e
      <2>1. Pointers(s)' = Pointers(s)
          BY <1>0, <1>2 DEF TypeOK, Pointers
      <2> QED
          BY <1>2, <2>1, PointersFinite
  <1> QED
      BY <1>1, <1>2

\* A thread that forgets its pointer is one pointer less to its entry.
LEMMA PointersRemoved ==
    ASSUME TypeOK, NEW t \in Threads, ip[t] \in Slots,
           ip' = [ip EXCEPT ![t] = 0], NEW s \in Slots
    PROVE  /\ Cardinality(Pointers(s)') = Cardinality(Pointers(s)) - (IF s = ip[t] THEN 1 ELSE 0)
           /\ Cardinality(Pointers(s)') \in Nat
  <1>0. s # 0
      BY DEF Slots
  <1>1. CASE s = ip[t]
      <2>1. Pointers(s)' = Pointers(s) \ {t} /\ t \in Pointers(s)
          BY <1>0, <1>1 DEF TypeOK, Pointers
      <2>2. IsFiniteSet(Pointers(s) \ {t})
            /\ Cardinality(Pointers(s) \ {t}) = Cardinality(Pointers(s)) - 1
          BY <2>1, PointersFinite, FS_RemoveElement
      <2>3. Cardinality(Pointers(s) \ {t}) \in Nat
          BY <2>2, FS_CardinalityType
      <2> QED
          BY <1>1, <2>1, <2>2, <2>3
  <1>2. CASE s # ip[t]
      <2>1. Pointers(s)' = Pointers(s)
          BY <1>0, <1>2 DEF TypeOK, Pointers
      <2> QED
          BY <1>2, <2>1, PointersFinite
  <1> QED
      BY <1>1, <1>2

-----------------------------------------------------------------------------
(* One lemma per action.                                                   *)

\* inode_init() establishes the invariant.
LEMMA InitTable == Init => Inv
  <1> SUFFICES ASSUME Init PROVE Inv
      OBVIOUS
  <1>1. TypeOK
      <2>1. NINODE_INIT \in Slots
          BY TableAssumption DEF Slots
      <2>2. 0 \in 0 .. (NINODES + 1) /\ 0 \in 0 .. (NGen - 1)
          BY TableAssumption
      <2> QED
          BY <2>1, <2>2 DEF Init, TypeOK, Labels, Calls, Errors
  <1>2. OneEntryPerInode /\ NoUseAfterFree /\ CopyExact
      BY DEF Init, OneEntryPerInode, NoUseAfterFree, CopyExact
  <1>3. PointersGood /\ LinksHeld /\ CreatorAlone /\ ReferenceKeepsInode
      BY DEF Init, PointersGood, LinksHeld, CreatorAlone, ReferenceKeepsInode, Pointing, Relying
  <1>4. LockHeld
      BY TableAssumption DEF Init, LockHeld
  <1>5. RefExact
      <2> SUFFICES ASSUME NEW s \in Slots PROVE ref[s] = Cardinality(Pointers(s))
          BY DEF RefExact, Pointers
      <2>1. Pointers(s) = {}
          BY DEF Init, Pointers, Slots
      <2> QED
          BY <2>1, FS_EmptySet DEF Init
  <1> QED
      BY <1>1, <1>2, <1>3, <1>4, <1>5 DEF Inv, TableInv

\* A name is found: its inode is allocated and no creator's.
LEMMA dirlookupKeepsInv ==
    ASSUME NEW t \in Threads, NEW i \in Inums, Inv, dirlookup(t, i)
    PROVE  Inv'
  <1> USE DEF diskVars, tableVars, Goto
  <1>0. TypeOK /\ pc[t] = "idle" /\ i \in linked /\ dir = Nobody /\ ip[t] = 0
      BY DEF Inv, TableInv, PointersGood, Pointing, dirlookup
  <1>1. TypeOK'
      <2>1. i \in 0 .. (NINODES + 1)
          BY TableAssumption DEF Inums
      <2> QED
          BY <1>0, <2>1 DEF TypeOK, dirlookup, Labels, Calls
  <1>2. \A s \in Threads : s # t =>
            pc'[s] = pc[s] /\ want'[s] = want[s] /\ call'[s] = call[s] /\ seen'[s] = seen[s]
      BY <1>0 DEF TypeOK, dirlookup
  <1>3. pc'[t] = "iget" /\ want'[t] = i /\ call'[t] = "use" /\ seen'[t] = gen[i]
      BY <1>0 DEF TypeOK, dirlookup
  <1>4. dtype[i] = "file"
      BY <1>0 DEF Inv, TableInv, LinksHeld
  <1>5. OneEntryPerInode' /\ NoUseAfterFree' /\ RefExact'
      BY DEF Inv, TableInv, OneEntryPerInode, NoUseAfterFree, RefExact, dirlookup
  <1>6. PointersGood' /\ LockHeld'
      BY <1>0, <1>2, <1>3 DEF Inv, TableInv, PointersGood, LockHeld, Pointing, dirlookup
  <1>7. CopyExact'
      <2>1. \A s \in Slots : Freed(s)' = Freed(s)
          BY <1>0, <1>2, <1>3 DEF Freed, dirlookup
      <2> QED
          BY <2>1 DEF Inv, TableInv, CopyExact, dirlookup
  <1>8. LinksHeld'
      BY <1>0, <1>2, <1>3, TableAssumption DEF Inv, TableInv, LinksHeld, dirlookup
  <1>9. CreatorAlone'
      BY <1>0, <1>2, <1>3 DEF Inv, TableInv, CreatorAlone, Alone, Relying, dirlookup
  <1>10. ReferenceKeepsInode'
      BY <1>0, <1>2, <1>3, <1>4 DEF Inv, ReferenceKeepsInode, dirlookup
  <1> QED
      BY <1>1, <1>5, <1>6, <1>7, <1>8, <1>9, <1>10 DEF Inv, TableInv

\* myfuse_create() begins.
LEMMA CreateKeepsInv ==
    ASSUME NEW t \in Threads, Inv, Create(t)
    PROVE  Inv'
  <1> USE DEF diskVars, tableVars, Goto
  <1>0. TypeOK /\ pc[t] = "idle" /\ ip[t] = 0
      BY DEF Inv, TableInv, PointersGood, Pointing, Create
  <1>1. TypeOK'
      <2>1. 1 \in 0 .. (NINODES + 1)
          BY TableAssumption
      <2> QED
          BY <1>0, <2>1 DEF TypeOK, Create, Labels, Calls
  <1>2. \A s \in Threads : s # t => pc'[s] = pc[s] /\ want'[s] = want[s] /\ call'[s] = call[s]
      BY <1>0 DEF TypeOK, Create
  <1>3. pc'[t] = "ialloc" /\ call'[t] = "create"
      BY <1>0 DEF TypeOK, Create
  <1>5. OneEntryPerInode' /\ NoUseAfterFree' /\ RefExact'
      BY DEF Inv, TableInv, OneEntryPerInode, NoUseAfterFree, RefExact, Create
  <1>6. PointersGood' /\ LockHeld'
      BY <1>0, <1>2, <1>3 DEF Inv, TableInv, PointersGood, LockHeld, Pointing, Create
  <1>7. CopyExact'
      <2>1. \A s \in Slots : Freed(s)' = Freed(s)
          BY <1>0, <1>2, <1>3 DEF Freed, Create
      <2> QED
          BY <2>1 DEF Inv, TableInv, CopyExact, Create
  <1>8. LinksHeld'
      BY <1>0, <1>2, <1>3 DEF Inv, TableInv, LinksHeld, Create
  <1>9. CreatorAlone'
      BY <1>0, <1>2, <1>3 DEF Inv, TableInv, CreatorAlone, Alone, Relying, Create
  <1>10. ReferenceKeepsInode'
      BY <1>0, <1>2, <1>3 DEF Inv, ReferenceKeepsInode, Create
  <1> QED
      BY <1>1, <1>5, <1>6, <1>7, <1>8, <1>9, <1>10 DEF Inv, TableInv

\* ialloc() takes an inode that nobody relies on, or looks at the next one.
LEMMA iallocKeepsInv ==
    ASSUME NEW t \in Threads, Inv, ialloc(t)
    PROVE  Inv'
  <1> USE DEF tableVars, Goto
  <1> DEFINE i == want[t]
  <1>0. TypeOK /\ pc[t] = "ialloc" /\ call[t] = "create" /\ ip[t] = 0 /\ i \in Inums
      BY DEF Inv, TableInv, PointersGood, LinksHeld, Pointing, ialloc
  <1>1. OneEntryPerInode' /\ NoUseAfterFree' /\ RefExact'
      BY DEF Inv, TableInv, OneEntryPerInode, NoUseAfterFree, RefExact, ialloc
  <1>2. CASE dtype[i] = "unused"
      <2>1. /\ dtype' = [dtype EXCEPT ![i] = "file"]
            /\ dnlink' = [dnlink EXCEPT ![i] = 0]
            /\ gen' = [gen EXCEPT ![i] = (@ + 1) % NGen]
            /\ seen' = [seen EXCEPT ![t] = gen'[i]]
            /\ pc' = [pc EXCEPT ![t] = "iget"]
            /\ UNCHANGED <<want, linked, dir, ninode, inum, ref, lock, valid, type, nlink, call, ip, err>>
          BY <1>2 DEF ialloc
      <2>2. gen' \in [Inums -> 0 .. (NGen - 1)]
          <3>1. gen[i] \in Nat
              BY <1>0 DEF TypeOK
          <3>2. (gen[i] + 1) % NGen \in 0 .. (NGen - 1)
              BY <3>1, TableAssumption
          <3> QED
              BY <1>0, <2>1, <3>2 DEF TypeOK
      <2>3. TypeOK'
          <3>1. gen'[i] \in 0 .. (NGen - 1)
              BY <1>0, <2>2
          <3> QED
              BY <1>0, <2>1, <2>2, <3>1 DEF TypeOK, Labels
      <2>4. \A s \in Threads : s # t => pc'[s] = pc[s] /\ seen'[s] = seen[s]
          BY <1>0, <2>1 DEF TypeOK
      <2>5. pc'[t] = "iget" /\ seen'[t] = gen'[i] /\ dtype'[i] = "file" /\ dnlink'[i] = 0
          BY <1>0, <2>1 DEF TypeOK
      <2>6. \A j \in Inums : j # i => dtype'[j] = dtype[j] /\ dnlink'[j] = dnlink[j] /\ gen'[j] = gen[j]
          BY <1>0, <2>1 DEF TypeOK
      <2>7. i \notin linked
          BY <1>0, <1>2 DEF Inv, TableInv, LinksHeld
      <2>8. \A s \in Threads : pc[s] \in Relying => want[s] # i
          BY <1>2 DEF Inv, ReferenceKeepsInode, Relying
      <2>9. PointersGood' /\ LockHeld'
          BY <1>0, <2>1, <2>4, <2>5 DEF Inv, TableInv, PointersGood, LockHeld, Pointing
      <2>10. CopyExact'
          <3> SUFFICES ASSUME NEW s \in Slots, ref[s] > 0, valid[s]
                       PROVE  /\ nlink[s] = dnlink'[inum[s]]
                              /\ IF Freed(s)' THEN nlink[s] = 0
                                 ELSE type[s] = "file" /\ dtype'[inum[s]] = "file"
              BY <2>1 DEF CopyExact
          <3>1. Freed(s)' = Freed(s)
              BY <1>0, <2>1, <2>4, <2>5 DEF Freed
          <3>2. PICK u \in Threads : ip[u] = s
              BY PointedBy DEF Inv
          <3>3. inum[s] \in Inums
              BY <3>2, EntriesAreSlots DEF Inv, TableInv, PointersGood, Slots
          <3>4. CASE inum[s] = i
              BY <1>2, <2>5, <3>1, <3>4 DEF Inv, TableInv, CopyExact
          <3>5. CASE inum[s] # i
              BY <2>6, <3>1, <3>3, <3>5 DEF Inv, TableInv, CopyExact
          <3> QED
              BY <3>4, <3>5
      <2>11. LinksHeld'
          <3>1. \A j \in Inums : dnlink'[j] \in {0, 1}
              BY <2>5, <2>6 DEF Inv, TableInv, LinksHeld
          <3>2. \A j \in linked : dtype'[j] = "file" /\ dnlink'[j] = 1
              BY <1>0, <2>6, <2>7 DEF Inv, TableInv, LinksHeld, TypeOK
          <3> QED
              BY <1>0, <2>1, <2>4, <2>5, <3>1, <3>2 DEF Inv, TableInv, LinksHeld
      <2>12. CreatorAlone'
          <3>1. Alone(t)'
              BY <2>1, <2>4, <2>7, <2>8 DEF Alone
          <3>2. ASSUME NEW s \in Threads, s # t, pc[s] \in Relying, Alone(s) PROVE Alone(s)'
              BY <2>1, <2>4, <2>5, <2>8, <3>2 DEF Alone
          <3> QED
              BY <2>1, <2>4, <2>5, <3>1, <3>2 DEF Inv, TableInv, CreatorAlone, Relying
      <2>13. ReferenceKeepsInode'
          <3>1. \A s \in Threads : pc[s] \in Relying => want[s] \in Inums
              BY DEF Inv, TableInv, PointersGood, Relying, Pointing
          <3> QED
              BY <1>0, <2>1, <2>4, <2>5, <2>6, <2>8, <3>1 DEF Inv, ReferenceKeepsInode, Relying
      <2> QED
          BY <1>1, <2>3, <2>9, <2>10, <2>11, <2>12, <2>13 DEF Inv, TableInv
  <1>3. CASE dtype[i] # "unused"
      <2>1. /\ want' = [want EXCEPT ![t] = @ + 1]
            /\ UNCHANGED <<dtype, dnlink, gen, seen, pc, linked, dir, ninode, inum, ref, lock,
                           valid, type, nlink, call, ip, err>>
          BY <1>3 DEF ialloc
      <2>2. TypeOK'
          <3>1. i + 1 \in 0 .. (NINODES + 1)
              BY <1>0, TableAssumption DEF Inums
          <3> QED
              BY <1>0, <2>1, <3>1 DEF TypeOK
      <2>3. \A s \in Threads : s # t => want'[s] = want[s]
          BY <1>0, <2>1 DEF TypeOK
      <2>4. PointersGood' /\ LockHeld'
          BY <1>0, <2>1, <2>3 DEF Inv, TableInv, PointersGood, LockHeld, Pointing
      <2>5. CopyExact' /\ LinksHeld'
          BY <1>0, <2>1, <2>3 DEF Inv, TableInv, CopyExact, Freed, LinksHeld
      <2>6. CreatorAlone'
          BY <1>0, <2>1, <2>3 DEF Inv, TableInv, CreatorAlone, Alone, Relying
      <2>7. ReferenceKeepsInode'
          BY <1>0, <2>1, <2>3 DEF Inv, ReferenceKeepsInode
      <2> QED
          BY <1>1, <2>2, <2>4, <2>5, <2>6, <2>7 DEF Inv, TableInv
  <1> QED
      BY <1>2, <1>3

\* The disk has no more inodes: only err changes.
LEMMA ialloc_failsKeepsInv ==
    ASSUME NEW t \in Threads, Inv, ialloc_fails(t)
    PROVE  Inv'
  <1> USE DEF diskVars, tableVars, threadVars
  <1>1. TypeOK' /\ NoUseAfterFree'
      BY DEF Inv, TableInv, TypeOK, NoUseAfterFree, ialloc_fails, Errors
  <1>2. OneEntryPerInode' /\ RefExact' /\ ReferenceKeepsInode'
      BY DEF Inv, TableInv, OneEntryPerInode, RefExact, ReferenceKeepsInode, ialloc_fails
  <1>3. PointersGood' /\ LockHeld' /\ LinksHeld'
      <2>1. PointersGood'
          BY DEF Inv, TableInv, PointersGood, ialloc_fails
      <2>2. LockHeld'
          BY DEF Inv, TableInv, LockHeld, ialloc_fails
      <2>3. LinksHeld'
          BY DEF Inv, TableInv, LinksHeld, ialloc_fails
      <2> QED
          BY <2>1, <2>2, <2>3
  <1>4. CopyExact' /\ CreatorAlone'
      BY DEF Inv, TableInv, CopyExact, Freed, CreatorAlone, Alone, ialloc_fails
  <1> QED
      BY <1>1, <1>2, <1>3, <1>4 DEF Inv, TableInv

\* iget() ends with a pointer to entry e, which was that of the inode or free.
LEMMA ReferKeepsInv ==
    ASSUME NEW t \in Threads, Inv, pc[t] = "iget", NEW e \in 1 .. ninode, Refer(t, e),
           ref' = [ref EXCEPT ![e] = @ + 1], inum' = [inum EXCEPT ![e] = want[t]],
           \/ inum[e] = want[t] /\ ref[e] > 0 /\ valid' = valid
           \/ Hits(want[t]) = {} /\ ref[e] = 0 /\ valid' = [valid EXCEPT ![e] = FALSE],
           UNCHANGED <<diskVars, ninode, lock, type, nlink, call, want, err, seen>>
    PROVE  Inv'
  <1> USE DEF diskVars, Goto
  <1>0. TypeOK /\ ip[t] = 0 /\ want[t] \in Inums /\ e \in Slots
      BY EntriesAreSlots DEF Inv, TableInv, PointersGood, Pointing
  <1>1. TypeOK'
      <2>1. ref' \in [Slots -> Nat] /\ inum' \in [Slots -> Inums \cup {0}]
          BY <1>0 DEF TypeOK
      <2>3. valid' \in [Slots -> BOOLEAN]
          BY <1>0 DEF TypeOK
      <2>2. ip' \in [Threads -> Slots \cup {0}] /\ pc' \in [Threads -> Labels]
            /\ dir' \in Threads \cup {Nobody}
          BY <1>0 DEF TypeOK, Refer, Labels
      <2> QED
          BY <1>0, <2>1, <2>2, <2>3 DEF TypeOK
  <1>2. \A s \in Threads : s # t => pc'[s] = pc[s] /\ ip'[s] = ip[s]
      BY <1>0 DEF TypeOK, Refer
  <1>3. pc'[t] = "ref" /\ ip'[t] = e
      BY <1>0 DEF TypeOK, Refer
  <1>4. \A s \in Slots : s # e => ref'[s] = ref[s] /\ inum'[s] = inum[s] /\ valid'[s] = valid[s]
      BY <1>0 DEF TypeOK
  <1>5. ref'[e] = ref[e] + 1 /\ inum'[e] = want[t] /\ ref[e] \in Nat
      BY <1>0 DEF TypeOK
  <1>6. \A s \in Threads : pc[s] \in Pointing =>
            /\ ip[s] \in Slots
            /\ ip[s] = e => inum[e] = want[t] /\ valid' = valid
      <2> SUFFICES ASSUME NEW s \in Threads, pc[s] \in Pointing
                   PROVE  /\ ip[s] \in Slots
                          /\ ip[s] = e => inum[e] = want[t] /\ valid' = valid
          OBVIOUS
      <2>1. ip[s] \in Slots
          BY <1>0, EntriesAreSlots DEF Inv, TableInv, PointersGood
      <2>2. ref[ip[s]] > 0
          BY <1>0, <2>1, Counted DEF Inv
      <2> QED
          BY <2>1, <2>2
  <1>7. OneEntryPerInode'
      <2>1. \A s \in Slots : ref[s] > 0 => s \in 1 .. ninode
          <3> SUFFICES ASSUME NEW s \in Slots, ref[s] > 0 PROVE s \in 1 .. ninode
              OBVIOUS
          <3>1. PICK u \in Threads : ip[u] = s
              BY PointedBy DEF Inv
          <3> QED
              BY <3>1 DEF Inv, TableInv, PointersGood, Slots
      <2>2. \A s \in Slots : s # e /\ ref'[s] > 0 => inum'[s] # want[t]
          BY <1>0, <1>4, <2>1 DEF Inv, TableInv, OneEntryPerInode, Hits
      <2> QED
          BY <1>4, <1>5, <2>2 DEF Inv, TableInv, OneEntryPerInode
  <1>8. PointersGood'
      BY <1>0, <1>2, <1>3, <1>4, <1>5, <1>6 DEF Inv, TableInv, PointersGood, Pointing
  <1>9. LockHeld'
      <2>1. \A s \in Slots, u \in Threads :
                lock[s] = u <=> pc'[u] \in {"load", "held", "free", "drop"} /\ ip'[u] = s
          BY <1>2, <1>3 DEF Inv, TableInv, LockHeld
      <2>2. \A u \in Threads : pc'[u] \in {"held", "free", "drop"} => valid'[ip'[u]]
          BY <1>2, <1>3, <1>4, <1>6 DEF Inv, TableInv, LockHeld, Pointing
      <2> QED
          BY <2>1, <2>2 DEF LockHeld
  <1>10. CopyExact'
      <2> SUFFICES ASSUME NEW s \in Slots, ref'[s] > 0, valid'[s]
                   PROVE  /\ nlink[s] = dnlink[inum'[s]]
                          /\ IF Freed(s)' THEN nlink[s] = 0
                             ELSE type[s] = "file" /\ dtype[inum'[s]] = "file"
          BY DEF CopyExact
      <2>1. Freed(s)' = Freed(s)
          BY <1>2, <1>3 DEF Freed
      <2>2. CASE s # e
          BY <1>4, <2>1, <2>2 DEF Inv, TableInv, CopyExact
      <2>3. CASE s = e
          <3>1. inum[e] = want[t] /\ ref[e] > 0 /\ valid[e]
              BY <1>0, <2>3 DEF TypeOK
          <3> QED
              BY <1>5, <2>1, <2>3, <3>1 DEF Inv, TableInv, CopyExact
      <2> QED
          BY <2>2, <2>3
  <1>11. LinksHeld'
      <2>1. \A s \in Threads : s # t /\ dir = s => dir' = s
          BY DEF Refer
      <2>2. call[t] # "unlink"
          BY DEF Inv, TableInv, LinksHeld
      <2> QED
          BY <1>2, <1>3, <2>1, <2>2 DEF Inv, TableInv, LinksHeld
  <1>12. CreatorAlone'
      <2>1. \A s \in Threads : pc'[s] \in Relying <=> pc[s] \in Relying
          BY <1>2, <1>3 DEF Relying
      <2>2. \A s \in Threads : Alone(s)' = Alone(s)
          BY <2>1 DEF Alone
      <2> QED
          BY <1>2, <1>3, <2>1, <2>2 DEF Inv, TableInv, CreatorAlone
  <1>13. ReferenceKeepsInode'
      BY <1>0, <1>2, <1>3, <1>4, <1>5, <1>6 DEF Inv, ReferenceKeepsInode, Pointing,
         TableInv, PointersGood
  <1>14. RefExact'
      <2> SUFFICES ASSUME NEW s \in Slots PROVE ref'[s] = Cardinality(Pointers(s)')
          BY DEF RefExact, Pointers
      <2>1. ref[s] = Cardinality(Pointers(s))
          BY DEF Inv, RefExact, Pointers
      <2>2. Cardinality(Pointers(s)') = Cardinality(Pointers(s)) + (IF s = e THEN 1 ELSE 0)
          BY <1>0, PointersAdded DEF Refer
      <2> QED
          BY <1>4, <1>5, <2>1, <2>2, PointersFinite
  <1>15. NoUseAfterFree'
      BY DEF Inv, TableInv, NoUseAfterFree
  <1> QED
      BY <1>1, <1>7, <1>8, <1>9, <1>10, <1>11, <1>12, <1>13, <1>14, <1>15 DEF Inv, TableInv

\* iget() finds the entry of the inode or takes an empty one.
LEMMA igetKeepsInv ==
    ASSUME NEW t \in Threads, Inv, iget(t)
    PROVE  Inv'
  <1>0. TypeOK /\ pc[t] = "iget" /\ 1 .. ninode \subseteq Slots
      BY EntriesAreSlots DEF Inv, TableInv, iget
  <1>1. UNCHANGED <<diskVars, ninode, lock, type, nlink, call, want, err, seen>>
      BY DEF iget
  <1>2. CASE Hits(want[t]) # {} /\ AddRef(Least(Hits(want[t]))) /\ Refer(t, Least(Hits(want[t])))
             /\ UNCHANGED <<inum, valid>>
      <2> DEFINE e == Least(Hits(want[t]))
      <2>1. e \in Hits(want[t])
          BY <1>0, <1>2, LeastIsMember DEF Hits
      <2>2. e \in 1 .. ninode /\ inum[e] = want[t] /\ ref[e] > 0
          BY <2>1 DEF Hits
      <2>3. inum' = [inum EXCEPT ![e] = want[t]]
          BY <1>0, <1>2, <2>2 DEF TypeOK
      <2>4. ref' = [ref EXCEPT ![e] = @ + 1] /\ Refer(t, e) /\ valid' = valid
          BY <1>2 DEF AddRef
      <2> HIDE DEF e
      <2> QED
          BY <1>0, <1>1, <2>2, <2>3, <2>4, ReferKeepsInv
  <1>3. CASE /\ Hits(want[t]) = {} /\ Empty # {}
             /\ inum' = [inum EXCEPT ![Least(Empty)] = want[t]]
             /\ ref' = [ref EXCEPT ![Least(Empty)] = 1]
             /\ valid' = [valid EXCEPT ![Least(Empty)] = FALSE]
             /\ Refer(t, Least(Empty))
      <2> DEFINE e == Least(Empty)
      <2>1. e \in Empty
          BY <1>0, <1>3, LeastIsMember DEF Empty
      <2>2. e \in 1 .. ninode /\ ref[e] = 0
          BY <2>1 DEF Empty
      <2>3. inum' = [inum EXCEPT ![e] = want[t]] /\ ref' = [ref EXCEPT ![e] = 1]
            /\ valid' = [valid EXCEPT ![e] = FALSE] /\ Refer(t, e)
          BY <1>3
      <2> HIDE DEF e
      <2>4. ref' = [ref EXCEPT ![e] = @ + 1]
          BY <1>0, <2>2, <2>3 DEF TypeOK
      <2> QED
          BY <1>0, <1>1, <1>3, <2>2, <2>3, <2>4, ReferKeepsInv
  <1> QED
      BY <1>2, <1>3 DEF iget

\* A table that grows keeps its entries.
LEMMA itable_growKeepsInv ==
    ASSUME NEW t \in Threads, Inv, itable_grow(t)
    PROVE  Inv'
  <1> USE DEF diskVars, threadVars
  <1>0. ninode \in Slots /\ ninode' = 2 * ninode /\ 2 * ninode <= MaxSlots
      BY DEF Inv, TableInv, TypeOK, itable_grow
  <1>1. ninode' \in Slots /\ 1 .. ninode \subseteq 1 .. ninode'
      BY <1>0, TableAssumption DEF Slots
  <1>2. TypeOK'
      BY <1>1 DEF Inv, TableInv, TypeOK, itable_grow
  <1>3. PointersGood'
      BY <1>1 DEF Inv, TableInv, PointersGood, itable_grow
  <1>4. LockHeld'
      BY DEF Inv, TableInv, LockHeld, itable_grow
  <1>5. LinksHeld'
      BY DEF Inv, TableInv, LinksHeld, itable_grow
  <1>6. CopyExact' /\ CreatorAlone'
      BY DEF Inv, TableInv, CopyExact, Freed, CreatorAlone, Alone, itable_grow
  <1>7. OneEntryPerInode' /\ NoUseAfterFree' /\ RefExact' /\ ReferenceKeepsInode'
      BY DEF Inv, TableInv, OneEntryPerInode, NoUseAfterFree, RefExact, ReferenceKeepsInode, itable_grow
  <1> QED
      BY <1>2, <1>3, <1>4, <1>5, <1>6, <1>7 DEF Inv, TableInv

\* What a step cannot disturb that leaves the pointers, the numbers and the
\* counts alone and moves a thread between places where it has a pointer.
LEMMA PointersKept ==
    ASSUME Inv, NEW t \in Threads, pc[t] \in Pointing, NEW l \in Pointing,
           pc' = [pc EXCEPT ![t] = l] \/ pc' = pc,
           UNCHANGED <<ninode, inum, ref, ip, want>>
    PROVE  PointersGood' /\ OneEntryPerInode' /\ RefExact'
  <1>1. \A s \in Threads : pc'[s] \in Pointing <=> pc[s] \in Pointing
      BY DEF Inv, TableInv, TypeOK
  <1>2. \A s \in Threads : pc'[s] \in Pointing \cup {"iget"} => pc[s] \in Pointing \cup {"iget"}
      BY DEF Inv, TableInv, TypeOK
  <1>3. PointersGood'
      BY <1>1, <1>2 DEF Inv, TableInv, PointersGood
  <1>4. OneEntryPerInode' /\ RefExact'
      BY DEF Inv, TableInv, OneEntryPerInode, RefExact
  <1> QED
      BY <1>3, <1>4

\* What the holder of the lock of an entry knows of it.
LEMMA Holding ==
    ASSUME Inv, NEW t \in Threads, pc[t] \in {"load", "held", "free", "drop"}
    PROVE  /\ TypeOK /\ ip[t] \in Slots /\ inum[ip[t]] = want[t] /\ want[t] \in Inums
           /\ ref[ip[t]] > 0 /\ lock[ip[t]] = t
           /\ \A u \in Threads : u # t /\ pc[u] \in {"load", "held", "free", "drop"} =>
                 ip[u] \in Slots /\ ip[u] # ip[t]
           /\ \A s \in Slots : s # ip[t] /\ ref[s] > 0 => inum[s] # want[t]
  <1>1. TypeOK /\ ip[t] \in Slots /\ inum[ip[t]] = want[t] /\ want[t] \in Inums
      BY EntriesAreSlots DEF Inv, TableInv, PointersGood, Pointing
  <1>2. ref[ip[t]] > 0 /\ lock[ip[t]] = t
      BY <1>1, Counted DEF Inv, TableInv, LockHeld
  <1>3. \A u \in Threads : u # t /\ pc[u] \in {"load", "held", "free", "drop"} =>
            ip[u] \in Slots /\ ip[u] # ip[t]
      BY <1>1, <1>2, EntriesAreSlots DEF Inv, TableInv, LockHeld, PointersGood, Pointing
  <1>4. \A s \in Slots : s # ip[t] /\ ref[s] > 0 => inum[s] # want[t]
      BY <1>1, <1>2 DEF Inv, TableInv, OneEntryPerInode
  <1> QED
      BY <1>1, <1>2, <1>3, <1>4

\* After the load and before iput() has freed the inode, the entry is a copy.
LEMMA HoldsCopy ==
    ASSUME Inv, NEW t \in Threads, pc[t] \in {"held", "free"}
    PROVE  /\ valid[ip[t]] /\ ~Freed(ip[t])
           /\ nlink[ip[t]] = dnlink[want[t]] /\ nlink[ip[t]] \in {0, 1}
           /\ type[ip[t]] = "file" /\ dtype[want[t]] = "file"
  <1>1. /\ ip[t] \in Slots /\ inum[ip[t]] = want[t] /\ want[t] \in Inums /\ ref[ip[t]] > 0
        /\ \A u \in Threads : u # t /\ pc[u] \in {"load", "held", "free", "drop"} => ip[u] # ip[t]
      BY Holding
  <1>2. valid[ip[t]]
      BY DEF Inv, TableInv, LockHeld
  <1>3. ~Freed(ip[t])
      BY <1>1 DEF Freed
  <1>4. /\ nlink[ip[t]] = dnlink[want[t]]
        /\ type[ip[t]] = "file" /\ dtype[want[t]] = "file"
      BY <1>1, <1>2, <1>3 DEF Inv, TableInv, CopyExact
  <1>5. dnlink[want[t]] \in {0, 1}
      BY <1>1 DEF Inv, TableInv, LinksHeld
  <1> QED
      BY <1>2, <1>3, <1>4, <1>5

\* myfuse_unlink() takes the lock of the directory from nobody.
LEMMA UnlinkKeepsInv ==
    ASSUME NEW t \in Threads, Inv, Unlink(t)
    PROVE  Inv'
  <1> USE DEF diskVars, tableVars
  <1>0. TypeOK /\ pc[t] = "ref" /\ dir = Nobody /\ dir' = t /\ call[t] = "use"
      BY DEF Inv, TableInv, Unlink
  <1>1. TypeOK'
      BY <1>0 DEF TypeOK, Unlink, Calls
  <1>2. call'[t] = "unlink" /\ \A s \in Threads : s # t => call'[s] = call[s]
      BY <1>0 DEF TypeOK, Unlink
  <1>3. PointersGood' /\ OneEntryPerInode' /\ RefExact'
      BY <1>0, PointersKept DEF Unlink, Pointing
  <1>4. NoUseAfterFree' /\ ReferenceKeepsInode'
      BY DEF Inv, TableInv, NoUseAfterFree, ReferenceKeepsInode, Unlink
  <1>5. LockHeld' /\ CopyExact'
      BY DEF Inv, TableInv, LockHeld, CopyExact, Freed, Unlink
  <1>6. LinksHeld'
      <2>1. \A s \in Threads : call[s] # "unlink" /\ (pc[s] = "iget" => call[s] = "create")
          BY <1>0, TableAssumption DEF Inv, TableInv, LinksHeld
      <2> QED
          BY <1>0, <1>2, <2>1 DEF Inv, TableInv, LinksHeld, Unlink
  <1>7. CreatorAlone'
      BY <1>0, <1>2 DEF Inv, TableInv, CreatorAlone, Alone, Unlink
  <1> QED
      BY <1>1, <1>3, <1>4, <1>5, <1>6, <1>7 DEF Inv, TableInv

\* ilock() takes the lock of an entry from nobody.
LEMMA ilockKeepsInv ==
    ASSUME NEW t \in Threads, Inv, ilock(t)
    PROVE  Inv'
  <1> USE DEF diskVars, threadVars, Goto
  <1>0. TypeOK /\ pc[t] = "ref" /\ ip[t] \in Slots /\ lock[ip[t]] = Nobody
      BY EntriesAreSlots DEF Inv, TableInv, PointersGood, Pointing, ilock
  <1>1. TypeOK'
      BY <1>0 DEF TypeOK, ilock, Labels
  <1>2. pc'[t] = "load" /\ \A s \in Threads : s # t => pc'[s] = pc[s]
      BY <1>0 DEF TypeOK, ilock
  <1>3. lock'[ip[t]] = t /\ \A s \in Slots : s # ip[t] => lock'[s] = lock[s]
      BY <1>0 DEF TypeOK, ilock
  <1>4. PointersGood' /\ OneEntryPerInode' /\ RefExact'
      BY <1>0, PointersKept DEF ilock, Pointing
  <1>5. NoUseAfterFree' /\ ReferenceKeepsInode'
      BY <1>0, <1>2 DEF Inv, TableInv, NoUseAfterFree, ReferenceKeepsInode, ilock
  <1>6. LockHeld'
      <2>1. \A u \in Threads : pc[u] \in {"load", "held", "free", "drop"} => ip[u] # ip[t]
          BY <1>0, TableAssumption DEF Inv, TableInv, LockHeld
      <2>2. \A s \in Slots, u \in Threads :
                lock'[s] = u <=> pc'[u] \in {"load", "held", "free", "drop"} /\ ip[u] = s
          BY <1>0, <1>2, <1>3, <2>1, TableAssumption DEF Inv, TableInv, LockHeld
      <2>3. \A u \in Threads : pc'[u] \in {"held", "free", "drop"} => valid[ip[u]]
          BY <1>2 DEF Inv, TableInv, LockHeld
      <2> QED
          BY <2>2, <2>3 DEF LockHeld, ilock
  <1>7. CopyExact'
      <2>1. \A s \in Slots : Freed(s)' = Freed(s)
          BY <1>0, <1>2 DEF Freed, ilock
      <2> QED
          BY <2>1 DEF Inv, TableInv, CopyExact, ilock
  <1>8. LinksHeld'
      BY <1>0, <1>2 DEF Inv, TableInv, LinksHeld, ilock
  <1>9. CreatorAlone'
      <2>1. \A s \in Threads : pc'[s] \in Relying <=> pc[s] \in Relying
          BY <1>0, <1>2 DEF Relying
      <2>2. \A s \in Threads : Alone(s)' = Alone(s)
          BY <2>1 DEF Alone, ilock
      <2> QED
          BY <1>2, <2>1, <2>2 DEF Inv, TableInv, CreatorAlone, ilock
  <1> QED
      BY <1>1, <1>4, <1>5, <1>6, <1>7, <1>8, <1>9 DEF Inv, TableInv

\* ilock() loads an inode that is in use on the disk.
LEMMA ilock_loadKeepsInv ==
    ASSUME NEW t \in Threads, Inv, ilock_load(t)
    PROVE  Inv'
  <1> USE DEF diskVars, threadVars, Goto
  <1> DEFINE e == ip[t]
  <1>0. pc[t] = "load" /\ dtype[want[t]] = "file"
      BY DEF Inv, ReferenceKeepsInode, ilock_load
  <1>h. /\ TypeOK /\ e \in Slots /\ inum[e] = want[t] /\ want[t] \in Inums /\ ref[e] > 0
        /\ \A u \in Threads : u # t /\ pc[u] \in {"load", "held", "free", "drop"} =>
              ip[u] \in Slots /\ ip[u] # e
      BY <1>0, Holding
  <1>1. pc'[t] = "held" /\ \A s \in Threads : s # t => pc'[s] = pc[s]
      BY <1>h DEF TypeOK, ilock_load
  <1>2. err' = err
      BY <1>0, <1>h DEF ilock_load
  <1>u. UNCHANGED <<diskVars, dir, ninode, inum, ref, lock, threadVars>>
      BY DEF ilock_load
  <1>3. \A s \in Slots : s # e => type'[s] = type[s] /\ nlink'[s] = nlink[s] /\ valid'[s] = valid[s]
      BY <1>h DEF TypeOK, ilock_load
  <1>4. ~valid[e] => type'[e] = "file" /\ nlink'[e] = dnlink[want[t]] /\ valid'[e]
      BY <1>0, <1>h DEF TypeOK, ilock_load
  <1>5. valid[e] => type'[e] = type[e] /\ nlink'[e] = nlink[e] /\ valid'[e]
      BY <1>h DEF TypeOK, ilock_load
  <1>6. TypeOK'
      <2>1. dtype[want[t]] \in {"unused", "file"} /\ dnlink[want[t]] \in Nat
          BY <1>h DEF TypeOK
      <2>0. \/ type' = type /\ nlink' = nlink
            \/ /\ type' = [type EXCEPT ![e] = dtype[want[t]]]
               /\ nlink' = [nlink EXCEPT ![e] = dnlink[want[t]]]
          BY <1>h DEF ilock_load
      <2>2. type' \in [Slots -> {"unused", "file"}]
          BY <1>h, <2>0, <2>1 DEF TypeOK
      <2>3. nlink' \in [Slots -> Nat]
          BY <1>h, <2>0, <2>1 DEF TypeOK
      <2>4. valid' \in [Slots -> BOOLEAN]
          BY <1>h DEF TypeOK, ilock_load
      <2>5. pc' \in [Threads -> Labels]
          BY <1>h DEF TypeOK, ilock_load, Labels
      <2> QED
          BY <1>2, <1>h, <1>u, <2>2, <2>3, <2>4, <2>5 DEF TypeOK
  <1>7. PointersGood' /\ OneEntryPerInode' /\ RefExact'
      BY <1>0, PointersKept DEF ilock_load, Pointing
  <1>8. NoUseAfterFree' /\ ReferenceKeepsInode'
      BY <1>0, <1>1, <1>2 DEF Inv, TableInv, NoUseAfterFree, ReferenceKeepsInode, ilock_load
  <1>9. LockHeld'
      <2>1. \A s \in Slots, u \in Threads :
                lock[s] = u <=> pc'[u] \in {"load", "held", "free", "drop"} /\ ip[u] = s
          BY <1>0, <1>1 DEF Inv, TableInv, LockHeld
      <2>2. \A u \in Threads : pc'[u] \in {"held", "free", "drop"} => valid'[ip[u]]
          <3>1. valid'[ip[t]]
              BY <1>4, <1>5
          <3>2. \A u \in Threads : u # t /\ pc[u] \in {"held", "free", "drop"} => valid'[ip[u]] = valid[ip[u]]
              BY <1>h, <1>3
          <3>3. \A u \in Threads : pc[u] \in {"held", "free", "drop"} => valid[ip[u]]
              BY DEF Inv, TableInv, LockHeld
          <3> QED
              BY <1>1, <3>1, <3>2, <3>3
      <2> QED
          BY <1>u, <2>1, <2>2 DEF LockHeld
  <1>10. CopyExact'
      <2> SUFFICES ASSUME NEW s \in Slots, ref[s] > 0, valid'[s]
                   PROVE  /\ nlink'[s] = dnlink[inum[s]]
                          /\ IF Freed(s)' THEN nlink'[s] = 0
                             ELSE type'[s] = "file" /\ dtype[inum[s]] = "file"
          BY DEF CopyExact, ilock_load
      <2>1. Freed(s)' = Freed(s)
          BY <1>0, <1>1 DEF Freed, ilock_load
      <2>2. CASE s # e
          BY <1>3, <2>1, <2>2 DEF Inv, TableInv, CopyExact
      <2>3. CASE s = e
          <3>1. ~Freed(e)
              BY <1>0, <1>h DEF Freed
          <3>2. valid[e] => nlink[e] = dnlink[inum[e]] /\ type[e] = "file"
              BY <1>h, <3>1 DEF Inv, TableInv, CopyExact
          <3>3. nlink'[e] = dnlink[inum[e]] /\ type'[e] = "file"
              BY <1>h, <1>4, <1>5, <3>2
          <3> QED
              BY <1>0, <1>h, <2>1, <2>3, <3>1, <3>3
      <2> QED
          BY <2>2, <2>3
  <1>11. LinksHeld'
      BY <1>0, <1>1 DEF Inv, TableInv, LinksHeld, ilock_load
  <1>12. CreatorAlone'
      <2>1. \A s \in Threads : pc'[s] \in Relying <=> pc[s] \in Relying
          BY <1>0, <1>1 DEF Relying
      <2>2. \A s \in Threads : Alone(s)' = Alone(s)
          BY <2>1 DEF Alone, ilock_load
      <2>3. \A s \in Threads : pc'[s] = "free" => nlink'[ip[s]] = nlink[ip[s]] /\ pc[s] = "free"
          BY <1>1, <1>h, <1>3
      <2> QED
          BY <2>1, <2>2, <2>3 DEF Inv, TableInv, CreatorAlone, ilock_load
  <1> QED
      BY <1>6, <1>7, <1>8, <1>9, <1>10, <1>11, <1>12 DEF Inv, TableInv

\* iupdate() by the holder of an entry of a used inode, who may change its links
\* to n and its type to ty: what it writes concerns no other entry, and the
\* holder stays where it is, or goes from "free" to "drop".
LEMMA iupdateKeeps ==
    ASSUME Inv, NEW t \in Threads, pc[t] \in {"held", "free"}, NEW n \in {0, 1},
           NEW ty \in {"unused", "file"}, iupdate(ip[t], ty, n)
    PROVE  /\ type' \in [Slots -> {"unused", "file"}] /\ nlink' \in [Slots -> Nat]
           /\ dtype' \in [Inums -> {"unused", "file"}] /\ dnlink' \in [Inums -> Nat]
           /\ \A i \in Inums : dnlink'[i] \in {0, 1}
           /\ \A i \in Inums : i # want[t] => dtype'[i] = dtype[i] /\ dnlink'[i] = dnlink[i]
           /\ dtype'[want[t]] = ty /\ dnlink'[want[t]] = n
           /\ type'[ip[t]] = ty /\ nlink'[ip[t]] = n
           /\ \A s \in Slots : s # ip[t] => type'[s] = type[s] /\ nlink'[s] = nlink[s]
           /\ \A s \in Slots : s # ip[t] /\ ref[s] > 0 => inum[s] # want[t] /\ inum[s] \in Inums
           /\ \A u \in Threads : u # t /\ pc[u] = "free" => nlink'[ip[u]] = nlink[ip[u]]
  <1>1. /\ TypeOK /\ ip[t] \in Slots /\ inum[ip[t]] = want[t] /\ want[t] \in Inums
        /\ \A u \in Threads : u # t /\ pc[u] \in {"load", "held", "free", "drop"} =>
              ip[u] \in Slots /\ ip[u] # ip[t]
        /\ \A s \in Slots : s # ip[t] /\ ref[s] > 0 => inum[s] # want[t]
      BY Holding
  <1>2. type' \in [Slots -> {"unused", "file"}] /\ nlink' \in [Slots -> Nat]
      BY <1>1 DEF TypeOK, iupdate
  <1>3. dtype' \in [Inums -> {"unused", "file"}] /\ dnlink' \in [Inums -> Nat]
      BY <1>1 DEF TypeOK, iupdate
  <1>4. \A i \in Inums : i # want[t] => dtype'[i] = dtype[i] /\ dnlink'[i] = dnlink[i]
      BY <1>1 DEF TypeOK, iupdate
  <1>5. dtype'[want[t]] = ty /\ dnlink'[want[t]] = n /\ type'[ip[t]] = ty /\ nlink'[ip[t]] = n
      BY <1>1 DEF TypeOK, iupdate
  <1>6. \A s \in Slots : s # ip[t] => type'[s] = type[s] /\ nlink'[s] = nlink[s]
      BY <1>1 DEF TypeOK, iupdate
  <1>7. \A i \in Inums : dnlink'[i] \in {0, 1}
      BY <1>4, <1>5 DEF Inv, TableInv, LinksHeld
  <1>8. \A s \in Slots : ref[s] > 0 => inum[s] \in Inums
      <2> SUFFICES ASSUME NEW s \in Slots, ref[s] > 0 PROVE inum[s] \in Inums
          OBVIOUS
      <2>1. PICK u \in Threads : ip[u] = s
          BY PointedBy DEF Inv
      <2> QED
          BY <2>1 DEF Inv, TableInv, PointersGood, Slots
  <1>9. \A u \in Threads : u # t /\ pc[u] = "free" => nlink'[ip[u]] = nlink[ip[u]]
      BY <1>1, <1>6
  <1> QED
      BY <1>1, <1>2, <1>3, <1>4, <1>5, <1>6, <1>7, <1>8, <1>9

\* myfuse_create() counts the link before the name is there.
LEMMA CreateUpdateKeepsInv ==
    ASSUME NEW t \in Threads, Inv, CreateUpdate(t)
    PROVE  Inv'
  <1> USE DEF threadVars
  <1>0. pc[t] = "held" /\ call[t] = "create" /\ TypeOK /\ Alone(t)
      BY DEF Inv, TableInv, CreatorAlone, Relying, CreateUpdate
  <1>1. ip[t] \in Slots /\ inum[ip[t]] = want[t] /\ want[t] \in Inums
      BY <1>0, Holding
  <1>2. valid[ip[t]] /\ ~Freed(ip[t]) /\ type[ip[t]] = "file"
      BY <1>0, HoldsCopy
  <1>3. iupdate(ip[t], "file", 1)
      BY <1>2 DEF CreateUpdate
  <1>4. /\ type' \in [Slots -> {"unused", "file"}] /\ nlink' \in [Slots -> Nat]
        /\ dtype' \in [Inums -> {"unused", "file"}] /\ dnlink' \in [Inums -> Nat]
        /\ \A i \in Inums : dnlink'[i] \in {0, 1}
        /\ \A i \in Inums : i # want[t] => dtype'[i] = dtype[i] /\ dnlink'[i] = dnlink[i]
        /\ dtype'[want[t]] = "file" /\ dnlink'[want[t]] = 1
        /\ type'[ip[t]] = "file" /\ nlink'[ip[t]] = 1
        /\ \A s \in Slots : s # ip[t] => type'[s] = type[s] /\ nlink'[s] = nlink[s]
        /\ \A s \in Slots : s # ip[t] /\ ref[s] > 0 => inum[s] # want[t] /\ inum[s] \in Inums
        /\ \A u \in Threads : u # t /\ pc[u] = "free" => nlink'[ip[u]] = nlink[ip[u]]
      BY <1>0, <1>3, iupdateKeeps
  <1>u. UNCHANGED <<linked, gen, dir, ninode, inum, ref, lock, valid, call, want, ip, seen, pc, err>>
      BY DEF CreateUpdate
  <1>5. TypeOK'
      BY <1>0, <1>4, <1>u DEF TypeOK
  <1>6. PointersGood' /\ OneEntryPerInode' /\ RefExact'
      BY <1>0, <1>u, PointersKept DEF Pointing
  <1>7. NoUseAfterFree' /\ LockHeld'
      BY <1>u DEF Inv, TableInv, NoUseAfterFree, LockHeld
  <1>8. CopyExact'
      <2> SUFFICES ASSUME NEW s \in Slots, ref[s] > 0, valid[s]
                   PROVE  /\ nlink'[s] = dnlink'[inum[s]]
                          /\ IF Freed(s) THEN nlink'[s] = 0
                             ELSE type'[s] = "file" /\ dtype'[inum[s]] = "file"
          BY <1>u DEF CopyExact, Freed
      <2>1. CASE s # ip[t]
          BY <1>4, <2>1 DEF Inv, TableInv, CopyExact
      <2>2. CASE s = ip[t]
          BY <1>1, <1>2, <1>4, <2>2
      <2> QED
          BY <2>1, <2>2
  <1>9. LinksHeld'
      <2>1. \A i \in linked : dtype'[i] = "file" /\ dnlink'[i] = 1
          BY <1>0, <1>4 DEF Inv, TableInv, LinksHeld, TypeOK
      <2> QED
          BY <1>4, <1>u, <2>1 DEF Inv, TableInv, LinksHeld
  <1>10. CreatorAlone'
      <2>1. \A s \in Threads : Alone(s)' = Alone(s)
          BY <1>u DEF Alone
      <2> QED
          BY <1>0, <1>4, <1>u, <2>1 DEF Inv, TableInv, CreatorAlone
  <1>11. ReferenceKeepsInode'
      <2>1. \A s \in Threads : pc[s] \in Relying => want[s] \in Inums
          BY DEF Inv, TableInv, PointersGood, Relying, Pointing
      <2> QED
          BY <1>4, <1>u, <2>1 DEF Inv, ReferenceKeepsInode, Relying
  <1> QED
      BY <1>5, <1>6, <1>7, <1>8, <1>9, <1>10, <1>11 DEF Inv, TableInv

\* dirlink() gives the inode its name: from now on it is no creator's.
LEMMA CreateLinkKeepsInv ==
    ASSUME NEW t \in Threads, Inv, CreateLink(t)
    PROVE  Inv'
  <1> USE DEF tableVars
  <1>0. pc[t] = "held" /\ call[t] = "create" /\ TypeOK /\ Alone(t) /\ nlink[ip[t]] = 1
      BY DEF Inv, TableInv, CreatorAlone, Relying, CreateLink
  <1>1. ip[t] \in Slots /\ inum[ip[t]] = want[t] /\ want[t] \in Inums
      BY <1>0, Holding
  <1>2. dnlink[want[t]] = 1 /\ dtype[want[t]] = "file"
      BY <1>0, HoldsCopy
  <1>3. linked' = linked \cup {want[t]} /\ call' = [call EXCEPT ![t] = "use"]
      BY <1>1 DEF CreateLink
  <1>4. call'[t] = "use" /\ \A s \in Threads : s # t => call'[s] = call[s]
      BY <1>0, <1>3 DEF TypeOK
  <1>5. TypeOK'
      <2>1. linked' \subseteq Inums /\ call' \in [Threads -> Calls]
          BY <1>0, <1>1, <1>3 DEF TypeOK, Calls
      <2> QED
          BY <1>0, <2>1 DEF TypeOK, CreateLink
  <1>6. PointersGood' /\ OneEntryPerInode' /\ RefExact'
      BY <1>0, PointersKept DEF Pointing, CreateLink
  <1>7. NoUseAfterFree' /\ LockHeld'
      BY DEF Inv, TableInv, NoUseAfterFree, LockHeld, CreateLink
  <1>8. CopyExact' /\ ReferenceKeepsInode'
      BY DEF Inv, TableInv, CopyExact, Freed, ReferenceKeepsInode, CreateLink
  <1>9. LinksHeld'
      BY <1>0, <1>2, <1>3, <1>4 DEF Inv, TableInv, LinksHeld, CreateLink
  <1>10. CreatorAlone'
      <2>1. ASSUME NEW s \in Threads, s # t, pc[s] \in Relying, Alone(s) PROVE Alone(s)'
          BY <1>0, <1>3, <2>1 DEF Alone, CreateLink
      <2> QED
          BY <1>0, <1>4, <2>1 DEF Inv, TableInv, CreatorAlone, CreateLink, Relying
  <1> QED
      BY <1>5, <1>6, <1>7, <1>8, <1>9, <1>10 DEF Inv, TableInv

\* myfuse_unlink() takes the name and the link away, once.
LEMMA UnlinkUpdateKeepsInv ==
    ASSUME NEW t \in Threads, Inv, UnlinkUpdate(t)
    PROVE  Inv'
  <1>0. pc[t] = "held" /\ call[t] = "unlink" /\ TypeOK /\ dir = t
      BY DEF Inv, TableInv, LinksHeld, UnlinkUpdate
  <1>1. ip[t] \in Slots /\ inum[ip[t]] = want[t] /\ want[t] \in Inums
      BY <1>0, Holding
  <1>2. valid[ip[t]] /\ ~Freed(ip[t]) /\ type[ip[t]] = "file" /\ nlink[ip[t]] \in {0, 1}
      BY <1>0, HoldsCopy
  <1>u. UNCHANGED <<gen, ninode, inum, ref, lock, valid, pc, want, ip, err, seen>>
      BY DEF UnlinkUpdate
  <1>3. call' = [call EXCEPT ![t] = "use"]
      BY DEF UnlinkUpdate
  <1>4. call'[t] = "use" /\ \A s \in Threads : s # t => call'[s] = call[s]
      BY <1>0, <1>3 DEF TypeOK
  <1>5. call' \in [Threads -> Calls]
      BY <1>0, <1>3 DEF TypeOK, Calls
  <1>6. PointersGood' /\ OneEntryPerInode' /\ RefExact'
      BY <1>0, <1>u, PointersKept DEF Pointing
  <1>7. NoUseAfterFree' /\ LockHeld'
      BY <1>u DEF Inv, TableInv, NoUseAfterFree, LockHeld
  <1>8. \A s \in Threads : s # t /\ pc[s] = "iget" => call[s] = "create"
      BY <1>0 DEF Inv, TableInv, LinksHeld
  <1>9. CASE nlink[ip[t]] = 0
      <2>1. dir' = Nobody /\ UNCHANGED <<dtype, dnlink, type, nlink, linked>>
          BY <1>9 DEF UnlinkUpdate
      <2>2. TypeOK'
          BY <1>0, <1>5, <1>u, <2>1 DEF TypeOK
      <2>3. CopyExact' /\ ReferenceKeepsInode'
          BY <1>u, <2>1 DEF Inv, TableInv, CopyExact, Freed, ReferenceKeepsInode
      <2>4. LinksHeld'
          BY <1>0, <1>4, <1>8, <1>u, <2>1 DEF Inv, TableInv, LinksHeld
      <2>5. CreatorAlone'
          BY <1>0, <1>4, <1>u, <2>1 DEF Inv, TableInv, CreatorAlone, Alone
      <2> QED
          BY <1>6, <1>7, <2>2, <2>3, <2>4, <2>5 DEF Inv, TableInv
  <1>10. CASE nlink[ip[t]] = 1
      <2>1. iupdate(ip[t], "file", 0) /\ linked' = linked \ {want[t]} /\ dir' = dir
          BY <1>1, <1>2, <1>10 DEF UnlinkUpdate
      <2>2. /\ type' \in [Slots -> {"unused", "file"}] /\ nlink' \in [Slots -> Nat]
            /\ dtype' \in [Inums -> {"unused", "file"}] /\ dnlink' \in [Inums -> Nat]
            /\ \A i \in Inums : dnlink'[i] \in {0, 1}
            /\ \A i \in Inums : i # want[t] => dtype'[i] = dtype[i] /\ dnlink'[i] = dnlink[i]
            /\ dtype'[want[t]] = "file" /\ dnlink'[want[t]] = 0
            /\ type'[ip[t]] = "file" /\ nlink'[ip[t]] = 0
            /\ \A s \in Slots : s # ip[t] => type'[s] = type[s] /\ nlink'[s] = nlink[s]
            /\ \A s \in Slots : s # ip[t] /\ ref[s] > 0 => inum[s] # want[t] /\ inum[s] \in Inums
            /\ \A u \in Threads : u # t /\ pc[u] = "free" => nlink'[ip[u]] = nlink[ip[u]]
          BY <1>0, <2>1, iupdateKeeps
      <2>3. TypeOK'
          <3>1. linked' \subseteq Inums
              BY <1>0, <2>1 DEF TypeOK
          <3> QED
              BY <1>0, <1>5, <1>u, <2>1, <2>2, <3>1 DEF TypeOK
      <2>4. CopyExact'
          <3> SUFFICES ASSUME NEW s \in Slots, ref[s] > 0, valid[s]
                       PROVE  /\ nlink'[s] = dnlink'[inum[s]]
                              /\ IF Freed(s) THEN nlink'[s] = 0
                                 ELSE type'[s] = "file" /\ dtype'[inum[s]] = "file"
              BY <1>u DEF CopyExact, Freed
          <3>1. CASE s # ip[t]
              BY <2>2, <3>1 DEF Inv, TableInv, CopyExact
          <3>2. CASE s = ip[t]
              BY <1>1, <1>2, <2>2, <3>2
          <3> QED
              BY <3>1, <3>2
      <2>5. LinksHeld'
          <3>1. \A i \in linked' : dtype'[i] = "file" /\ dnlink'[i] = 1
              BY <1>0, <2>1, <2>2 DEF Inv, TableInv, LinksHeld, TypeOK
          <3> QED
              BY <1>0, <1>4, <1>8, <1>u, <2>1, <2>2, <3>1 DEF Inv, TableInv, LinksHeld
      <2>6. CreatorAlone'
          <3>1. \A s \in Threads : Alone(s) => Alone(s)'
              BY <1>u, <2>1 DEF Alone
          <3> QED
              BY <1>0, <1>4, <1>u, <2>2, <3>1 DEF Inv, TableInv, CreatorAlone
      <2>7. ReferenceKeepsInode'
          <3>1. \A s \in Threads : pc[s] \in Relying => want[s] \in Inums
              BY DEF Inv, TableInv, PointersGood, Relying, Pointing
          <3> QED
              BY <1>u, <2>2, <3>1 DEF Inv, ReferenceKeepsInode, Relying
      <2> QED
          BY <1>6, <1>7, <2>3, <2>4, <2>5, <2>6, <2>7 DEF Inv, TableInv
  <1> QED
      BY <1>2, <1>9, <1>10

\* The lock of an entry is given back by its holder, who stays with the entry.
LEMMA UnlockKeeps ==
    ASSUME Inv, NEW t \in Threads, pc[t] \in {"held", "drop"}, NEW l \in {"ref", "put"},
           pc' = [pc EXCEPT ![t] = l], lock' = [lock EXCEPT ![ip[t]] = Nobody], ip' = ip,
           \A s \in Slots : s # ip[t] => valid'[s] = valid[s]
    PROVE  LockHeld'
  <1>1. /\ TypeOK /\ ip[t] \in Slots /\ lock[ip[t]] = t
        /\ \A u \in Threads : u # t /\ pc[u] \in {"load", "held", "free", "drop"} =>
              ip[u] \in Slots /\ ip[u] # ip[t]
      BY Holding
  <1>2. pc'[t] = l /\ \A s \in Threads : s # t => pc'[s] = pc[s]
      BY <1>1 DEF TypeOK
  <1>3. lock'[ip[t]] = Nobody /\ \A s \in Slots : s # ip[t] => lock'[s] = lock[s]
      BY <1>1 DEF TypeOK
  <1>4. \A s \in Slots, u \in Threads :
            lock'[s] = u <=> pc'[u] \in {"load", "held", "free", "drop"} /\ ip[u] = s
      <2> SUFFICES ASSUME NEW s \in Slots, NEW u \in Threads
                   PROVE  lock'[s] = u <=> pc'[u] \in {"load", "held", "free", "drop"} /\ ip[u] = s
          OBVIOUS
      <2>1. CASE s = ip[t]
          BY <1>1, <1>2, <1>3, <2>1, TableAssumption
      <2>2. CASE s # ip[t]
          BY <1>1, <1>2, <1>3, <2>2 DEF Inv, TableInv, LockHeld
      <2> QED
          BY <2>1, <2>2
  <1>5. \A u \in Threads : pc'[u] \in {"held", "free", "drop"} => valid'[ip[u]]
      <2> SUFFICES ASSUME NEW u \in Threads, pc'[u] \in {"held", "free", "drop"}
                   PROVE  valid'[ip[u]]
          OBVIOUS
      <2>1. u # t /\ pc[u] \in {"held", "free", "drop"}
          BY <1>2
      <2>2. valid[ip[u]] /\ valid'[ip[u]] = valid[ip[u]]
          BY <1>1, <2>1 DEF Inv, TableInv, LockHeld
      <2> QED
          BY <2>2
  <1> QED
      BY <1>4, <1>5 DEF LockHeld

\* iunlock() gives the lock back.
LEMMA iunlockKeepsInv ==
    ASSUME NEW t \in Threads, Inv, iunlock(t)
    PROVE  Inv'
  <1> USE DEF diskVars, threadVars, Goto
  <1>0. TypeOK /\ pc[t] = "held" /\ ip[t] \in Slots
      BY Holding DEF iunlock
  <1>1. TypeOK'
      BY <1>0 DEF TypeOK, iunlock, Labels
  <1>2. pc'[t] = "ref" /\ \A s \in Threads : s # t => pc'[s] = pc[s]
      BY <1>0 DEF TypeOK, iunlock
  <1>3. PointersGood' /\ OneEntryPerInode' /\ RefExact'
      BY <1>0, PointersKept DEF iunlock, Pointing
  <1>4. NoUseAfterFree' /\ ReferenceKeepsInode'
      BY <1>0, <1>2 DEF Inv, TableInv, NoUseAfterFree, ReferenceKeepsInode, iunlock
  <1>5. LockHeld'
      BY <1>0, UnlockKeeps DEF iunlock
  <1>6. CopyExact'
      <2>1. \A s \in Slots : Freed(s)' = Freed(s)
          BY <1>0, <1>2 DEF Freed, iunlock
      <2> QED
          BY <2>1 DEF Inv, TableInv, CopyExact, iunlock
  <1>7. LinksHeld'
      BY <1>0, <1>2 DEF Inv, TableInv, LinksHeld, iunlock
  <1>8. CreatorAlone'
      <2>1. \A s \in Threads : pc'[s] \in Relying <=> pc[s] \in Relying
          BY <1>0, <1>2 DEF Relying
      <2>2. \A s \in Threads : Alone(s)' = Alone(s)
          BY <2>1 DEF Alone, iunlock
      <2> QED
          BY <1>2, <2>1, <2>2 DEF Inv, TableInv, CreatorAlone, iunlock
  <1> QED
      BY <1>1, <1>3, <1>4, <1>5, <1>6, <1>7, <1>8 DEF Inv, TableInv

\* A reference is dropped: the count was above zero, and the entry may become
\* empty but no other thread's.
LEMMA ReleaseKeepsInv ==
    ASSUME NEW t \in Threads, Inv, pc[t] \in {"ref", "put"}, Release(t)
    PROVE  Inv'
  <1> USE DEF diskVars, Goto
  <1>0. TypeOK /\ ip[t] \in Slots
      BY EntriesAreSlots DEF Inv, TableInv, PointersGood, Pointing
  <1>u. UNCHANGED <<diskVars, ninode, inum, lock, valid, type, nlink, err>>
      BY DEF Release
  <1>1. /\ ref' = [ref EXCEPT ![ip[t]] = @ - 1]
        /\ ip' = [ip EXCEPT ![t] = 0]
      BY DEF Release
  <1>2. \A s \in Threads : s # t =>
            /\ pc'[s] = pc[s] /\ ip'[s] = ip[s] /\ call'[s] = call[s]
            /\ want'[s] = want[s] /\ seen'[s] = seen[s]
      BY <1>0 DEF TypeOK, Release
  <1>3. pc'[t] = "idle" /\ ip'[t] = 0 /\ call'[t] = "none"
      BY <1>0 DEF TypeOK, Release
  <1>4. RefExact' /\ \A s \in Slots : ref'[s] \in Nat
      <2>1. ASSUME NEW s \in Slots PROVE ref'[s] = Cardinality(Pointers(s)') /\ ref'[s] \in Nat
          <3>1. ref[s] = Cardinality(Pointers(s))
              BY DEF Inv, RefExact, Pointers
          <3>2. /\ Cardinality(Pointers(s)') = Cardinality(Pointers(s)) - (IF s = ip[t] THEN 1 ELSE 0)
                /\ Cardinality(Pointers(s)') \in Nat
              BY <1>0, <1>1, PointersRemoved
          <3>3. ref'[s] = ref[s] - (IF s = ip[t] THEN 1 ELSE 0)
              BY <1>0, <1>1 DEF TypeOK
          <3> QED
              BY <3>1, <3>2, <3>3
      <2>2. RefExact'
          BY <2>1 DEF RefExact, Pointers
      <2> QED
          BY <2>1, <2>2
  <1>5. TypeOK'
      <2>1. ref' \in [Slots -> Nat]
          BY <1>0, <1>1, <1>4 DEF TypeOK
      <2>2. 0 \in 0 .. (NINODES + 1) /\ 0 \in 0 .. (NGen - 1)
          BY TableAssumption
      <2>3. /\ ip' \in [Threads -> Slots \cup {0}] /\ call' \in [Threads -> Calls]
            /\ want' \in [Threads -> 0 .. (NINODES + 1)] /\ seen' \in [Threads -> 0 .. (NGen - 1)]
          BY <1>0, <2>2 DEF TypeOK, Release, Calls
      <2>4. pc' \in [Threads -> Labels] /\ dir' \in Threads \cup {Nobody}
          BY <1>0 DEF TypeOK, Release, Labels
      <2> QED
          BY <1>0, <1>u, <2>1, <2>3, <2>4 DEF TypeOK
  <1>6. \A s \in Slots : ref'[s] > 0 => ref[s] > 0
      BY <1>0, <1>1, <1>4 DEF TypeOK
  <1>7. OneEntryPerInode' /\ NoUseAfterFree'
      BY <1>6, <1>u DEF Inv, TableInv, OneEntryPerInode, NoUseAfterFree
  <1>8. PointersGood'
      BY <1>2, <1>3, <1>u DEF Inv, TableInv, PointersGood, Pointing
  <1>9. LockHeld'
      <2>1. \A s \in Slots, u \in Threads :
                lock[s] = u <=> pc'[u] \in {"load", "held", "free", "drop"} /\ ip'[u] = s
          BY <1>2, <1>3 DEF Inv, TableInv, LockHeld
      <2>2. \A u \in Threads : pc'[u] \in {"held", "free", "drop"} => valid[ip'[u]]
          BY <1>2, <1>3 DEF Inv, TableInv, LockHeld
      <2> QED
          BY <1>u, <2>1, <2>2 DEF LockHeld
  <1>10. CopyExact'
      <2>1. \A s \in Slots : Freed(s)' = Freed(s)
          BY <1>2, <1>3 DEF Freed
      <2> QED
          BY <1>6, <1>u, <2>1 DEF Inv, TableInv, CopyExact
  <1>11. LinksHeld'
      <2>1. \A s \in Threads : s # t /\ dir = s => dir' = s
          BY DEF Release
      <2> QED
          BY <1>2, <1>3, <1>u, <2>1 DEF Inv, TableInv, LinksHeld
  <1>12. CreatorAlone'
      <2>1. ASSUME NEW s \in Threads, s # t, Alone(s) PROVE Alone(s)'
          BY <1>2, <1>3, <1>u, <2>1 DEF Alone, Relying
      <2> QED
          BY <1>2, <1>3, <1>u, <2>1 DEF Inv, TableInv, CreatorAlone, Relying
  <1>13. ReferenceKeepsInode'
      BY <1>2, <1>3, <1>u DEF Inv, ReferenceKeepsInode
  <1> QED
      BY <1>4, <1>5, <1>7, <1>8, <1>9, <1>10, <1>11, <1>12, <1>13 DEF Inv, TableInv

\* Who is about to free an inode is the last that refers to it: the count says
\* so of the pointers, the link count of those that iget() is about to return.
LEMMA LastIsAlone ==
    ASSUME NEW t \in Threads, Inv, pc[t] = "ref", LastUnlinked(ip[t])
    PROVE  Alone(t) /\ \A u \in Threads : u # t => ip[u] # ip[t]
  <1>0. /\ TypeOK /\ ip[t] \in Slots /\ inum[ip[t]] = want[t] /\ want[t] \in Inums
        /\ ref[ip[t]] = 1 /\ valid[ip[t]] /\ nlink[ip[t]] = 0
      BY EntriesAreSlots DEF Inv, TableInv, PointersGood, Pointing, LastUnlinked
  <1>1. \A u \in Threads : u # t => ip[u] # ip[t]
      BY <1>0, SolePointer DEF Inv
  <1>2. dnlink[want[t]] = 0
      BY <1>0 DEF Inv, TableInv, CopyExact
  <1>3. want[t] \notin linked
      BY <1>2 DEF Inv, TableInv, LinksHeld
  <1>4. ASSUME NEW u \in Threads, u # t, pc[u] \in Relying, want[u] = want[t] PROVE FALSE
      <2>1. CASE pc[u] = "iget"
          <3>1. call[u] = "create"
              BY <1>3, <1>4, <2>1 DEF Inv, TableInv, LinksHeld
          <3> QED
              BY <1>4, <2>1, <3>1 DEF Inv, TableInv, CreatorAlone, Alone, Relying
      <2>2. CASE pc[u] # "iget"
          <3>1. pc[u] \in Pointing /\ pc[t] \in Pointing
              BY <1>4, <2>2 DEF Relying, Pointing
          <3>2. ip[u] = ip[t]
              BY <1>4, <3>1, SameEntry
          <3> QED
              BY <1>1, <1>4, <3>2
      <2> QED
          BY <2>1, <2>2
  <1> QED
      BY <1>1, <1>3, <1>4 DEF Alone

\* iput() of the last reference locks the entry: it is alone with the inode.
LEMMA iput_lockKeepsInv ==
    ASSUME NEW t \in Threads, Inv, iput_lock(t)
    PROVE  Inv'
  <1> USE DEF diskVars, threadVars, Goto
  <1>0. TypeOK /\ pc[t] = "ref" /\ ip[t] \in Slots /\ lock[ip[t]] = Nobody /\ LastUnlinked(ip[t])
      BY EntriesAreSlots DEF Inv, TableInv, PointersGood, Pointing, iput_lock
  <1>a. Alone(t) /\ \A u \in Threads : u # t => ip[u] # ip[t]
      BY <1>0, LastIsAlone
  <1>1. TypeOK'
      BY <1>0 DEF TypeOK, iput_lock, Labels
  <1>2. pc'[t] = "free" /\ \A s \in Threads : s # t => pc'[s] = pc[s]
      BY <1>0 DEF TypeOK, iput_lock
  <1>3. lock'[ip[t]] = t /\ \A s \in Slots : s # ip[t] => lock'[s] = lock[s]
      BY <1>0 DEF TypeOK, iput_lock
  <1>4. PointersGood' /\ OneEntryPerInode' /\ RefExact'
      BY <1>0, PointersKept DEF iput_lock, Pointing
  <1>5. NoUseAfterFree' /\ ReferenceKeepsInode'
      BY <1>0, <1>2 DEF Inv, TableInv, NoUseAfterFree, ReferenceKeepsInode, iput_lock
  <1>6. LockHeld'
      <2>1. \A s \in Slots, u \in Threads :
                lock'[s] = u <=> pc'[u] \in {"load", "held", "free", "drop"} /\ ip[u] = s
          BY <1>0, <1>2, <1>3, <1>a, TableAssumption DEF Inv, TableInv, LockHeld
      <2>2. \A u \in Threads : pc'[u] \in {"held", "free", "drop"} => valid[ip[u]]
          BY <1>0, <1>2 DEF Inv, TableInv, LockHeld, LastUnlinked
      <2> QED
          BY <2>1, <2>2 DEF LockHeld, iput_lock
  <1>7. CopyExact'
      <2>1. \A s \in Slots : Freed(s)' = Freed(s)
          BY <1>0, <1>2 DEF Freed, iput_lock
      <2> QED
          BY <2>1 DEF Inv, TableInv, CopyExact, iput_lock
  <1>8. LinksHeld'
      BY <1>0, <1>2 DEF Inv, TableInv, LinksHeld, iput_lock
  <1>9. CreatorAlone'
      <2>1. \A s \in Threads : pc'[s] \in Relying <=> pc[s] \in Relying
          BY <1>0, <1>2 DEF Relying
      <2>2. \A s \in Threads : Alone(s)' = Alone(s)
          BY <2>1 DEF Alone, iput_lock
      <2>3. nlink[ip[t]] = 0
          BY <1>0 DEF LastUnlinked
      <2> QED
          BY <1>2, <1>a, <2>1, <2>2, <2>3 DEF Inv, TableInv, CreatorAlone, iput_lock
  <1> QED
      BY <1>1, <1>4, <1>5, <1>6, <1>7, <1>8, <1>9 DEF Inv, TableInv

\* iput() frees an inode that nobody else relies on.
LEMMA iput_freeKeepsInv ==
    ASSUME NEW t \in Threads, Inv, iput_free(t)
    PROVE  Inv'
  <1> USE DEF threadVars, Goto
  <1>0. pc[t] = "free" /\ Alone(t) /\ nlink[ip[t]] = 0
      BY DEF Inv, TableInv, CreatorAlone, iput_free
  <1>h. TypeOK /\ ip[t] \in Slots /\ inum[ip[t]] = want[t] /\ want[t] \in Inums
      BY <1>0, Holding
  <1>c. valid[ip[t]]
      BY <1>0, HoldsCopy
  <1>u. UNCHANGED <<linked, gen, dir, ninode, inum, ref, lock, valid, call, want, ip, seen, err>>
      BY DEF iput_free
  <1>1. iupdate(ip[t], "unused", 0) /\ pc' = [pc EXCEPT ![t] = "drop"]
      BY <1>0 DEF iput_free
  <1>2. /\ type' \in [Slots -> {"unused", "file"}] /\ nlink' \in [Slots -> Nat]
        /\ dtype' \in [Inums -> {"unused", "file"}] /\ dnlink' \in [Inums -> Nat]
        /\ \A i \in Inums : dnlink'[i] \in {0, 1}
        /\ \A i \in Inums : i # want[t] => dtype'[i] = dtype[i] /\ dnlink'[i] = dnlink[i]
        /\ dtype'[want[t]] = "unused" /\ dnlink'[want[t]] = 0
        /\ type'[ip[t]] = "unused" /\ nlink'[ip[t]] = 0
        /\ \A s \in Slots : s # ip[t] => type'[s] = type[s] /\ nlink'[s] = nlink[s]
        /\ \A s \in Slots : s # ip[t] /\ ref[s] > 0 => inum[s] # want[t] /\ inum[s] \in Inums
        /\ \A u \in Threads : u # t /\ pc[u] = "free" => nlink'[ip[u]] = nlink[ip[u]]
      BY <1>0, <1>1, iupdateKeeps
  <1>3. pc'[t] = "drop" /\ \A s \in Threads : s # t => pc'[s] = pc[s]
      BY <1>h, <1>1 DEF TypeOK
  <1>4. TypeOK'
      <2>1. pc' \in [Threads -> Labels]
          BY <1>h, <1>1 DEF TypeOK, Labels
      <2> QED
          BY <1>h, <1>2, <1>u, <2>1 DEF TypeOK
  <1>5. PointersGood' /\ OneEntryPerInode' /\ RefExact'
      BY <1>0, <1>1, <1>u, PointersKept DEF Pointing
  <1>6. LockHeld'
      <2>1. \A s \in Slots, u \in Threads :
                lock[s] = u <=> pc'[u] \in {"load", "held", "free", "drop"} /\ ip[u] = s
          BY <1>0, <1>3 DEF Inv, TableInv, LockHeld
      <2>2. \A u \in Threads : pc'[u] \in {"held", "free", "drop"} => valid[ip[u]]
          BY <1>0, <1>3 DEF Inv, TableInv, LockHeld
      <2> QED
          BY <1>u, <2>1, <2>2 DEF LockHeld
  <1>7. CopyExact'
      <2> SUFFICES ASSUME NEW s \in Slots, ref[s] > 0, valid[s]
                   PROVE  /\ nlink'[s] = dnlink'[inum[s]]
                          /\ IF Freed(s)' THEN nlink'[s] = 0
                             ELSE type'[s] = "file" /\ dtype'[inum[s]] = "file"
          BY <1>u DEF CopyExact
      <2>1. CASE s # ip[t]
          <3>1. Freed(s)' = Freed(s)
              BY <1>0, <1>3, <1>u, <2>1 DEF Freed
          <3> QED
              BY <1>2, <2>1, <3>1 DEF Inv, TableInv, CopyExact
      <2>2. CASE s = ip[t]
          <3>1. Freed(s)'
              BY <1>3, <1>u, <2>2 DEF Freed
          <3> QED
              BY <1>h, <1>2, <2>2, <3>1
      <2> QED
          BY <2>1, <2>2
  <1>8. LinksHeld'
      <2>1. \A i \in linked : dtype'[i] = "file" /\ dnlink'[i] = 1
          BY <1>0, <1>h, <1>2 DEF Inv, TableInv, LinksHeld, TypeOK, Alone
      <2> QED
          BY <1>0, <1>2, <1>3, <1>u, <2>1 DEF Inv, TableInv, LinksHeld
  <1>9. CreatorAlone'
      <2>1. \A s \in Threads : Alone(s) => Alone(s)'
          BY <1>3, <1>u DEF Alone, Relying
      <2> QED
          BY <1>2, <1>3, <1>u, <2>1 DEF Inv, TableInv, CreatorAlone, Relying
  <1>10. ReferenceKeepsInode'
      <2> SUFFICES ASSUME NEW s \in Threads, pc'[s] \in {"iget", "ref", "load", "held", "free"}
                   PROVE  /\ dtype'[want[s]] = "file"
                          /\ gen[want[s]] = seen[s]
                          /\ ip[s] # 0 => inum[ip[s]] = want[s]
          BY <1>u DEF ReferenceKeepsInode
      <2>1. s # t /\ pc[s] \in {"iget", "ref", "load", "held", "free"}
          BY <1>3
      <2>2. want[s] \in Inums /\ want[s] # want[t]
          BY <1>0, <2>1 DEF Inv, TableInv, PointersGood, Pointing, Alone, Relying
      <2> QED
          BY <1>2, <2>1, <2>2 DEF Inv, ReferenceKeepsInode
  <1>11. NoUseAfterFree'
      BY <1>u DEF Inv, TableInv, NoUseAfterFree
  <1> QED
      BY <1>4, <1>5, <1>6, <1>7, <1>8, <1>9, <1>10, <1>11 DEF Inv, TableInv

\* The entry of a freed inode becomes invalid before it is unlocked.
LEMMA iput_unlockKeepsInv ==
    ASSUME NEW t \in Threads, Inv, iput_unlock(t)
    PROVE  Inv'
  <1> USE DEF diskVars, threadVars, Goto
  <1>0. TypeOK /\ pc[t] = "drop" /\ ip[t] \in Slots
      BY Holding DEF iput_unlock
  <1>1. TypeOK'
      BY <1>0 DEF TypeOK, iput_unlock, Labels
  <1>2. pc'[t] = "put" /\ \A s \in Threads : s # t => pc'[s] = pc[s]
      BY <1>0 DEF TypeOK, iput_unlock
  <1>3. ~valid'[ip[t]] /\ \A s \in Slots : s # ip[t] => valid'[s] = valid[s]
      BY <1>0 DEF TypeOK, iput_unlock
  <1>4. PointersGood' /\ OneEntryPerInode' /\ RefExact'
      BY <1>0, PointersKept DEF iput_unlock, Pointing
  <1>5. NoUseAfterFree' /\ ReferenceKeepsInode'
      BY <1>0, <1>2 DEF Inv, TableInv, NoUseAfterFree, ReferenceKeepsInode, iput_unlock
  <1>6. LockHeld'
      BY <1>0, <1>3, UnlockKeeps DEF iput_unlock
  <1>7. CopyExact'
      <2>1. \A s \in Slots : s # ip[t] => Freed(s)' = Freed(s)
          BY <1>0, <1>2 DEF Freed, iput_unlock
      <2> QED
          BY <1>3, <2>1 DEF Inv, TableInv, CopyExact, iput_unlock
  <1>8. LinksHeld'
      BY <1>0, <1>2 DEF Inv, TableInv, LinksHeld, iput_unlock
  <1>9. CreatorAlone'
      <2>1. \A s \in Threads : pc'[s] \in Relying <=> pc[s] \in Relying
          BY <1>0, <1>2 DEF Relying
      <2>2. \A s \in Threads : Alone(s)' = Alone(s)
          BY <2>1 DEF Alone, iput_unlock
      <2> QED
          BY <1>2, <2>1, <2>2 DEF Inv, TableInv, CreatorAlone, iput_unlock
  <1> QED
      BY <1>1, <1>4, <1>5, <1>6, <1>7, <1>8, <1>9 DEF Inv, TableInv

-----------------------------------------------------------------------------
(* The theorems.                                                           *)

\* Every step of every call keeps the invariant.
LEMMA NextKeepsInv == Inv /\ [Next]_vars => Inv'
  <1> SUFFICES ASSUME Inv, [Next]_vars PROVE Inv'
      OBVIOUS
  <1>1. CASE UNCHANGED vars
      <2> USE <1>1 DEF vars
      <2>1. TypeOK' /\ OneEntryPerInode' /\ NoUseAfterFree'
          BY DEF Inv, TableInv, TypeOK, OneEntryPerInode, NoUseAfterFree
      <2>2. PointersGood'
          BY DEF Inv, TableInv, PointersGood
      <2>3. LockHeld'
          BY DEF Inv, TableInv, LockHeld
      <2>4. LinksHeld'
          BY DEF Inv, TableInv, LinksHeld
      <2>5. CopyExact' /\ CreatorAlone'
          BY DEF Inv, TableInv, CopyExact, Freed, CreatorAlone, Alone
      <2>6. RefExact' /\ ReferenceKeepsInode'
          BY DEF Inv, RefExact, ReferenceKeepsInode
      <2> QED
          BY <2>1, <2>2, <2>3, <2>4, <2>5, <2>6 DEF Inv, TableInv
  <1>2. ASSUME NEW t \in Threads, Step(t) PROVE Inv'
      <2>1. ASSUME iput(t) PROVE Inv'
          BY <2>1, ReleaseKeepsInv DEF iput
      <2>2. ASSUME iput_unref(t) PROVE Inv'
          BY <2>2, ReleaseKeepsInv DEF iput_unref
      <2> QED
          BY <1>2, <2>1, <2>2, iallocKeepsInv, ialloc_failsKeepsInv, igetKeepsInv, itable_growKeepsInv,
             ilockKeepsInv, ilock_loadKeepsInv, CreateUpdateKeepsInv, CreateLinkKeepsInv,
             UnlinkUpdateKeepsInv, iunlockKeepsInv, iput_lockKeepsInv, iput_freeKeepsInv,
             iput_unlockKeepsInv DEF Step
  <1> QED
      BY <1>1, <1>2, CreateKeepsInv, UnlinkKeepsInv, dirlookupKeepsInv DEF Next, Exited

\* The conjunction of what follows is inductive.
THEOREM TableInvariance == Spec => []Inv
  BY InitTable, NextKeepsInv, PTL DEF Spec

\* The structure of the table: one entry per inode, however the table grows and
\* entries are reused; ilock() never meets a freed inode; locks, links and
\* copies agree with what the threads are doing.
THEOREM Structure == Spec => []TableInv
  <1>1. Inv => TableInv
      BY DEF Inv
  <1> QED
      BY <1>1, TableInvariance, PTL

\* ref counts the pointers to the entry, also while iput() frees the inode
\* without the lock of the table.
THEOREM ReferenceCounts == Spec => []RefExact
  <1>1. Inv => RefExact
      BY DEF Inv
  <1> QED
      BY <1>1, TableInvariance, PTL

\* No inode is freed or allocated anew under a thread that found it.
THEOREM NoReuse == Spec => []ReferenceKeepsInode
  <1>1. Inv => ReferenceKeepsInode
      BY DEF Inv
  <1> QED
      BY <1>1, TableInvariance, PTL

\* The holder of the lock of an entry sees the inode of the disk.
THEOREM CopiesCurrent == Spec => []HolderSeesDisk
  <1>1. Inv => HolderSeesDisk
      <2> SUFFICES ASSUME Inv, NEW t \in Threads, pc[t] = "held"
                   PROVE  /\ lock[ip[t]] = t
                          /\ type[ip[t]] = dtype[inum[ip[t]]]
                          /\ nlink[ip[t]] = dnlink[inum[ip[t]]]
          BY DEF HolderSeesDisk
      <2>1. lock[ip[t]] = t /\ inum[ip[t]] = want[t]
          BY Holding
      <2>2. type[ip[t]] = dtype[want[t]] /\ nlink[ip[t]] = dnlink[want[t]]
          BY HoldsCopy
      <2> QED
          BY <2>1, <2>2
  <1> QED
      BY <1>1, TableInvariance, PTL

\* iput() never waits for the lock of the entry that it frees while it holds the
\* spin lock of the table: who else could hold it would be counted.
THEOREM NoWaitUnderSpinlock == Spec => []FreeingNeverWaits
  <1>1. Inv => FreeingNeverWaits
      <2> SUFFICES ASSUME Inv, NEW t \in Threads, pc[t] = "ref", LastUnlinked(ip[t]),
                          lock[ip[t]] # Nobody
                   PROVE  FALSE
          BY DEF FreeingNeverWaits
      <2>1. ip[t] \in Slots /\ \A u \in Threads : u # t => ip[u] # ip[t]
          BY LastIsAlone, EntriesAreSlots DEF Inv, TableInv, PointersGood, Pointing
      <2>2. lock[ip[t]] \in Threads
          BY <2>1 DEF Inv, TableInv, TypeOK
      <2>3. pc[lock[ip[t]]] \in {"load", "held", "free", "drop"} /\ ip[lock[ip[t]]] = ip[t]
          BY <2>1, <2>2 DEF Inv, TableInv, LockHeld
      <2>4. lock[ip[t]] # t
          BY <2>3
      <2> QED
          BY <2>1, <2>2, <2>3, <2>4
  <1> QED
      BY <1>1, TableInvariance, PTL
=============================================================================
