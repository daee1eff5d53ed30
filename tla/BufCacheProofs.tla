--------------------------- MODULE BufCacheProofs ---------------------------
(***************************************************************************)
(* The buffer cache of buf_cache.c is coherent for any number of threads,  *)
(* buffers, buckets and blocks and any number of buffers that a thread     *)
(* holds: a block has one buffer, a buffer that is used is not recycled, a *)
(* holder sees what was stored last, and only bget() brings threads to a   *)
(* stop.                                                                   *)
(***************************************************************************)
EXTENDS BufCache, FiniteSetTheorems, TLAPS

\* The inductive invariant: the structure of the cache, the exact reference
\* counts that keep a used buffer from being recycled, and what a holder sees.
Inv == CacheInv /\ RefcntExact /\ HolderSeesContent

\* The threads that refer to a buffer.
Users(b) == {t \in Threads : b \in Refs(t)}

-----------------------------------------------------------------------------
(* Lemmas about the operators.                                             *)

\* The hash of a block number, the boot block's too, is a bucket.
LEMMA HashIsBucket == \A n \in Blocks \cup {0} : bcache_hash(n) \in Buckets
  BY CacheAssumption DEF bcache_hash, Buckets

\* bget() looks for a block in one bucket; it is cached nowhere else.
LEMMA CachedAnywhere ==
    ASSUME LinkedInItsBucket, NEW n, Cached(n) = {}, NEW b \in Bufs
    PROVE  blockno[b] # n
  BY DEF LinkedInItsBucket, Cached

\* What a thread refers to.
LEMMA RefsAre ==
    ASSUME NEW t, NEW b \in Bufs
    PROVE  b \in Refs(t) <=> buf[t] = b \/ \E n \in Blocks : held[t][n] = b
  BY CacheAssumption DEF Refs

\* The number of users of a buffer is a number.
LEMMA UsersFinite == \A b : IsFiniteSet(Users(b)) /\ Cardinality(Users(b)) \in Nat
  <1> SUFFICES ASSUME NEW b PROVE IsFiniteSet(Users(b)) /\ Cardinality(Users(b)) \in Nat
      OBVIOUS
  <1>1. IsFiniteSet(Users(b))
      BY CacheAssumption, FS_Subset DEF Users
  <1> QED
      BY <1>1, FS_CardinalityType

\* The number of buffers that a thread holds is a number.
LEMMA HoldsFinite == \A t : IsFiniteSet(Holds(t)) /\ Cardinality(Holds(t)) \in Nat
  <1> SUFFICES ASSUME NEW t PROVE IsFiniteSet(Holds(t)) /\ Cardinality(Holds(t)) \in Nat
      OBVIOUS
  <1>1. IsFiniteSet(Holds(t))
      BY CacheAssumption, FS_Subset DEF Holds
  <1> QED
      BY <1>1, FS_CardinalityType

\* A buffer whose count is zero is neither used nor pinned.
LEMMA Unreferenced ==
    ASSUME RefcntExact, NEW b \in Bufs, refcnt[b] = 0
    PROVE  b \notin pinned /\ \A t \in Threads : b \notin Refs(t)
  <1>1. refcnt[b] = Cardinality(Users(b)) + (IF b \in pinned THEN 1 ELSE 0)
      BY DEF RefcntExact, Users
  <1>2. Cardinality(Users(b)) = 0 /\ b \notin pinned
      BY <1>1, UsersFinite
  <1>3. Users(b) = {}
      BY <1>2, UsersFinite, FS_EmptySet
  <1> QED
      BY <1>2, <1>3 DEF Users

\* A thread that begins to refer to buffer c is one user more of c alone.
LEMMA UsersAdded ==
    ASSUME TypeOK, NEW t \in Threads, NEW c \in Bufs, buf[t] = NoBuf, c \notin Refs(t),
           buf' = [buf EXCEPT ![t] = c], held' = held, NEW b \in Bufs
    PROVE  Cardinality(Users(b)') = Cardinality(Users(b)) + (IF b = c THEN 1 ELSE 0)
  <1>1. \A s \in Threads : s # t => buf'[s] = buf[s]
      BY DEF TypeOK
  <1>2. buf'[t] = c
      BY DEF TypeOK
  <1>3. \A s \in Threads : s # t => (b \in Refs(s)' <=> b \in Refs(s))
      BY <1>1, CacheAssumption DEF Refs
  <1>4. b \in Refs(t)' <=> b \in Refs(t) \/ b = c
      BY <1>2, CacheAssumption DEF Refs
  <1>5. CASE b = c
      <2>1. Users(b)' = Users(b) \cup {t} /\ t \notin Users(b)
          BY <1>5, <1>3, <1>4 DEF Users
      <2> QED
          BY <1>5, <2>1, UsersFinite, FS_AddElement
  <1>6. CASE b # c
      <2>1. Users(b)' = Users(b)
          BY <1>6, <1>3, <1>4 DEF Users
      <2> QED
          BY <1>6, <2>1, UsersFinite
  <1> QED
      BY <1>5, <1>6

\* A thread that lets its buffer go is one user less of that buffer.
LEMMA UsersRemoved ==
    ASSUME TypeOK, NEW t \in Threads, buf[t] \in Bufs,
           \A n \in Blocks : held[t][n] # buf[t],
           buf' = [buf EXCEPT ![t] = NoBuf], held' = held, NEW b \in Bufs
    PROVE  Cardinality(Users(b)') = Cardinality(Users(b)) - (IF b = buf[t] THEN 1 ELSE 0)
  <1>1. \A s \in Threads : s # t => buf'[s] = buf[s]
      BY DEF TypeOK
  <1>2. buf'[t] = NoBuf
      BY DEF TypeOK
  <1>3. \A s \in Threads : s # t => (b \in Refs(s)' <=> b \in Refs(s))
      BY <1>1, CacheAssumption DEF Refs
  <1>4. b \in Refs(t)' <=> b \in Refs(t) /\ b # buf[t]
      BY <1>2, CacheAssumption DEF Refs
  <1>5. CASE b = buf[t]
      <2>0. b \in Refs(t)
          BY <1>5, CacheAssumption DEF Refs
      <2>1. Users(b)' = Users(b) \ {t} /\ t \in Users(b)
          BY <1>5, <1>3, <1>4, <2>0 DEF Users
      <2> QED
          BY <1>5, <2>1, UsersFinite, FS_RemoveElement
  <1>6. CASE b # buf[t]
      <2>1. Users(b)' = Users(b)
          BY <1>6, <1>3, <1>4 DEF Users
      <2> QED
          BY <1>6, <2>1, UsersFinite
  <1> QED
      BY <1>5, <1>6

-----------------------------------------------------------------------------
(* What a step that leaves something alone cannot disturb.                 *)

\* A held buffer is its holder's, and that of its block.
LEMMA HeldIs ==
    ASSUME Inv, NEW t \in Threads, NEW n \in Blocks, held[t][n] # NoBuf
    PROVE  /\ held[t][n] \in Bufs
           /\ lock[held[t][n]] = t
           /\ blockno[held[t][n]] = n
           /\ valid[held[t][n]]
           /\ data[held[t][n]] = content[n]
  BY DEF Inv, CacheInv, TypeOK, HolderSeesContent

\* It is held once.
LEMMA HeldOnce ==
    ASSUME Inv, NEW s \in Threads, NEW t \in Threads, NEW m \in Blocks, NEW n \in Blocks,
           held[t][n] # NoBuf, held[s][m] = held[t][n]
    PROVE  s = t /\ m = n
  BY DEF Inv, HolderSeesContent

\* The bucket of a buffer's block is its bucket.
LEMMA BucketIs ==
    ASSUME Inv, NEW b \in Bufs
    PROVE  bcache_hash(blockno[b]) = bucket[b] /\ bucket[b] \in Buckets
  BY DEF Inv, CacheInv, LinkedInItsBucket, TypeOK

\* The spin locks, the numbers and the buckets are left alone, and the step is
\* not of a search; a count may fall to zero in an unlocked bucket only.
LEMMA SpinHeldKept ==
    ASSUME Inv, NEW t \in Threads, pc[t] # "scan", pc'[t] # "scan",
           \A s \in Threads : s # t => pc'[s] = pc[s] /\ want'[s] = want[s],
           UNCHANGED <<spin, blockno, bucket>>,
           \A b \in Bufs : refcnt'[b] = 0 => refcnt[b] = 0 \/ spin[bucket[b]] = Nobody
    PROVE  SpinHeld' /\ LinkedInItsBucket' /\ OneBufferPerBlock'
  <1>0. TypeOK
      BY DEF Inv, CacheInv
  <1>1. ASSUME NEW h \in Buckets, spin'[h] # Nobody
        PROVE  pc'[spin'[h]] = "scan" /\ bcache_hash(want'[spin'[h]]) = h
      <2>1. spin[h] \in Threads /\ pc[spin[h]] = "scan" /\ own(spin[h]) = h
          BY <1>0, <1>1 DEF Inv, CacheInv, SpinHeld, TypeOK
      <2> QED
          BY <2>1 DEF own
  <1>2. ASSUME NEW s \in Threads, pc'[s] = "scan"
        PROVE  /\ spin'[bcache_hash(want'[s])] = s
               /\ Cached(want[s])' = {} /\ Free(own(s))' = {}
      <2>1. s # t /\ pc[s] = "scan" /\ want'[s] = want[s]
          BY <1>2
      <2>2. spin[own(s)] = s /\ Cached(want[s]) = {} /\ Free(own(s)) = {}
          BY <2>1 DEF Inv, CacheInv, SpinHeld
      <2>3. Cached(want[s])' = {}
          BY <2>1, <2>2 DEF Cached
      <2>4. Free(own(s))' = {}
          <3> SUFFICES ASSUME NEW b \in Bufs, bucket[b] = own(s), refcnt'[b] = 0 PROVE FALSE
              BY <2>1 DEF Free, own
          <3>1. refcnt[b] # 0
              BY <2>2 DEF Free
          <3> QED
              BY <2>2, <3>1, CacheAssumption
      <2> QED
          BY <2>1, <2>2, <2>3, <2>4 DEF own
  <1>3. SpinHeld'
      BY <1>1, <1>2 DEF SpinHeld, own
  <1>4. LinkedInItsBucket' /\ OneBufferPerBlock'
      BY DEF Inv, CacheInv, LinkedInItsBucket, OneBufferPerBlock
  <1> QED
      BY <1>3, <1>4

\* Contents, the disk and the hands that buffers are in are left alone.
LEMMA StoreKept ==
    ASSUME Inv, UNCHANGED <<blockno, valid, data, lock, held, disk, pinned, content>>
    PROVE  DataCurrent' /\ DiskCurrent' /\ HolderSeesContent'
  <1>1. DataCurrent' /\ HolderSeesContent'
      BY DEF Inv, CacheInv, DataCurrent, HolderSeesContent
  <1>2. DiskCurrent'
      BY DEF Inv, CacheInv, DiskCurrent, Dirty
  <1> QED
      BY <1>1, <1>2

\* The counts, the pins and what threads refer to are left alone.
LEMMA CountsKept ==
    ASSUME Inv, UNCHANGED <<refcnt, pinned>>,
           \A s \in Threads, b \in Bufs : b \in Refs(s)' <=> b \in Refs(s)
    PROVE  RefcntExact'
  <1>1. \A b \in Bufs : Users(b)' = Users(b)
      BY DEF Users
  <1> QED
      BY <1>1 DEF Inv, RefcntExact, Users

\* The call of another thread is where it was.
LEMMA OthersKept ==
    ASSUME Inv, NEW s \in Threads, pc'[s] = pc[s], want'[s] = want[s], buf'[s] = buf[s],
           held'[s] = held[s], Refers(s) => blockno'[buf[s]] = blockno[buf[s]],
           buf[s] \in pinned' <=> buf[s] \in pinned,
           pc[s] = "unpin" => disk'[want[s]] = disk[want[s]] /\ data'[buf[s]] = data[buf[s]]
    PROVE  CallOrdered(s)' /\ RefersTo(s)'
  BY DEF Inv, CacheInv, CallsInOrder, CallOrdered, RefersToItsBlock, RefersTo, Refers, Holds

-----------------------------------------------------------------------------
(* One lemma per action.                                                   *)

\* bcache_init() establishes the invariant.
LEMMA InitCache == Init => Inv
  <1> SUFFICES ASSUME Init PROVE Inv
      OBVIOUS
  <1>1. TypeOK
      BY CacheAssumption DEF Init, TypeOK, Buckets, Labels
  <1>2. LinkedInItsBucket
      BY CacheAssumption DEF Init, LinkedInItsBucket, bcache_hash
  <1>3. OneBufferPerBlock /\ SpinHeld /\ LogLockHeld /\ LockHeld
      BY CacheAssumption DEF Init, OneBufferPerBlock, SpinHeld, LogLockHeld, LockHeld
  <1>4. DataCurrent /\ DiskCurrent /\ HolderSeesContent
      BY DEF Init, DataCurrent, DiskCurrent, HolderSeesContent
  <1>5. RefcntExact
      <2> SUFFICES ASSUME NEW b \in Bufs
                   PROVE  refcnt[b] = Cardinality(Users(b)) + (IF b \in pinned THEN 1 ELSE 0)
          BY DEF RefcntExact, Users
      <2>1. Users(b) = {}
          BY CacheAssumption, RefsAre DEF Init, Users
      <2> QED
          BY <2>1, FS_EmptySet DEF Init
  <1>6. RefersToItsBlock
      BY DEF Init, RefersToItsBlock, RefersTo, Refers
  <1>7. CallsInOrder
      <2> SUFFICES ASSUME NEW t \in Threads PROVE CallOrdered(t)
          BY DEF CallsInOrder
      <2>1. Holds(t) = {}
          BY DEF Init, Holds
      <2>2. Cardinality(Holds(t)) <= MaxHeld
          BY <2>1, FS_EmptySet, CacheAssumption
      <2> QED
          BY <2>2 DEF Init, CallOrdered
  <1> QED
      BY <1>1, <1>2, <1>3, <1>4, <1>5, <1>6, <1>7 DEF Inv, CacheInv

\* bread() is called, maybe by a thread that holds other buffers.
LEMMA BreadKeepsInv ==
    ASSUME NEW t \in Threads, NEW n \in Blocks, Inv, Bread(t, n)
    PROVE  Inv'
  <1> USE DEF bufVars, storeVars
  <1>0. TypeOK /\ buf[t] = NoBuf /\ pc[t] = "run"
      BY DEF Inv, CacheInv, RefersToItsBlock, RefersTo, Refers, Bread
  <1>1. TypeOK'
      BY <1>0 DEF TypeOK, Bread, Labels
  <1>2. \A s \in Threads : s # t => pc'[s] = pc[s] /\ want'[s] = want[s]
      BY <1>0 DEF TypeOK, Bread
  <1>3. pc'[t] = "bget" /\ want'[t] = n
      BY <1>0 DEF TypeOK, Bread
  <1>4. SpinHeld' /\ LinkedInItsBucket' /\ OneBufferPerBlock'
      BY <1>0, <1>2, <1>3, SpinHeldKept DEF Bread
  <1>5. DataCurrent' /\ DiskCurrent' /\ HolderSeesContent'
      BY StoreKept DEF Bread
  <1>6. LogLockHeld' /\ LockHeld'
      BY <1>0, <1>2, <1>3 DEF Inv, CacheInv, LogLockHeld, LockHeld, Bread
  <1>7. \A s \in Threads : s # t => CallOrdered(s)' /\ RefersTo(s)'
      BY <1>2, OthersKept DEF Bread
  <1>8. RefersTo(t)'
      BY <1>0, <1>3 DEF RefersTo, Refers, Bread
  <1>9. CallOrdered(t)'
      <2>1. Holds(t)' = Holds(t)
          BY DEF Holds, Bread
      <2>2. Cardinality(Holds(t)) < MaxHeld /\ \A m \in Holds(t) : Level[m] < Level[n]
          BY DEF Bread
      <2>3. n \notin Holds(t)
          BY <2>2, CacheAssumption
      <2>4. Cardinality(Holds(t)) <= MaxHeld
          BY <2>2, HoldsFinite, CacheAssumption
      <2> QED
          BY <1>3, <2>1, <2>2, <2>3, <2>4 DEF CallOrdered, Holds, Bread
  <1>10. RefcntExact'
      BY CountsKept DEF Bread, Refs
  <1> QED
      BY <1>1, <1>4, <1>5, <1>6, <1>7, <1>8, <1>9, <1>10
      DEF Inv, CacheInv, RefersToItsBlock, CallsInOrder

\* A hit is one user more of the buffer; nothing is recycled.
LEMMA BgetHitKeepsInv ==
    ASSUME NEW t \in Threads, Inv, BgetHit(t)
    PROVE  Inv'
  <1> USE DEF bufVars, storeVars
  <1>0. TypeOK /\ buf[t] = NoBuf /\ want[t] \in Blocks /\ held[t][want[t]] = NoBuf
      BY DEF Inv, CacheInv, RefersToItsBlock, RefersTo, Refers, CallsInOrder, CallOrdered, BgetHit
  <1> PICK c \in Cached(want[t]) :
            /\ refcnt' = [refcnt EXCEPT ![c] = @ + 1]
            /\ buf' = [buf EXCEPT ![t] = c]
      BY DEF BgetHit
  <1>c. c \in Bufs /\ blockno[c] = want[t]
      BY DEF Cached
  <1>r. c \notin Refs(t)
      <2>1. \A n \in Blocks : held[t][n] # c
          BY <1>0, <1>c, CacheAssumption DEF Inv, HolderSeesContent
      <2> QED
          BY <1>0, <1>c, <2>1, RefsAre, CacheAssumption
  <1>1. TypeOK'
      BY <1>0, <1>c DEF TypeOK, BgetHit, Labels
  <1>2. \A s \in Threads : s # t => pc'[s] = pc[s] /\ buf'[s] = buf[s] /\ want'[s] = want[s]
      BY <1>0 DEF TypeOK, BgetHit
  <1>3. pc'[t] = "mutex" /\ buf'[t] = c /\ pc[t] = "bget" /\ want'[t] = want[t]
      BY <1>0 DEF TypeOK, BgetHit
  <1>4. SpinHeld' /\ LinkedInItsBucket' /\ OneBufferPerBlock'
      <2>1. \A b \in Bufs : refcnt'[b] = 0 => refcnt[b] = 0
          BY <1>0, <1>c DEF TypeOK
      <2> QED
          BY <1>2, <1>3, <2>1, SpinHeldKept DEF BgetHit
  <1>5. DataCurrent' /\ DiskCurrent' /\ HolderSeesContent'
      BY StoreKept DEF BgetHit
  <1>6. LogLockHeld' /\ LockHeld'
      BY <1>2, <1>3 DEF Inv, CacheInv, LogLockHeld, LockHeld, BgetHit
  <1>7. \A s \in Threads : s # t => CallOrdered(s)' /\ RefersTo(s)'
      BY <1>2, OthersKept DEF BgetHit
  <1>8. RefersTo(t)'
      BY <1>0, <1>c, <1>3 DEF RefersTo, Refers, BgetHit
  <1>9. CallOrdered(t)'
      BY <1>3 DEF Inv, CacheInv, CallsInOrder, CallOrdered, Holds, BgetHit
  <1>10. RefcntExact'
      <2> SUFFICES ASSUME NEW b \in Bufs
                   PROVE  refcnt'[b] = Cardinality(Users(b)') + (IF b \in pinned THEN 1 ELSE 0)
          BY DEF RefcntExact, Users, BgetHit
      <2>1. refcnt[b] = Cardinality(Users(b)) + (IF b \in pinned THEN 1 ELSE 0)
          BY DEF Inv, RefcntExact, Users
      <2>2. refcnt'[b] = refcnt[b] + (IF b = c THEN 1 ELSE 0)
          BY <1>0 DEF TypeOK
      <2>3. Cardinality(Users(b)') = Cardinality(Users(b)) + (IF b = c THEN 1 ELSE 0)
          BY <1>0, <1>c, <1>r, UsersAdded DEF BgetHit
      <2> QED
          BY <2>1, <2>2, <2>3, UsersFinite
  <1> QED
      BY <1>1, <1>4, <1>5, <1>6, <1>7, <1>8, <1>9, <1>10
      DEF Inv, CacheInv, RefersToItsBlock, CallsInOrder

\* A free buffer b becomes that of a block that is cached nowhere and that no
\* other thread is about to cache: what all but the spin locks are like after.
LEMMA RecycleKeeps ==
    ASSUME NEW t \in Threads, NEW b \in Bufs, Inv, Recycle(t, b), refcnt[b] = 0,
           pc[t] \in {"bget", "scan"}, Cached(want[t]) = {},
           \A s \in Threads : s # t /\ pc[s] = "scan" => want[s] # want[t],
           hidx' = hidx, spin' \in [Buckets -> Threads \cup {Nobody}]
    PROVE  /\ TypeOK' /\ LinkedInItsBucket' /\ OneBufferPerBlock' /\ LogLockHeld'
           /\ RefersToItsBlock' /\ LockHeld' /\ CallsInOrder' /\ DataCurrent' /\ DiskCurrent'
           /\ RefcntExact' /\ HolderSeesContent'
           /\ \A s \in Threads : s # t => pc'[s] = pc[s] /\ want'[s] = want[s]
           /\ \A s \in Threads : s # t /\ pc[s] = "scan" =>
                  Cached(want[s])' = {} /\ Free(own(s))' = {}
           /\ pc'[t] = "mutex"
  <1> USE DEF storeVars
  <1>0. TypeOK /\ buf[t] = NoBuf /\ want[t] \in Blocks
      BY DEF Inv, CacheInv, RefersToItsBlock, RefersTo, Refers
  <1>u. b \notin pinned /\ \A s \in Threads : b \notin Refs(s)
      BY Unreferenced DEF Inv
  <1>v. \A s \in Threads : buf[s] # b /\ \A n \in Blocks : held[s][n] # b
      BY <1>u, RefsAre
  <1>n. \A c \in Bufs : blockno[c] # want[t]
      BY CachedAnywhere DEF Inv, CacheInv
  <1>1. TypeOK'
      <2>1. own(t) \in Buckets
          BY <1>0, HashIsBucket DEF own
      <2> QED
          BY <1>0, <2>1 DEF TypeOK, Recycle, Reset, Labels
  <1>2. \A s \in Threads : s # t => pc'[s] = pc[s] /\ buf'[s] = buf[s] /\ want'[s] = want[s]
      BY <1>0 DEF TypeOK, Recycle
  <1>3. pc'[t] = "mutex" /\ buf'[t] = b /\ want'[t] = want[t]
      BY <1>0 DEF TypeOK, Recycle
  <1>4. \A c \in Bufs : c # b =>
            blockno'[c] = blockno[c] /\ valid'[c] = valid[c] /\ bucket'[c] = bucket[c]
      BY <1>0 DEF TypeOK, Recycle, Reset
  <1>5. blockno'[b] = want[t] /\ ~valid'[b] /\ bucket'[b] = own(t)
      BY <1>0 DEF TypeOK, Recycle, Reset
  <1>6. LinkedInItsBucket'
      BY <1>4, <1>5 DEF Inv, CacheInv, LinkedInItsBucket, own, bcache_hash
  <1>7. OneBufferPerBlock'
      BY <1>n, <1>4, <1>5 DEF Inv, CacheInv, OneBufferPerBlock
  <1>8. ASSUME NEW s \in Threads, s # t PROVE CallOrdered(s)' /\ RefersTo(s)'
      <2>1. Refers(s) => buf[s] \in Bufs /\ buf[s] # b
          BY <1>v DEF Inv, CacheInv, RefersToItsBlock, RefersTo
      <2>2. Refers(s) => blockno'[buf[s]] = blockno[buf[s]]
          BY <2>1, <1>4
      <2> QED
          BY <1>2, <1>8, <2>2, OthersKept DEF Recycle
  <1>9. CallOrdered(t)' /\ RefersTo(t)'
      <2>1. RefersTo(t)'
          BY <1>0, <1>3, <1>5 DEF RefersTo, Refers
      <2>2. CallOrdered(t)'
          BY <1>3 DEF Inv, CacheInv, CallsInOrder, CallOrdered, Holds, Recycle
      <2> QED
          BY <2>1, <2>2
  <1>10. LogLockHeld' /\ LockHeld'
      BY <1>0, <1>v, <1>2, <1>3 DEF Inv, CacheInv, LogLockHeld, LockHeld, Recycle
  <1>11. DataCurrent'
      BY <1>4, <1>5 DEF Inv, CacheInv, DataCurrent, Recycle
  <1>12. DiskCurrent'
      <2> SUFFICES ASSUME NEW n \in Blocks, disk[n] # content[n]
                   PROVE  \E c \in Bufs : blockno'[c] = n /\ Dirty(c)'
          BY DEF DiskCurrent, Recycle
      <2>1. PICK c \in Bufs : blockno[c] = n /\ Dirty(c)
          BY DEF Inv, CacheInv, DiskCurrent
      <2>2. c # b
          BY <2>1, <1>u, <1>v DEF Dirty
      <2>3. Dirty(c)'
          BY <2>1, <2>2, <1>4 DEF Dirty, Recycle
      <2> QED
          BY <2>1, <2>2, <2>3, <1>4
  <1>13. HolderSeesContent'
      <2> SUFFICES ASSUME NEW s \in Threads, NEW n \in Blocks, held[s][n] # NoBuf
                   PROVE  /\ lock[held[s][n]] = s
                          /\ blockno'[held[s][n]] = n
                          /\ valid'[held[s][n]]
                          /\ data[held[s][n]] = content[n]
          BY DEF HolderSeesContent, Recycle
      <2>1. held[s][n] \in Bufs /\ held[s][n] # b
          BY <1>v, HeldIs
      <2> QED
          BY <2>1, <1>4, HeldIs
  <1>14. RefcntExact'
      <2> SUFFICES ASSUME NEW c \in Bufs
                   PROVE  refcnt'[c] = Cardinality(Users(c)') + (IF c \in pinned THEN 1 ELSE 0)
          BY DEF RefcntExact, Users, Recycle
      <2>1. refcnt[c] = Cardinality(Users(c)) + (IF c \in pinned THEN 1 ELSE 0)
          BY DEF Inv, RefcntExact, Users
      <2>2. refcnt'[c] = refcnt[c] + (IF c = b THEN 1 ELSE 0)
          BY <1>0 DEF TypeOK, Recycle, Reset
      <2>3. Cardinality(Users(c)') = Cardinality(Users(c)) + (IF c = b THEN 1 ELSE 0)
          BY <1>0, <1>u, UsersAdded DEF Recycle
      <2> QED
          BY <2>1, <2>2, <2>3, UsersFinite
  <1>15. ASSUME NEW s \in Threads, s # t, pc[s] = "scan"
         PROVE  Cached(want[s])' = {} /\ Free(own(s))' = {}
      <2>0. Cached(want[s]) = {} /\ Free(own(s)) = {} /\ want'[s] = want[s] /\ want[s] # want[t]
          BY <1>2, <1>15 DEF Inv, CacheInv, SpinHeld
      <2>1. Cached(want[s])' = {}
          BY <2>0, <1>4, <1>5 DEF Cached
      <2>2. refcnt'[b] # 0 /\ \A c \in Bufs : c # b => refcnt'[c] = refcnt[c]
          BY <1>0 DEF TypeOK, Recycle, Reset
      <2>3. Free(own(s))' = {}
          BY <2>0, <2>2, <1>4 DEF Free, own
      <2> QED
          BY <2>1, <2>3
  <1> QED
      BY <1>1, <1>2, <1>3, <1>6, <1>7, <1>8, <1>9, <1>10, <1>11, <1>12, <1>13, <1>14, <1>15
      DEF RefersToItsBlock, CallsInOrder

\* A miss that finds a free buffer in the bucket of its block.
LEMMA BgetRecycleKeepsInv ==
    ASSUME NEW t \in Threads, Inv, BgetRecycle(t)
    PROVE  Inv'
  <1>0. TypeOK /\ pc[t] = "bget" /\ spin' = spin
      BY DEF Inv, CacheInv, BgetRecycle
  <1>1. PICK b \in Free(own(t)) : Recycle(t, b)
      BY DEF BgetRecycle
  <1>2. b \in Bufs /\ refcnt[b] = 0
      BY DEF Free
  <1>3. \A s \in Threads : s # t /\ pc[s] = "scan" => want[s] # want[t]
      BY CacheAssumption DEF Inv, CacheInv, SpinHeld, BgetRecycle, own
  <1>4. /\ TypeOK' /\ LinkedInItsBucket' /\ OneBufferPerBlock' /\ LogLockHeld'
        /\ RefersToItsBlock' /\ LockHeld' /\ CallsInOrder' /\ DataCurrent' /\ DiskCurrent'
        /\ RefcntExact' /\ HolderSeesContent'
        /\ \A s \in Threads : s # t => pc'[s] = pc[s] /\ want'[s] = want[s]
        /\ \A s \in Threads : s # t /\ pc[s] = "scan" =>
               Cached(want[s])' = {} /\ Free(own(s))' = {}
        /\ pc'[t] = "mutex"
      BY <1>0, <1>1, <1>2, <1>3, RecycleKeeps DEF BgetRecycle, TypeOK
  <1>5. SpinHeld'
      <2>1. \A h \in Buckets : spin[h] # Nobody => spin[h] # t /\ spin[h] \in Threads
          BY <1>0 DEF Inv, CacheInv, SpinHeld, TypeOK
      <2> QED
          BY <1>0, <1>4, <2>1 DEF Inv, CacheInv, SpinHeld, own
  <1> QED
      BY <1>4, <1>5 DEF Inv, CacheInv

\* A miss that steals a free buffer of another bucket and unlocks its own.
LEMMA BgetStealKeepsInv ==
    ASSUME NEW t \in Threads, Inv, BgetSteal(t)
    PROVE  Inv'
  <1>0. TypeOK /\ pc[t] = "scan" /\ spin[own(t)] = t /\ Cached(want[t]) = {}
      BY DEF Inv, CacheInv, SpinHeld, BgetSteal
  <1>1. PICK b \in Free(hidx[t]) : Recycle(t, b)
      BY DEF BgetSteal
  <1>2. b \in Bufs /\ refcnt[b] = 0
      BY DEF Free
  <1>3. \A s \in Threads : s # t /\ pc[s] = "scan" => own(s) # own(t)
      BY <1>0 DEF Inv, CacheInv, SpinHeld
  <1>4. own(t) \in Buckets /\ spin' = [spin EXCEPT ![own(t)] = Nobody]
      BY <1>0, HashIsBucket DEF TypeOK, own, BgetSteal
  <1>5. spin' \in [Buckets -> Threads \cup {Nobody}]
      BY <1>0, <1>4 DEF TypeOK
  <1>6. /\ TypeOK' /\ LinkedInItsBucket' /\ OneBufferPerBlock' /\ LogLockHeld'
        /\ RefersToItsBlock' /\ LockHeld' /\ CallsInOrder' /\ DataCurrent' /\ DiskCurrent'
        /\ RefcntExact' /\ HolderSeesContent'
        /\ \A s \in Threads : s # t => pc'[s] = pc[s] /\ want'[s] = want[s]
        /\ \A s \in Threads : s # t /\ pc[s] = "scan" =>
               Cached(want[s])' = {} /\ Free(own(s))' = {}
        /\ pc'[t] = "mutex"
      <2>1. \A s \in Threads : s # t /\ pc[s] = "scan" => want[s] # want[t]
          BY <1>3 DEF own
      <2> QED
          BY <1>0, <1>1, <1>2, <1>5, <2>1, RecycleKeeps DEF BgetSteal
  <1>7. SpinHeld'
      <2>1. \A h \in Buckets : h # own(t) => spin'[h] = spin[h]
          BY <1>0, <1>4 DEF TypeOK
      <2>2. spin'[own(t)] = Nobody
          BY <1>0, <1>4 DEF TypeOK
      <2>3. \A s \in Threads : own(s) \in Buckets /\ (s # t => bcache_hash(want'[s]) = own(s))
          BY <1>0, <1>6, HashIsBucket DEF TypeOK, own, bcache_hash
      <2>4. ASSUME NEW h \in Buckets, spin'[h] # Nobody
            PROVE  pc'[spin'[h]] = "scan" /\ bcache_hash(want'[spin'[h]]) = h
          <3>1. h # own(t) /\ spin'[h] = spin[h] /\ spin[h] \in Threads
              BY <1>0, <2>1, <2>2, <2>4 DEF TypeOK
          <3>2. pc[spin[h]] = "scan" /\ own(spin[h]) = h
              BY <2>4, <3>1 DEF Inv, CacheInv, SpinHeld
          <3> QED
              BY <1>6, <2>3, <3>1, <3>2
      <2>5. ASSUME NEW s \in Threads, pc'[s] = "scan"
            PROVE  /\ spin'[bcache_hash(want'[s])] = s
                   /\ Cached(want[s])' = {} /\ Free(own(s))' = {}
          <3>1. s # t /\ pc[s] = "scan"
              BY <1>6, <2>5
          <3> QED
              BY <1>3, <1>6, <2>1, <2>3, <3>1 DEF Inv, CacheInv, SpinHeld
      <2> QED
          BY <2>4, <2>5 DEF SpinHeld, own
  <1> QED
      BY <1>6, <1>7 DEF Inv, CacheInv

\* A miss in a bucket without free buffers keeps the spin lock of its bucket.
LEMMA BgetMissKeepsInv ==
    ASSUME NEW t \in Threads, Inv, BgetMiss(t)
    PROVE  Inv'
  <1> USE DEF bufVars, storeVars
  <1>0. TypeOK /\ buf[t] = NoBuf /\ want[t] \in Blocks /\ own(t) \in Buckets
      BY HashIsBucket DEF Inv, CacheInv, RefersToItsBlock, RefersTo, Refers, BgetMiss, own
  <1>1. TypeOK'
      <2>1. FirstBucket(own(t)) \in Buckets
          BY <1>0, CacheAssumption DEF FirstBucket, Buckets
      <2> QED
          BY <1>0, <2>1 DEF TypeOK, BgetMiss, Labels
  <1>2. \A s \in Threads : s # t => pc'[s] = pc[s]
      BY <1>0 DEF TypeOK, BgetMiss
  <1>3. pc'[t] = "scan" /\ pc[t] = "bget"
      BY <1>0 DEF TypeOK, BgetMiss
  <1>4. LinkedInItsBucket' /\ OneBufferPerBlock'
      BY DEF Inv, CacheInv, LinkedInItsBucket, OneBufferPerBlock, BgetMiss
  <1>5. SpinHeld'
      <2>1. spin'[own(t)] = t /\ spin[own(t)] = Nobody
          BY <1>0 DEF TypeOK, BgetMiss
      <2>2. \A h \in Buckets : h # own(t) => spin'[h] = spin[h]
          BY <1>0 DEF TypeOK, BgetMiss
      <2>3. \A s \in Threads : own(s) \in Buckets
          BY <1>0, HashIsBucket DEF TypeOK, own
      <2>4. ASSUME NEW h \in Buckets, spin'[h] # Nobody
            PROVE  pc'[spin'[h]] = "scan" /\ bcache_hash(want'[spin'[h]]) = h
          <3>1. CASE h = own(t)
              BY <1>3, <2>1, <3>1 DEF own, BgetMiss
          <3>2. CASE h # own(t)
              <4>1. spin'[h] = spin[h] /\ spin[h] \in Threads
                  BY <1>0, <2>2, <2>4, <3>2 DEF TypeOK
              <4>2. pc[spin[h]] = "scan" /\ own(spin[h]) = h
                  BY <2>4, <4>1 DEF Inv, CacheInv, SpinHeld
              <4> QED
                  BY <1>2, <1>3, <4>1, <4>2 DEF own, BgetMiss
          <3> QED
              BY <3>1, <3>2
      <2>5. ASSUME NEW s \in Threads, pc'[s] = "scan"
            PROVE  /\ spin'[bcache_hash(want'[s])] = s
                   /\ Cached(want[s])' = {} /\ Free(own(s))' = {}
          <3>1. CASE s = t
              BY <2>1, <3>1 DEF own, Cached, Free, BgetMiss
          <3>2. CASE s # t
              <4>1. spin[own(s)] = s /\ Cached(want[s]) = {} /\ Free(own(s)) = {}
                  BY <1>2, <2>5, <3>2 DEF Inv, CacheInv, SpinHeld
              <4>2. own(s) # own(t)
                  BY <2>1, <4>1, CacheAssumption
              <4> QED
                  BY <2>2, <2>3, <4>1, <4>2 DEF own, Cached, Free, BgetMiss
          <3> QED
              BY <3>1, <3>2
      <2> QED
          BY <2>4, <2>5 DEF SpinHeld, own
  <1>6. LogLockHeld' /\ LockHeld'
      BY <1>2, <1>3 DEF Inv, CacheInv, LogLockHeld, LockHeld, BgetMiss
  <1>7. \A s \in Threads : s # t => CallOrdered(s)' /\ RefersTo(s)'
      BY <1>2, OthersKept DEF BgetMiss
  <1>8. CallOrdered(t)' /\ RefersTo(t)'
      BY <1>0, <1>3 DEF Inv, CacheInv, CallsInOrder, CallOrdered, RefersTo, Refers, Holds, BgetMiss
  <1>9. DataCurrent' /\ DiskCurrent' /\ HolderSeesContent'
      BY StoreKept DEF BgetMiss
  <1>10. RefcntExact'
      BY CountsKept DEF BgetMiss, Refs
  <1> QED
      BY <1>1, <1>4, <1>5, <1>6, <1>7, <1>8, <1>9, <1>10
      DEF Inv, CacheInv, RefersToItsBlock, CallsInOrder

\* The search goes on; it never comes to a number that is no bucket.
LEMMA BgetSkipKeepsInv ==
    ASSUME NEW t \in Threads, Inv, BgetSkip(t)
    PROVE  Inv'
  <1> USE DEF bufVars, storeVars
  <1>1. TypeOK'
      <2>1. TypeOK /\ hidx[t] \in Buckets
          BY DEF Inv, CacheInv, TypeOK
      <2>2. \A i \in Nat : i % NBUCKET \in Buckets
          BY CacheAssumption DEF Buckets
      <2>3. \A i \in Buckets : i + 1 \in Nat
          BY CacheAssumption DEF Buckets
      <2>4. NextBucket(hidx[t], own(t)) \in Buckets
          BY <2>1, <2>2, <2>3 DEF NextBucket
      <2> QED
          BY <2>1, <2>4 DEF TypeOK, BgetSkip
  <1>2. LinkedInItsBucket' /\ OneBufferPerBlock' /\ LogLockHeld' /\ LockHeld'
      BY DEF Inv, CacheInv, LinkedInItsBucket, OneBufferPerBlock, LogLockHeld, LockHeld, BgetSkip
  <1>3. SpinHeld'
      BY DEF Inv, CacheInv, SpinHeld, own, Cached, Free, BgetSkip
  <1>4. DataCurrent' /\ DiskCurrent' /\ HolderSeesContent'
      BY StoreKept DEF BgetSkip
  <1>5. RefcntExact'
      BY CountsKept DEF BgetSkip, Refs
  <1>6. \A s \in Threads : CallOrdered(s)' /\ RefersTo(s)'
      BY OthersKept DEF BgetSkip
  <1> QED
      BY <1>1, <1>2, <1>3, <1>4, <1>5, <1>6 DEF Inv, CacheInv, RefersToItsBlock, CallsInOrder

\* The mutex is taken from nobody.
LEMMA BgetLockKeepsInv ==
    ASSUME NEW t \in Threads, Inv, BgetLock(t)
    PROVE  Inv'
  <1> USE DEF storeVars, callVars
  <1>0. TypeOK /\ buf[t] \in Bufs /\ pc[t] = "mutex" /\ blockno[buf[t]] = want[t]
      BY DEF Inv, CacheInv, RefersToItsBlock, RefersTo, Refers, BgetLock
  <1>1. TypeOK'
      BY <1>0 DEF TypeOK, BgetLock, Labels
  <1>2. \A s \in Threads : s # t => pc'[s] = pc[s]
      BY <1>0 DEF TypeOK, BgetLock
  <1>3. pc'[t] = "locked"
      BY <1>0 DEF TypeOK, BgetLock
  <1>4. SpinHeld' /\ LinkedInItsBucket' /\ OneBufferPerBlock'
      BY <1>0, <1>2, <1>3, SpinHeldKept DEF BgetLock
  <1>5. LogLockHeld'
      BY <1>0, <1>2, <1>3 DEF Inv, CacheInv, LogLockHeld, BgetLock
  <1>6. lock'[buf[t]] = t /\ \A b \in Bufs : b # buf[t] => lock'[b] = lock[b]
      BY <1>0 DEF TypeOK, BgetLock
  <1>7. \A s \in Threads : /\ pc[s] = "locked" => buf[s] # buf[t]
                           /\ \A n \in Blocks : held[s][n] # buf[t]
      BY <1>0, CacheAssumption DEF Inv, CacheInv, LockHeld, BgetLock
  <1>8. LockHeld'
      <2> SUFFICES ASSUME NEW b \in Bufs, NEW s \in Threads
                   PROVE  lock'[b] = s <=> \/ pc'[s] = "locked" /\ buf[s] = b
                                           \/ \E n \in Blocks : held[s][n] = b
          BY DEF LockHeld, BgetLock
      <2>1. CASE b = buf[t]
          BY <1>2, <1>3, <1>6, <1>7, <2>1
      <2>2. CASE b # buf[t]
          BY <1>0, <1>2, <1>3, <1>6, <2>2 DEF Inv, CacheInv, LockHeld
      <2> QED
          BY <2>1, <2>2
  <1>9. \A s \in Threads : s # t => CallOrdered(s)' /\ RefersTo(s)'
      BY <1>2, OthersKept DEF BgetLock
  <1>10. CallOrdered(t)' /\ RefersTo(t)'
      BY <1>0, <1>3 DEF Inv, CacheInv, CallsInOrder, CallOrdered, RefersToItsBlock, RefersTo, Refers,
                        Holds, BgetLock
  <1>11. DataCurrent' /\ DiskCurrent'
      BY DEF Inv, CacheInv, DataCurrent, DiskCurrent, Dirty, BgetLock
  <1>12. HolderSeesContent'
      <2> SUFFICES ASSUME NEW s \in Threads, NEW n \in Blocks, held[s][n] # NoBuf
                   PROVE  lock'[held[s][n]] = s
          BY DEF Inv, HolderSeesContent, BgetLock
      <2> QED
          BY <1>6, <1>7, HeldIs
  <1>13. RefcntExact'
      BY CountsKept DEF BgetLock, Refs
  <1> QED
      BY <1>1, <1>4, <1>5, <1>8, <1>9, <1>10, <1>11, <1>12, <1>13
      DEF Inv, CacheInv, RefersToItsBlock, CallsInOrder

\* bread() fills an invalid buffer: the disk has what was stored last, since
\* no other buffer of the block could have kept it.
LEMMA BreadFillKeepsInv ==
    ASSUME NEW t \in Threads, Inv, BreadFill(t)
    PROVE  Inv'
  <1> USE DEF storeVars
  <1> DEFINE b == buf[t]
             n == want[t]
  <1>0. /\ TypeOK /\ b \in Bufs /\ pc[t] = "locked" /\ held[t][n] = NoBuf
        /\ blockno[b] = n /\ n \in Blocks /\ lock[b] = t
      BY DEF Inv, CacheInv, RefersToItsBlock, RefersTo, LockHeld, Refers, CallsInOrder, CallOrdered,
             BreadFill
  <1>2. \A s \in Threads : s # t =>
            pc'[s] = pc[s] /\ want'[s] = want[s] /\ buf'[s] = buf[s] /\ held'[s] = held[s]
      BY <1>0 DEF TypeOK, BreadFill, Return
  <1>3. pc'[t] = "run" /\ buf'[t] = NoBuf
      BY <1>0 DEF TypeOK, BreadFill, Return
  <1>h. held'[t][n] = b /\ \A m \in Blocks : m # n => held'[t][m] = held[t][m]
      BY <1>0 DEF TypeOK, BreadFill
  <1>f. ~valid[b] => disk[n] = content[n]
      <2> SUFFICES ASSUME ~valid[b], disk[n] # content[n] PROVE FALSE
          OBVIOUS
      <2>1. PICK c \in Bufs : blockno[c] = n /\ Dirty(c)
          BY <1>0 DEF Inv, CacheInv, DiskCurrent
      <2>2. c = b
          BY <2>1, <1>0, CacheAssumption DEF Inv, CacheInv, OneBufferPerBlock
      <2> QED
          BY <2>1, <2>2 DEF Dirty
  <1>4. valid'[b] /\ data'[b] = content[n]
      BY <1>0, <1>f DEF Inv, CacheInv, DataCurrent, TypeOK, BreadFill
  <1>5. \A c \in Bufs : c # b => valid'[c] = valid[c] /\ data'[c] = data[c]
      BY <1>0 DEF TypeOK, BreadFill
  <1>6. TypeOK'
      <2>1. disk[n] \in Vals
          BY <1>0 DEF TypeOK
      <2>2. valid' \in [Bufs -> BOOLEAN] /\ data' \in [Bufs -> Vals]
          BY <1>0, <2>1 DEF TypeOK, BreadFill
      <2>3. held' \in [Threads -> [Blocks -> Bufs \cup {NoBuf}]]
          BY <1>0 DEF TypeOK, BreadFill
      <2> QED
          BY <1>0, <2>2, <2>3 DEF TypeOK, BreadFill, Return, Labels
  <1>7. SpinHeld' /\ LinkedInItsBucket' /\ OneBufferPerBlock'
      BY <1>0, <1>2, <1>3, SpinHeldKept DEF BreadFill
  <1>8. LogLockHeld'
      BY <1>0, <1>2, <1>3 DEF Inv, CacheInv, LogLockHeld, BreadFill
  <1>9. LockHeld'
      <2> SUFFICES ASSUME NEW c \in Bufs, NEW s \in Threads
                   PROVE  lock[c] = s <=> \/ pc'[s] = "locked" /\ buf'[s] = c
                                          \/ \E m \in Blocks : held'[s][m] = c
          BY DEF LockHeld, BreadFill
      <2>1. CASE s # t
          BY <1>2, <2>1 DEF Inv, CacheInv, LockHeld
      <2>2. CASE s = t
          <3>1. (\E m \in Blocks : held'[t][m] = c) <=> c = b \/ \E m \in Blocks : held[t][m] = c
              BY <1>0, <1>h, CacheAssumption
          <3>2. lock[c] = t <=> c = b \/ \E m \in Blocks : held[t][m] = c
              BY <1>0 DEF Inv, CacheInv, LockHeld
          <3> QED
              BY <1>3, <2>2, <3>1, <3>2
      <2> QED
          BY <2>1, <2>2
  <1>10. ASSUME NEW s \in Threads, s # t PROVE CallOrdered(s)' /\ RefersTo(s)'
      <2>1. pc[s] = "unpin" => data'[buf[s]] = data[buf[s]]
          <3> SUFFICES ASSUME pc[s] = "unpin" PROVE buf[s] \in Bufs /\ buf[s] # b
              BY <1>5
          <3>1. buf[s] \in Bufs /\ want[s] \in Blocks /\ held[s][want[s]] = buf[s]
              BY DEF Inv, CacheInv, RefersToItsBlock, RefersTo, Refers, CallsInOrder, CallOrdered
          <3>2. lock[buf[s]] = s
              BY <3>1, HeldIs, CacheAssumption
          <3> QED
              BY <1>0, <1>10, <3>1, <3>2
      <2> QED
          BY <1>2, <1>10, <2>1, OthersKept DEF BreadFill
  <1>11. CallOrdered(t)' /\ RefersTo(t)'
      <2>1. Holds(t)' = Holds(t) \cup {n} /\ n \notin Holds(t)
          BY <1>0, <1>h, CacheAssumption DEF Holds
      <2>2. Cardinality(Holds(t)') = Cardinality(Holds(t)) + 1
          BY <2>1, HoldsFinite, FS_AddElement
      <2>3. Cardinality(Holds(t)) < MaxHeld
          BY <1>0 DEF Inv, CacheInv, CallsInOrder, CallOrdered
      <2>4. Cardinality(Holds(t)') <= MaxHeld
          BY <2>2, <2>3, HoldsFinite, CacheAssumption
      <2> QED
          BY <1>3, <2>4 DEF CallOrdered, RefersTo, Refers
  <1>12. DataCurrent'
      BY <1>0, <1>4, <1>5 DEF Inv, CacheInv, DataCurrent, BreadFill
  <1>13. DiskCurrent'
      <2> SUFFICES ASSUME NEW m \in Blocks, disk[m] # content[m]
                   PROVE  \E c \in Bufs : blockno[c] = m /\ Dirty(c)'
          BY DEF DiskCurrent, BreadFill
      <2>1. PICK c \in Bufs : blockno[c] = m /\ Dirty(c)
          BY DEF Inv, CacheInv, DiskCurrent
      <2>2. valid'[c]
          BY <2>1, <1>4, <1>5 DEF Dirty
      <2>3. c \in pinned \/ \E s \in Threads, k \in Blocks : held'[s][k] = c
          <3>1. CASE c \in pinned
              BY <3>1
          <3>2. ASSUME NEW s \in Threads, NEW k \in Blocks, held[s][k] = c
                PROVE  \E r \in Threads, j \in Blocks : held'[r][j] = c
              <4>1. held'[s][k] = c
                  BY <1>0, <1>2, <1>h, <3>2, CacheAssumption
              <4> QED
                  BY <4>1
          <3> QED
              BY <2>1, <3>1, <3>2 DEF Dirty
      <2> QED
          BY <2>1, <2>2, <2>3 DEF Dirty, BreadFill
  <1>14. HolderSeesContent'
      <2> SUFFICES ASSUME NEW s \in Threads, NEW m \in Blocks, held'[s][m] # NoBuf
                   PROVE  /\ lock[held'[s][m]] = s
                          /\ blockno[held'[s][m]] = m
                          /\ valid'[held'[s][m]]
                          /\ data'[held'[s][m]] = content[m]
          BY DEF HolderSeesContent, BreadFill
      <2>1. CASE s = t /\ m = n
          BY <1>0, <1>4, <1>h, <2>1
      <2>2. CASE ~(s = t /\ m = n)
          <3>1. held'[s][m] = held[s][m]
              BY <1>2, <1>h, <2>2
          <3>2. held[s][m] # b
              BY <1>0, <2>2, <3>1, HeldIs
          <3> QED
              BY <3>1, <3>2, <1>5, HeldIs
      <2> QED
          BY <2>1, <2>2
  <1>15. RefcntExact'
      <2>1. ASSUME NEW s \in Threads, NEW c \in Bufs PROVE c \in Refs(s)' <=> c \in Refs(s)
          <3>1. CASE s # t
              BY <1>2, <3>1 DEF Refs
          <3>2. CASE s = t
              BY <1>0, <1>3, <1>h, <3>2, CacheAssumption DEF Refs
          <3> QED
              BY <3>1, <3>2
      <2> QED
          BY <2>1, CountsKept DEF BreadFill
  <1> QED
      BY <1>6, <1>7, <1>8, <1>9, <1>10, <1>11, <1>12, <1>13, <1>14, <1>15
      DEF Inv, CacheInv, RefersToItsBlock, CallsInOrder

\* What the holder stores is in its buffer, and in no other.
LEMMA ModifyKeepsInv ==
    ASSUME NEW t \in Threads, NEW n \in Blocks, NEW v \in Vals, Inv, Modify(t, n, v)
    PROVE  Inv'
  <1> USE DEF callVars
  <1> DEFINE b == held[t][n]
  <1>0. TypeOK /\ b # NoBuf /\ pc[t] = "run"
      BY DEF Inv, CacheInv, Modify, Holds
  <1>b. b \in Bufs /\ blockno[b] = n /\ valid[b] /\ lock[b] = t
      BY <1>0, HeldIs
  <1>1. TypeOK'
      BY <1>0, <1>b DEF TypeOK, Modify
  <1>2. data'[b] = v /\ content'[n] = v
      BY <1>0, <1>b DEF TypeOK, Modify
  <1>3. \A c \in Bufs : c # b => data'[c] = data[c] /\ blockno[c] # n
      BY <1>0, <1>b, CacheAssumption DEF Inv, CacheInv, OneBufferPerBlock, TypeOK, Modify
  <1>4. \A m \in Blocks : m # n => content'[m] = content[m]
      BY <1>0 DEF TypeOK, Modify
  <1>5. SpinHeld' /\ LinkedInItsBucket' /\ OneBufferPerBlock'
      BY <1>0, SpinHeldKept DEF Modify
  <1>6. LogLockHeld' /\ LockHeld'
      BY DEF Inv, CacheInv, LogLockHeld, LockHeld, Modify
  <1>7. ASSUME NEW s \in Threads PROVE CallOrdered(s)' /\ RefersTo(s)'
      <2>1. pc[s] = "unpin" => data'[buf[s]] = data[buf[s]]
          <3> SUFFICES ASSUME pc[s] = "unpin" PROVE buf[s] \in Bufs /\ buf[s] # b
              BY <1>3
          <3>1. buf[s] \in Bufs /\ want[s] \in Blocks /\ held[s][want[s]] = buf[s]
              BY DEF Inv, CacheInv, RefersToItsBlock, RefersTo, Refers, CallsInOrder, CallOrdered
          <3>2. lock[buf[s]] = s
              BY <3>1, HeldIs, CacheAssumption
          <3> QED
              BY <1>0, <1>b, <3>1, <3>2
      <2> QED
          BY <2>1, OthersKept DEF Modify
  <1>8. DataCurrent'
      BY <1>b, <1>2, <1>3, <1>4 DEF Inv, CacheInv, DataCurrent, Modify
  <1>9. DiskCurrent'
      <2>1. Dirty(b)' /\ \A c \in Bufs : Dirty(c)' = Dirty(c)
          BY <1>0, <1>b DEF Dirty, Modify
      <2> QED
          BY <1>b, <1>4, <2>1 DEF Inv, CacheInv, DiskCurrent, Modify
  <1>10. HolderSeesContent'
      <2> SUFFICES ASSUME NEW s \in Threads, NEW m \in Blocks, held[s][m] # NoBuf
                   PROVE  data'[held[s][m]] = content'[m]
          BY DEF Inv, HolderSeesContent, Modify
      <2>1. held[s][m] \in Bufs /\ blockno[held[s][m]] = m /\ data[held[s][m]] = content[m]
          BY HeldIs
      <2> QED
          BY <1>b, <1>2, <1>3, <1>4, <2>1
  <1>11. RefcntExact'
      BY CountsKept DEF Modify, Refs
  <1> QED
      BY <1>1, <1>5, <1>6, <1>7, <1>8, <1>9, <1>10, <1>11
      DEF Inv, CacheInv, RefersToItsBlock, CallsInOrder

\* bwrite() brings the disk up to date.
LEMMA bwriteKeepsInv ==
    ASSUME NEW t \in Threads, NEW n \in Blocks, Inv, bwrite(t, n)
    PROVE  Inv'
  <1> USE DEF bufVars, callVars
  <1> DEFINE b == held[t][n]
  <1>0. TypeOK /\ b # NoBuf /\ pc[t] = "run"
      BY DEF Inv, CacheInv, bwrite, Holds
  <1>b. b \in Bufs /\ blockno[b] = n /\ data[b] = content[n] /\ lock[b] = t
      BY <1>0, HeldIs
  <1>1. TypeOK'
      <2>1. data[b] \in Vals
          BY <1>0, <1>b DEF TypeOK
      <2> QED
          BY <1>0, <1>b, <2>1 DEF TypeOK, bwrite
  <1>2. disk'[n] = content[n] /\ \A m \in Blocks : m # n => disk'[m] = disk[m]
      BY <1>0, <1>b DEF TypeOK, bwrite
  <1>3. SpinHeld' /\ LinkedInItsBucket' /\ OneBufferPerBlock'
      BY <1>0, SpinHeldKept DEF bwrite
  <1>4. LogLockHeld' /\ LockHeld'
      BY DEF Inv, CacheInv, LogLockHeld, LockHeld, bwrite
  <1>5. ASSUME NEW s \in Threads PROVE CallOrdered(s)' /\ RefersTo(s)'
      <2>1. pc[s] = "unpin" => disk'[want[s]] = disk[want[s]]
          <3> SUFFICES ASSUME pc[s] = "unpin" PROVE want[s] \in Blocks /\ want[s] # n
              BY <1>2
          <3>1. buf[s] \in Bufs /\ want[s] \in Blocks /\ held[s][want[s]] = buf[s]
              BY DEF Inv, CacheInv, RefersToItsBlock, RefersTo, Refers, CallsInOrder, CallOrdered
          <3>2. lock[buf[s]] = s /\ blockno[buf[s]] = want[s]
              BY <3>1, HeldIs, CacheAssumption
          <3>3. s # t
              BY <1>0
          <3> QED
              BY <1>b, <3>1, <3>2, <3>3, CacheAssumption DEF Inv, CacheInv, OneBufferPerBlock
      <2> QED
          BY <2>1, OthersKept DEF bwrite
  <1>6. DataCurrent' /\ HolderSeesContent'
      BY DEF Inv, CacheInv, DataCurrent, HolderSeesContent, bwrite
  <1>7. DiskCurrent'
      BY <1>2 DEF Inv, CacheInv, DiskCurrent, Dirty, bwrite
  <1>8. RefcntExact'
      BY CountsKept DEF bwrite, Refs
  <1> QED
      BY <1>1, <1>3, <1>4, <1>5, <1>6, <1>7, <1>8
      DEF Inv, CacheInv, RefersToItsBlock, CallsInOrder

\* A function is called with a held buffer: nothing but the call begins.
LEMMA CallKeepsInv ==
    ASSUME NEW t \in Threads, NEW n \in Blocks, NEW l \in {"log", "unpin"}, Inv, Call(t, n, l),
           UNCHANGED <<bufVars, storeVars, spin, loglock, hidx, held>>,
           l = "unpin" => held[t][n] \in pinned /\ disk[n] = data[held[t][n]]
    PROVE  Inv'
  <1> USE DEF bufVars, storeVars
  <1> DEFINE b == held[t][n]
  <1>0. TypeOK /\ b # NoBuf /\ pc[t] = "run" /\ buf[t] = NoBuf
      BY DEF Inv, CacheInv, Call, Holds, RefersToItsBlock, RefersTo, Refers
  <1>b. b \in Bufs /\ blockno[b] = n
      BY <1>0, HeldIs
  <1>1. TypeOK'
      BY <1>0, <1>b DEF TypeOK, Call, Labels
  <1>2. \A s \in Threads : s # t => pc'[s] = pc[s] /\ want'[s] = want[s] /\ buf'[s] = buf[s]
      BY <1>0 DEF TypeOK, Call
  <1>3. pc'[t] = l /\ want'[t] = n /\ buf'[t] = b
      BY <1>0 DEF TypeOK, Call
  <1>4. SpinHeld' /\ LinkedInItsBucket' /\ OneBufferPerBlock'
      BY <1>0, <1>2, <1>3, SpinHeldKept
  <1>5. LogLockHeld' /\ LockHeld'
      BY <1>0, <1>2, <1>3 DEF Inv, CacheInv, LogLockHeld, LockHeld
  <1>6. \A s \in Threads : s # t => CallOrdered(s)' /\ RefersTo(s)'
      BY <1>2, OthersKept
  <1>7. CallOrdered(t)' /\ RefersTo(t)'
      BY <1>b, <1>3 DEF Inv, CacheInv, CallsInOrder, CallOrdered, RefersTo, Refers, Holds
  <1>8. DataCurrent' /\ DiskCurrent' /\ HolderSeesContent'
      BY StoreKept
  <1>9. RefcntExact'
      <2>1. ASSUME NEW s \in Threads, NEW c \in Bufs PROVE c \in Refs(s)' <=> c \in Refs(s)
          BY <1>0, <1>2, <1>3, CacheAssumption DEF Refs
      <2> QED
          BY <2>1, CountsKept
  <1> QED
      BY <1>1, <1>4, <1>5, <1>6, <1>7, <1>8, <1>9
      DEF Inv, CacheInv, RefersToItsBlock, CallsInOrder

\* A call with a held buffer returns: what the thread refers to is the same.
LEMMA ReturnKeeps ==
    ASSUME NEW t \in Threads, Inv, pc[t] \in {"log", "pin", "unpin"}, Return(t), held' = held
    PROVE  /\ \A s \in Threads : s # t => pc'[s] = pc[s] /\ want'[s] = want[s] /\ buf'[s] = buf[s]
           /\ pc'[t] = "run" /\ buf'[t] = NoBuf
           /\ \A s \in Threads, c \in Bufs : c \in Refs(s)' <=> c \in Refs(s)
           /\ CallOrdered(t)' /\ RefersTo(t)'
           /\ buf[t] \in Bufs /\ want[t] \in Blocks /\ held[t][want[t]] = buf[t]
           /\ lock[buf[t]] = t /\ blockno[buf[t]] = want[t] /\ valid[buf[t]]
  <1>0. TypeOK
      BY DEF Inv, CacheInv
  <1>1. buf[t] \in Bufs /\ want[t] \in Blocks /\ held[t][want[t]] = buf[t]
      BY DEF Inv, CacheInv, RefersToItsBlock, RefersTo, Refers, CallsInOrder, CallOrdered
  <1>2. lock[buf[t]] = t /\ blockno[buf[t]] = want[t] /\ valid[buf[t]]
      BY <1>1, HeldIs, CacheAssumption
  <1>3. \A s \in Threads : s # t => pc'[s] = pc[s] /\ want'[s] = want[s] /\ buf'[s] = buf[s]
      BY <1>0 DEF TypeOK, Return
  <1>4. pc'[t] = "run" /\ buf'[t] = NoBuf
      BY <1>0 DEF TypeOK, Return
  <1>5. ASSUME NEW s \in Threads, NEW c \in Bufs PROVE c \in Refs(s)' <=> c \in Refs(s)
      <2>1. CASE s # t
          BY <1>3, <2>1 DEF Refs
      <2>2. CASE s = t
          BY <1>1, <1>4, <2>2, CacheAssumption DEF Refs
      <2> QED
          BY <2>1, <2>2
  <1>6. CallOrdered(t)' /\ RefersTo(t)'
      BY <1>4 DEF Inv, CacheInv, CallsInOrder, CallOrdered, RefersTo, Refers, Holds
  <1> QED
      BY <1>1, <1>2, <1>3, <1>4, <1>5, <1>6

\* logged_write() gets fslog.lock, from nobody.
LEMMA LogLockKeepsInv ==
    ASSUME NEW t \in Threads, Inv, LogLock(t)
    PROVE  Inv'
  <1> USE DEF bufVars, storeVars
  <1>0. TypeOK /\ pc[t] = "log" /\ \A s \in Threads : pc[s] # "pin"
      BY CacheAssumption DEF Inv, CacheInv, LogLockHeld, LogLock
  <1>1. DataCurrent' /\ DiskCurrent' /\ HolderSeesContent'
      BY StoreKept DEF LogLock
  <1>2. CASE buf[t] \in pinned
      <2>1. Return(t) /\ loglock' = loglock /\ held' = held
          BY <1>2 DEF LogLock
      <2>2. /\ \A s \in Threads : s # t => pc'[s] = pc[s] /\ want'[s] = want[s] /\ buf'[s] = buf[s]
            /\ pc'[t] = "run" /\ buf'[t] = NoBuf
            /\ \A s \in Threads, c \in Bufs : c \in Refs(s)' <=> c \in Refs(s)
            /\ CallOrdered(t)' /\ RefersTo(t)'
          BY <1>0, <2>1, ReturnKeeps
      <2>3. TypeOK'
          BY <1>0, <2>1 DEF TypeOK, Return, LogLock, Labels
      <2>4. SpinHeld' /\ LinkedInItsBucket' /\ OneBufferPerBlock'
          BY <1>0, <2>2, SpinHeldKept DEF LogLock
      <2>5. LogLockHeld' /\ LockHeld'
          BY <1>0, <2>1, <2>2 DEF Inv, CacheInv, LogLockHeld, LockHeld, LogLock
      <2>6. \A s \in Threads : s # t => CallOrdered(s)' /\ RefersTo(s)'
          BY <2>2, OthersKept DEF LogLock
      <2>7. RefcntExact'
          BY <2>2, CountsKept DEF LogLock
      <2> QED
          BY <1>1, <2>2, <2>3, <2>4, <2>5, <2>6, <2>7
          DEF Inv, CacheInv, RefersToItsBlock, CallsInOrder
  <1>3. CASE buf[t] \notin pinned
      <2>1. loglock' = t /\ pc' = [pc EXCEPT ![t] = "pin"] /\ UNCHANGED <<want, buf, held>>
          BY <1>3 DEF LogLock
      <2>2. pc'[t] = "pin" /\ \A s \in Threads : s # t => pc'[s] = pc[s]
          BY <1>0, <2>1 DEF TypeOK
      <2>3. TypeOK'
          BY <1>0, <2>1 DEF TypeOK, LogLock, Labels
      <2>4. SpinHeld' /\ LinkedInItsBucket' /\ OneBufferPerBlock'
          BY <1>0, <2>1, <2>2, SpinHeldKept DEF LogLock
      <2>5. LogLockHeld' /\ LockHeld'
          BY <1>0, <2>1, <2>2 DEF Inv, CacheInv, LogLockHeld, LockHeld, LogLock
      <2>6. \A s \in Threads : s # t => CallOrdered(s)' /\ RefersTo(s)'
          BY <2>1, <2>2, OthersKept DEF LogLock
      <2>7. CallOrdered(t)' /\ RefersTo(t)'
          BY <1>0, <1>3, <2>1, <2>2
          DEF Inv, CacheInv, CallsInOrder, CallOrdered, RefersToItsBlock, RefersTo, Refers, Holds, LogLock
      <2>8. RefcntExact'
          BY <2>1, CountsKept DEF LogLock, Refs
      <2> QED
          BY <1>1, <2>3, <2>4, <2>5, <2>6, <2>7, <2>8
          DEF Inv, CacheInv, RefersToItsBlock, CallsInOrder
  <1> QED
      BY <1>2, <1>3

\* The log pins the buffer that its caller holds, and lets fslog.lock go.
LEMMA bpinKeepsInv ==
    ASSUME NEW t \in Threads, Inv, bpin(t)
    PROVE  Inv'
  <1>0. TypeOK /\ pc[t] = "pin" /\ loglock = t /\ buf[t] \notin pinned /\ Return(t) /\ held' = held
      BY DEF Inv, CacheInv, LogLockHeld, CallsInOrder, CallOrdered, bpin
  <1>2. /\ \A s \in Threads : s # t => pc'[s] = pc[s] /\ want'[s] = want[s] /\ buf'[s] = buf[s]
        /\ pc'[t] = "run" /\ buf'[t] = NoBuf
        /\ \A s \in Threads, c \in Bufs : c \in Refs(s)' <=> c \in Refs(s)
        /\ CallOrdered(t)' /\ RefersTo(t)'
        /\ buf[t] \in Bufs /\ want[t] \in Blocks /\ held[t][want[t]] = buf[t]
        /\ lock[buf[t]] = t /\ blockno[buf[t]] = want[t] /\ valid[buf[t]]
      BY <1>0, ReturnKeeps
  <1>1. TypeOK'
      BY <1>0, <1>2 DEF TypeOK, Return, bpin, Labels
  <1>3. refcnt'[buf[t]] = refcnt[buf[t]] + 1 /\ \A b \in Bufs : b # buf[t] => refcnt'[b] = refcnt[b]
      BY <1>0, <1>2 DEF TypeOK, bpin
  <1>4. SpinHeld' /\ LinkedInItsBucket' /\ OneBufferPerBlock'
      <2>1. \A b \in Bufs : refcnt'[b] = 0 => refcnt[b] = 0
          BY <1>0, <1>2, <1>3 DEF TypeOK
      <2> QED
          BY <1>0, <1>2, <2>1, SpinHeldKept DEF bpin
  <1>5. LogLockHeld' /\ LockHeld'
      BY <1>0, <1>2, CacheAssumption DEF Inv, CacheInv, LogLockHeld, LockHeld, bpin
  <1>6. ASSUME NEW s \in Threads, s # t PROVE CallOrdered(s)' /\ RefersTo(s)'
      <2>1. pc[s] # "pin"
          BY <1>0, <1>6 DEF Inv, CacheInv, LogLockHeld
      <2>2. pc'[s] = pc[s] /\ want'[s] = want[s] /\ buf'[s] = buf[s] /\ pinned \subseteq pinned'
          BY <1>2, <1>6 DEF bpin
      <2> QED
          BY <2>1, <2>2 DEF Inv, CacheInv, CallsInOrder, CallOrdered, RefersToItsBlock, RefersTo, Refers,
                            Holds, bpin
  <1>7. DataCurrent' /\ DiskCurrent' /\ HolderSeesContent'
      BY DEF Inv, CacheInv, DataCurrent, DiskCurrent, Dirty, HolderSeesContent, bpin
  <1>8. RefcntExact'
      <2> SUFFICES ASSUME NEW b \in Bufs
                   PROVE  refcnt'[b] = Cardinality(Users(b)') + (IF b \in pinned' THEN 1 ELSE 0)
          BY DEF RefcntExact, Users
      <2>1. refcnt[b] = Cardinality(Users(b)) + (IF b \in pinned THEN 1 ELSE 0)
          BY DEF Inv, RefcntExact, Users
      <2>2. refcnt'[b] = refcnt[b] + (IF b = buf[t] THEN 1 ELSE 0)
          BY <1>0, <1>3 DEF TypeOK
      <2>3. Users(b)' = Users(b)
          BY <1>2 DEF Users
      <2>4. b \in pinned' <=> b \in pinned \/ b = buf[t]
          BY DEF bpin
      <2> QED
          BY <1>0, <2>1, <2>2, <2>3, <2>4, UsersFinite
  <1> QED
      BY <1>1, <1>2, <1>4, <1>5, <1>6, <1>7, <1>8
      DEF Inv, CacheInv, RefersToItsBlock, CallsInOrder

\* The log unpins a buffer that it holds; the count stays above zero.
LEMMA bunpinKeepsInv ==
    ASSUME NEW t \in Threads, Inv, bunpin(t)
    PROVE  Inv'
  <1>0. /\ TypeOK /\ pc[t] = "unpin" /\ buf[t] \in pinned /\ disk[want[t]] = data[buf[t]]
        /\ Return(t) /\ held' = held
      BY DEF Inv, CacheInv, CallsInOrder, CallOrdered, bunpin
  <1>2. /\ \A s \in Threads : s # t => pc'[s] = pc[s] /\ want'[s] = want[s] /\ buf'[s] = buf[s]
        /\ pc'[t] = "run" /\ buf'[t] = NoBuf
        /\ \A s \in Threads, c \in Bufs : c \in Refs(s)' <=> c \in Refs(s)
        /\ CallOrdered(t)' /\ RefersTo(t)'
        /\ buf[t] \in Bufs /\ want[t] \in Blocks /\ held[t][want[t]] = buf[t]
        /\ lock[buf[t]] = t /\ blockno[buf[t]] = want[t] /\ valid[buf[t]]
      BY <1>0, ReturnKeeps
  <1>3. RefcntExact' /\ refcnt' \in [Bufs -> Nat]
      <2>1. ASSUME NEW b \in Bufs
            PROVE  /\ refcnt'[b] = Cardinality(Users(b)') + (IF b \in pinned' THEN 1 ELSE 0)
                   /\ refcnt'[b] \in Nat
          <3>1. refcnt[b] = Cardinality(Users(b)) + (IF b \in pinned THEN 1 ELSE 0)
              BY DEF Inv, RefcntExact, Users
          <3>2. refcnt'[b] = refcnt[b] - (IF b = buf[t] THEN 1 ELSE 0)
              BY <1>0, <1>2 DEF TypeOK, bunpin
          <3>3. Users(b)' = Users(b)
              BY <1>2 DEF Users
          <3>4. b \in pinned' <=> b \in pinned /\ b # buf[t]
              BY DEF bunpin
          <3> QED
              BY <1>0, <3>1, <3>2, <3>3, <3>4, UsersFinite
      <2>2. RefcntExact'
          BY <2>1 DEF RefcntExact, Users
      <2> QED
          BY <1>0, <2>1, <2>2 DEF TypeOK, bunpin
  <1>1. TypeOK'
      BY <1>0, <1>2, <1>3 DEF TypeOK, Return, bunpin, Labels
  <1>4. SpinHeld' /\ LinkedInItsBucket' /\ OneBufferPerBlock'
      <2>1. \A b \in Bufs : b # buf[t] => refcnt'[b] = refcnt[b]
          BY <1>0 DEF TypeOK, bunpin
      <2>2. spin[bucket[buf[t]]] = Nobody
          BY <1>2, BucketIs DEF bunpin
      <2> QED
          BY <1>0, <1>2, <2>1, <2>2, SpinHeldKept DEF bunpin
  <1>5. LogLockHeld' /\ LockHeld'
      BY <1>0, <1>2 DEF Inv, CacheInv, LogLockHeld, LockHeld, bunpin
  <1>6. ASSUME NEW s \in Threads, s # t PROVE CallOrdered(s)' /\ RefersTo(s)'
      <2>1. pc[s] = "unpin" => buf[s] # buf[t]
          <3> SUFFICES ASSUME pc[s] = "unpin", buf[s] = buf[t] PROVE FALSE
              OBVIOUS
          <3>1. buf[s] \in Bufs /\ want[s] \in Blocks /\ held[s][want[s]] = buf[s]
              BY DEF Inv, CacheInv, RefersToItsBlock, RefersTo, Refers, CallsInOrder, CallOrdered
          <3>2. lock[buf[s]] = s
              BY <3>1, HeldIs, CacheAssumption
          <3> QED
              BY <1>2, <1>6, <3>2
      <2>2. pc'[s] = pc[s] /\ want'[s] = want[s] /\ buf'[s] = buf[s] /\ pinned' = pinned \ {buf[t]}
          BY <1>2, <1>6 DEF bunpin
      <2> QED
          BY <2>1, <2>2 DEF Inv, CacheInv, CallsInOrder, CallOrdered, RefersToItsBlock, RefersTo, Refers,
                            Holds, bunpin
  <1>7. DataCurrent' /\ HolderSeesContent'
      BY DEF Inv, CacheInv, DataCurrent, HolderSeesContent, bunpin
  <1>8. DiskCurrent'
      <2> SUFFICES ASSUME NEW n \in Blocks, disk[n] # content[n]
                   PROVE  \E c \in Bufs : blockno[c] = n /\ Dirty(c)'
          BY DEF DiskCurrent, bunpin
      <2>1. PICK c \in Bufs : blockno[c] = n /\ Dirty(c)
          BY DEF Inv, CacheInv, DiskCurrent
      <2>2. Dirty(c)'
          BY <1>2, <2>1 DEF Dirty, bunpin
      <2> QED
          BY <2>1, <2>2
  <1> QED
      BY <1>1, <1>2, <1>3, <1>4, <1>5, <1>6, <1>7, <1>8
      DEF Inv, CacheInv, RefersToItsBlock, CallsInOrder

\* brelse() unlocks a buffer that is pinned or whose block is up to date.
LEMMA BrelseUnlockKeepsInv ==
    ASSUME NEW t \in Threads, NEW n \in Blocks, Inv, BrelseUnlock(t, n)
    PROVE  Inv'
  <1> USE DEF storeVars
  <1> DEFINE b == held[t][n]
  <1>0. TypeOK /\ b # NoBuf /\ pc[t] = "run" /\ buf[t] = NoBuf
      BY DEF Inv, CacheInv, BrelseUnlock, Call, Holds, RefersToItsBlock, RefersTo, Refers
  <1>b. b \in Bufs /\ lock[b] = t /\ blockno[b] = n /\ data[b] = content[n]
      BY <1>0, HeldIs
  <1>2. \A s \in Threads : s # t =>
            pc'[s] = pc[s] /\ want'[s] = want[s] /\ buf'[s] = buf[s] /\ held'[s] = held[s]
      BY <1>0 DEF TypeOK, BrelseUnlock, Call
  <1>3. pc'[t] = "rel" /\ want'[t] = n /\ buf'[t] = b
      BY <1>0 DEF TypeOK, BrelseUnlock, Call
  <1>h. held'[t][n] = NoBuf /\ \A m \in Blocks : m # n => held'[t][m] = held[t][m]
      BY <1>0 DEF TypeOK, BrelseUnlock
  <1>1. TypeOK'
      <2>1. held' \in [Threads -> [Blocks -> Bufs \cup {NoBuf}]]
          BY <1>0 DEF TypeOK, BrelseUnlock
      <2> QED
          BY <1>0, <1>b, <2>1 DEF TypeOK, BrelseUnlock, Call, Labels
  <1>4. SpinHeld' /\ LinkedInItsBucket' /\ OneBufferPerBlock'
      BY <1>0, <1>2, <1>3, SpinHeldKept DEF BrelseUnlock
  <1>5. LogLockHeld' /\ DataCurrent'
      BY <1>0, <1>2, <1>3 DEF Inv, CacheInv, LogLockHeld, DataCurrent, BrelseUnlock
  <1>6. lock'[b] = Nobody /\ \A c \in Bufs : c # b => lock'[c] = lock[c]
      BY <1>0, <1>b DEF TypeOK, BrelseUnlock
  <1>7. \A s \in Threads, m \in Blocks : ~(s = t /\ m = n) => held[s][m] # b
      BY <1>0, HeldOnce
  <1>8. LockHeld'
      <2> SUFFICES ASSUME NEW c \in Bufs, NEW s \in Threads
                   PROVE  lock'[c] = s <=> \/ pc'[s] = "locked" /\ buf'[s] = c
                                           \/ \E m \in Blocks : held'[s][m] = c
          BY DEF LockHeld
      <2>1. CASE c = b
          <3>1. \A m \in Blocks : held'[s][m] # b
              BY <1>0, <1>2, <1>h, <1>7
          <3>2. ~(pc'[s] = "locked" /\ buf'[s] = b)
              BY <1>b, <1>2, <1>3 DEF Inv, CacheInv, LockHeld
          <3> QED
              BY <1>6, <2>1, <3>1, <3>2, CacheAssumption
      <2>2. CASE c # b /\ s # t
          BY <1>2, <1>6, <2>2 DEF Inv, CacheInv, LockHeld
      <2>3. CASE c # b /\ s = t
          <3>1. (\E m \in Blocks : held'[t][m] = c) <=> \E m \in Blocks : held[t][m] = c
              BY <1>h, <2>3, CacheAssumption
          <3>2. lock[c] = t <=> \E m \in Blocks : held[t][m] = c
              BY <1>0 DEF Inv, CacheInv, LockHeld
          <3> QED
              BY <1>3, <1>6, <2>3, <3>1, <3>2
      <2> QED
          BY <2>1, <2>2, <2>3
  <1>9. \A s \in Threads : s # t => CallOrdered(s)' /\ RefersTo(s)'
      BY <1>2, OthersKept DEF BrelseUnlock
  <1>10. CallOrdered(t)' /\ RefersTo(t)'
      <2>1. Holds(t)' = Holds(t) \ {n} /\ n \in Holds(t)
          BY <1>0, <1>h DEF Holds
      <2>2. Cardinality(Holds(t)') = Cardinality(Holds(t)) - 1
          BY <2>1, HoldsFinite, FS_RemoveElement
      <2>3. Cardinality(Holds(t)) <= MaxHeld
          BY DEF Inv, CacheInv, CallsInOrder, CallOrdered
      <2>4. Cardinality(Holds(t)') <= MaxHeld /\ Cardinality(Holds(t)') < MaxHeld
          BY <2>2, <2>3, HoldsFinite, CacheAssumption
      <2> QED
          BY <1>b, <1>3, <1>h, <2>4 DEF CallOrdered, RefersTo, Refers, BrelseUnlock
  <1>11. DiskCurrent'
      <2> SUFFICES ASSUME NEW m \in Blocks, disk[m] # content[m]
                   PROVE  \E c \in Bufs : blockno[c] = m /\ Dirty(c)'
          BY DEF DiskCurrent, BrelseUnlock
      <2>1. PICK c \in Bufs : blockno[c] = m /\ Dirty(c)
          BY DEF Inv, CacheInv, DiskCurrent
      <2>2. c = b => c \in pinned
          BY <2>1, <1>b DEF BrelseUnlock, MayRelease
      <2>3. c \in pinned \/ \E s \in Threads, k \in Blocks : held'[s][k] = c
          <3>1. CASE c \in pinned
              BY <3>1
          <3>2. ASSUME NEW s \in Threads, NEW k \in Blocks, held[s][k] = c, c # b
                PROVE  \E r \in Threads, j \in Blocks : held'[r][j] = c
              <4>1. held'[s][k] = c
                  BY <1>2, <1>h, <3>2
              <4> QED
                  BY <4>1
          <3> QED
              BY <2>1, <2>2, <3>1, <3>2 DEF Dirty
      <2> QED
          BY <2>1, <2>3 DEF Dirty, BrelseUnlock
  <1>12. HolderSeesContent'
      <2> SUFFICES ASSUME NEW s \in Threads, NEW m \in Blocks, held'[s][m] # NoBuf
                   PROVE  /\ lock'[held'[s][m]] = s
                          /\ blockno[held'[s][m]] = m
                          /\ valid[held'[s][m]]
                          /\ data[held'[s][m]] = content[m]
          BY DEF HolderSeesContent, BrelseUnlock
      <2>1. held'[s][m] = held[s][m] /\ held[s][m] # b
          BY <1>2, <1>h, <1>7
      <2> QED
          BY <2>1, <1>6, HeldIs
  <1>13. RefcntExact'
      <2>1. ASSUME NEW s \in Threads, NEW c \in Bufs PROVE c \in Refs(s)' <=> c \in Refs(s)
          <3>1. CASE s # t
              BY <1>2, <3>1 DEF Refs
          <3>2. CASE s = t
              BY <1>0, <1>3, <1>h, <3>2, CacheAssumption DEF Refs
          <3> QED
              BY <3>1, <3>2
      <2> QED
          BY <2>1, CountsKept DEF BrelseUnlock
  <1> QED
      BY <1>1, <1>4, <1>5, <1>8, <1>9, <1>10, <1>11, <1>12, <1>13
      DEF Inv, CacheInv, RefersToItsBlock, CallsInOrder

\* brelse() drops the reference: the count was above zero.
LEMMA BrelseUnrefKeepsInv ==
    ASSUME NEW t \in Threads, Inv, BrelseUnref(t)
    PROVE  Inv'
  <1> USE DEF storeVars
  <1>0. /\ TypeOK /\ buf[t] \in Bufs /\ pc[t] = "rel" /\ want[t] \in Blocks
        /\ blockno[buf[t]] = want[t] /\ held[t][want[t]] = NoBuf
      BY DEF Inv, CacheInv, RefersToItsBlock, RefersTo, Refers, CallsInOrder, CallOrdered, BrelseUnref
  <1>h. \A n \in Blocks : held[t][n] # buf[t]
      BY <1>0, CacheAssumption DEF Inv, HolderSeesContent
  <1>2. \A s \in Threads : s # t => pc'[s] = pc[s] /\ want'[s] = want[s] /\ buf'[s] = buf[s]
      BY <1>0 DEF TypeOK, BrelseUnref, Return
  <1>3. pc'[t] = "run" /\ buf'[t] = NoBuf
      BY <1>0 DEF TypeOK, BrelseUnref, Return
  <1>4. RefcntExact' /\ refcnt' \in [Bufs -> Nat]
      <2>1. ASSUME NEW b \in Bufs
            PROVE  /\ refcnt'[b] = Cardinality(Users(b)') + (IF b \in pinned THEN 1 ELSE 0)
                   /\ refcnt'[b] \in Nat
          <3>1. refcnt[b] = Cardinality(Users(b)) + (IF b \in pinned THEN 1 ELSE 0)
              BY DEF Inv, RefcntExact, Users
          <3>2. refcnt'[b] = refcnt[b] - (IF b = buf[t] THEN 1 ELSE 0)
              BY <1>0 DEF TypeOK, BrelseUnref
          <3>3. Cardinality(Users(b)') = Cardinality(Users(b)) - (IF b = buf[t] THEN 1 ELSE 0)
              BY <1>0, <1>h, UsersRemoved DEF BrelseUnref, Return
          <3>4. Cardinality(Users(b)') \in Nat
              <4>1. IsFiniteSet(Users(b)')
                  BY CacheAssumption, FS_Subset DEF Users
              <4> QED
                  BY <4>1, FS_CardinalityType
          <3> QED
              BY <3>1, <3>2, <3>3, <3>4, UsersFinite
      <2>2. RefcntExact'
          BY <2>1 DEF RefcntExact, Users, BrelseUnref
      <2> QED
          BY <1>0, <2>1, <2>2 DEF TypeOK, BrelseUnref
  <1>5. TypeOK'
      BY <1>0, <1>4 DEF TypeOK, BrelseUnref, Return, Labels
  <1>6. SpinHeld' /\ LinkedInItsBucket' /\ OneBufferPerBlock'
      <2>1. \A b \in Bufs : b # buf[t] => refcnt'[b] = refcnt[b]
          BY <1>0 DEF TypeOK, BrelseUnref
      <2>2. spin[bucket[buf[t]]] = Nobody
          BY <1>0, BucketIs DEF BrelseUnref
      <2> QED
          BY <1>0, <1>2, <1>3, <2>1, <2>2, SpinHeldKept DEF BrelseUnref
  <1>7. LogLockHeld' /\ LockHeld'
      BY <1>0, <1>2, <1>3 DEF Inv, CacheInv, LogLockHeld, LockHeld, BrelseUnref
  <1>8. \A s \in Threads : s # t => CallOrdered(s)' /\ RefersTo(s)'
      BY <1>2, OthersKept DEF BrelseUnref
  <1>9. CallOrdered(t)' /\ RefersTo(t)'
      BY <1>3 DEF Inv, CacheInv, CallsInOrder, CallOrdered, RefersTo, Refers, Holds, BrelseUnref
  <1>10. DataCurrent' /\ DiskCurrent' /\ HolderSeesContent'
      BY StoreKept DEF BrelseUnref
  <1> QED
      BY <1>4, <1>5, <1>6, <1>7, <1>8, <1>9, <1>10
      DEF Inv, CacheInv, RefersToItsBlock, CallsInOrder

-----------------------------------------------------------------------------
(* The theorems.                                                           *)

\* The steps of the calls and what holders do keep the invariant.
LEMMA NextKeepsInv == Inv /\ [Next]_vars => Inv'
  <1> SUFFICES ASSUME Inv, [Next]_vars PROVE Inv'
      OBVIOUS
  <1>1. CASE UNCHANGED vars
      <2>1. TypeOK' /\ LinkedInItsBucket' /\ OneBufferPerBlock' /\ LogLockHeld' /\ LockHeld'
          BY <1>1 DEF vars, Inv, CacheInv, TypeOK, LinkedInItsBucket, OneBufferPerBlock, LogLockHeld,
                      LockHeld
      <2>2. SpinHeld'
          BY <1>1 DEF vars, Inv, CacheInv, SpinHeld, own, Cached, Free
      <2>3. RefersToItsBlock' /\ CallsInOrder'
          BY <1>1 DEF vars, Inv, CacheInv, RefersToItsBlock, RefersTo, Refers, CallsInOrder, CallOrdered,
                      Holds
      <2>4. DataCurrent' /\ DiskCurrent' /\ HolderSeesContent'
          BY <1>1, StoreKept DEF vars
      <2>5. RefcntExact'
          BY <1>1, CountsKept DEF vars, Refs
      <2> QED
          BY <2>1, <2>2, <2>3, <2>4, <2>5 DEF Inv, CacheInv
  <1>2. ASSUME NEW t \in Threads, Step(t) PROVE Inv'
      BY <1>2, BgetHitKeepsInv, BgetRecycleKeepsInv, BgetMissKeepsInv, BgetStealKeepsInv,
         BgetSkipKeepsInv, BgetLockKeepsInv, BreadFillKeepsInv, LogLockKeepsInv, bpinKeepsInv,
         bunpinKeepsInv, BrelseUnrefKeepsInv DEF Step
  <1>3. ASSUME NEW t \in Threads, NEW n \in Blocks, Use(t, n) PROVE Inv'
      <2>1. CASE logged_write(t, n)
          BY <2>1, CallKeepsInv DEF logged_write
      <2>2. CASE CallBunpin(t, n)
          BY <2>2, CallKeepsInv DEF CallBunpin
      <2> QED
          BY <1>3, <2>1, <2>2, BreadKeepsInv, ModifyKeepsInv, bwriteKeepsInv, BrelseUnlockKeepsInv DEF Use
  <1> QED
      BY <1>1, <1>2, <1>3 DEF Next

\* The conjunction of what follows is inductive.
THEOREM CacheInvariance == Spec => []Inv
  BY InitCache, NextKeepsInv, PTL DEF Spec

\* The structure of the cache: a buffer is where bget() looks for its block, a
\* block has one buffer, a spin lock is kept only across the search of other
\* buckets, fslog.lock only across a wait of bpin() and a mutex only by the user
\* of its buffer, and the disk lacks nothing that is not in a buffer that is
\* pinned or held.
THEOREM Structure == Spec => []CacheInv
  <1>1. Inv => CacheInv
      BY DEF Inv
  <1> QED
      BY <1>1, CacheInvariance, PTL

\* refcnt counts the users and the pin of a buffer: bget() recycles a buffer
\* only when nobody uses it, whatever threads hit, miss and release it.
THEOREM ReferenceCounts == Spec => []RefcntExact
  <1>1. Inv => RefcntExact
      BY DEF Inv
  <1> QED
      BY <1>1, CacheInvariance, PTL

\* bread() returns a locked buffer with the content of its block, also when it
\* was recycled or stolen meanwhile and read again from the disk.
THEOREM Coherence == Spec => []HolderSeesContent
  <1>1. Inv => HolderSeesContent
      BY DEF Inv
  <1> QED
      BY <1>1, CacheInvariance, PTL

\* Of finitely many numbers one is the highest.
LEMMA HasHighest ==
    ASSUME NEW S, IsFiniteSet(S), S # {}, NEW f \in [S -> Nat]
    PROVE  \E t \in S : \A u \in S : f[u] <= f[t]
  <1> DEFINE Up(t) == {u \in S : f[u] > f[t]}
             T == {Up(t) : t \in S}
             R == StrictSubsetOrdering(S)
  <1>1. IsWellFoundedOn(R, FiniteSubsetsOf(S))
      BY FS_StrictSubsetOrderingWellFounded
  <1>2. T \subseteq FiniteSubsetsOf(S) /\ T # {}
      <2>1. FiniteSubsetsOf(S) = SUBSET S
          BY FS_FiniteSubsetsOfFinite
      <2>2. \A t \in S : Up(t) \in SUBSET S
          OBVIOUS
      <2>3. T \subseteq SUBSET S
          BY <2>2
      <2>4. PICK t \in S : TRUE
          OBVIOUS
      <2>5. Up(t) \in T
          OBVIOUS
      <2> QED
          BY <2>1, <2>3, <2>5
  <1>3. PICK x \in T : \A y \in T : ~(<<y, x>> \in R)
      <2> HIDE DEF T, R
      <2> QED
          BY <1>1, <1>2, WFMin
  <1>4. PICK t \in S : x = Up(t)
      BY <1>3
  <1>5. ASSUME NEW u \in S, f[u] > f[t] PROVE FALSE
      <2>1. Up(u) \subseteq Up(t)
          <3> SUFFICES ASSUME NEW w \in S, f[w] > f[u] PROVE f[w] > f[t]
              OBVIOUS
          <3>1. f[w] \in Nat /\ f[u] \in Nat /\ f[t] \in Nat
              OBVIOUS
          <3> QED
              BY <1>5, <3>1
      <2>2. u \in Up(t) /\ u \notin Up(u)
          BY <1>5
      <2>3. <<Up(u), Up(t)>> \in R
          BY <2>1, <2>2 DEF StrictSubsetOrdering
      <2> QED
          BY <1>3, <1>4, <2>3
  <1> QED
      BY <1>5

\* Whoever waits for the mutex of a buffer whose holder waits for one too waits
\* for an earlier one in the order of locking.
LEMMA MutexOrder ==
    ASSUME Inv, NEW t \in Threads, pc[t] = "mutex", NEW u \in Threads, pc[u] = "mutex",
           lock[buf[t]] = u
    PROVE  Level[want[t]] < Level[want[u]]
  <1>1. buf[t] \in Bufs /\ want[t] \in Blocks /\ blockno[buf[t]] = want[t]
      BY DEF Inv, CacheInv, RefersToItsBlock, RefersTo, Refers
  <1>2. PICK m \in Blocks : held[u][m] = buf[t]
      BY <1>1 DEF Inv, CacheInv, LockHeld
  <1>3. m = want[t] /\ m \in Holds(u)
      BY <1>1, <1>2, HeldIs, CacheAssumption DEF Holds
  <1> QED
      BY <1>3 DEF Inv, CacheInv, CallsInOrder, CallOrdered

\* Threads come to a stop only in bget(): searches that wait for each other's
\* buckets, or one that finds every buffer in use.  Whoever waits for a mutex
\* waits for a holder that asks for a later block, so the mutexes close no
\* circle; the other waits end at a search.
THEOREM OnlyDeadlock == Spec => []StuckOnlyInBget
  <1>1. Inv => StuckOnlyInBget
      <2> SUFFICES ASSUME Inv, NEW S \in SUBSET Threads, Stuck(S), \A t \in S : ~Loops(t)
                   PROVE  \E R \in SUBSET S : Crossed(R)
          BY DEF StuckOnlyInBget
      <2> DEFINE R == {t \in S : pc[t] = "scan"}
      <2>0. TypeOK /\ S # {} /\ \A t \in S : LockOwner(t) \in S
          BY DEF Inv, CacheInv, Stuck
      <2>1. \A h \in Buckets : spin[h] \in S => spin[h] \in R
          BY CacheAssumption DEF Inv, CacheInv, SpinHeld
      <2>2. \A t \in Threads : own(t) \in Buckets /\ hidx[t] \in Buckets
          BY <2>0, HashIsBucket DEF TypeOK, own
      <2>3. \A t \in R : spin[hidx[t]] \in R
          BY <2>0, <2>1, <2>2 DEF LockOwner
      <2>4. R # {}
          <3> SUFFICES ASSUME R = {} PROVE FALSE
              OBVIOUS
          <3>1. \A h \in Buckets : spin[h] \notin S
              BY <2>1
          <3>2. ASSUME NEW t \in S, pc[t] \in {"rel", "pin", "unpin"} PROVE FALSE
              <4>1. buf[t] \in Bufs
                  BY <3>2 DEF Inv, CacheInv, RefersToItsBlock, RefersTo, Refers
              <4>2. bcache_hash(blockno[buf[t]]) \in Buckets
                  BY <4>1, BucketIs
              <4>3. LockOwner(t) = spin[bcache_hash(blockno[buf[t]])]
                  BY <3>2 DEF LockOwner
              <4> QED
                  BY <2>0, <3>1, <4>2, <4>3
          <3>3. \A t \in S : pc[t] # "log"
              BY <2>0, <3>2 DEF LockOwner, Inv, CacheInv, LogLockHeld
          <3>4. \A t \in S : pc[t] # "bget"
              BY <2>0, <2>2, <3>1 DEF LockOwner
          <3>5. \A t \in S : pc[t] \notin {"run", "locked"}
              BY <2>0, CacheAssumption DEF LockOwner
          <3>6. \A t \in S : pc[t] = "mutex"
              BY <2>0, <3>2, <3>3, <3>4, <3>5 DEF TypeOK, Labels
          <3>7. \A t \in S : want[t] \in Blocks /\ lock[buf[t]] \in S
              BY <2>0, <3>6 DEF LockOwner, Inv, CacheInv, RefersToItsBlock, RefersTo
          <3> DEFINE f == [t \in S |-> Level[want[t]]]
          <3>8. f \in [S -> Nat]
              BY <3>7, CacheAssumption
          <3>9. IsFiniteSet(S)
              BY CacheAssumption, FS_Subset
          <3>10. PICK t \in S : \A u \in S : f[u] <= f[t]
              <4> HIDE DEF f
              <4> QED
                  BY <2>0, <3>8, <3>9, HasHighest
          <3>11. f[t] < f[lock[buf[t]]]
              BY <3>6, <3>7, MutexOrder
          <3> QED
              BY <3>7, <3>8, <3>10, <3>11
      <2> QED
          BY <2>3, <2>4 DEF Crossed
  <1> QED
      BY <1>1, CacheInvariance, PTL

\* The blocks whose buffers a thread refers to.
Uses(t) == Holds(t) \cup (IF pc[t] \in {"mutex", "locked", "rel"} THEN {want[t]} ELSE {})

\* They are as many as a thread may refer to at a time.
LEMMA UsesBounded ==
    ASSUME Inv, NEW t \in Threads
    PROVE  IsFiniteSet(Uses(t)) /\ Cardinality(Uses(t)) \in Nat /\ Cardinality(Uses(t)) <= MaxHeld
  <1>1. CASE pc[t] \in {"mutex", "locked", "rel"}
      <2>1. Uses(t) = Holds(t) \cup {want[t]} /\ Cardinality(Holds(t)) < MaxHeld
            /\ want[t] \notin Holds(t)
          BY <1>1 DEF Uses, Inv, CacheInv, CallsInOrder, CallOrdered, Holds
      <2>2. /\ IsFiniteSet(Holds(t) \cup {want[t]})
            /\ Cardinality(Holds(t) \cup {want[t]}) = Cardinality(Holds(t)) + 1
          <3>1. IsFiniteSet(Holds(t)) /\ want[t] \notin Holds(t)
              BY <2>1, HoldsFinite
          <3> QED
              BY <3>1, FS_AddElement
      <2> QED
          BY <2>1, <2>2, HoldsFinite, CacheAssumption
  <1>2. CASE pc[t] \notin {"mutex", "locked", "rel"}
      <2>1. Uses(t) = Holds(t)
          BY <1>2 DEF Uses
      <2> QED
          BY <2>1, HoldsFinite DEF Inv, CacheInv, CallsInOrder, CallOrdered
  <1> QED
      BY <1>1, <1>2

\* A buffer that a thread refers to is that of such a block.
LEMMA RefsUse ==
    ASSUME Inv, NEW t \in Threads, NEW b \in Bufs, b \in Refs(t)
    PROVE  blockno[b] \in Uses(t) /\ blockno[b] \in Blocks
  <1>1. ASSUME NEW n \in Blocks, held[t][n] = b PROVE blockno[b] \in Uses(t) /\ blockno[b] \in Blocks
      BY <1>1, HeldIs, CacheAssumption DEF Uses, Holds
  <1>2. CASE buf[t] = b
      <2>1. Refers(t) /\ want[t] \in Blocks /\ blockno[b] = want[t]
          BY <1>2, CacheAssumption DEF Inv, CacheInv, RefersToItsBlock, RefersTo, Refers
      <2>2. CASE pc[t] \in {"mutex", "locked", "rel"}
          BY <2>1, <2>2 DEF Uses
      <2>3. CASE pc[t] \in {"log", "pin", "unpin"}
          BY <1>1, <1>2, <2>1, <2>3 DEF Inv, CacheInv, CallsInOrder, CallOrdered
      <2> QED
          BY <2>1, <2>2, <2>3 DEF Inv, CacheInv, TypeOK, Labels, Refers
  <1> QED
      BY <1>1, <1>2, RefsAre

\* Every buffer is in use only while the log has pinned all but a few: as many
\* as the threads may refer to.  So a search of bget() can be in vain only
\* when the log is nearly as full as the cache is large.
THEOREM ExhaustedByPins ==
    Spec => [](Exhausted => Cardinality(Bufs) <= Cardinality(pinned) + Cardinality(Threads) * MaxHeld)
  <1>1. ASSUME Inv, Exhausted
        PROVE  Cardinality(Bufs) <= Cardinality(pinned) + Cardinality(Threads) * MaxHeld
      <2> DEFINE N == 1 .. MaxHeld
                 G == [t \in Threads |-> CHOOSE g : g \in Bijection(1 .. Cardinality(Uses(t)), Uses(t))]
                 P(b) == {p \in Threads \X N :
                              /\ p[2] \in 1 .. Cardinality(Uses(p[1]))
                              /\ G[p[1]][p[2]] = blockno[b]}
                 Rest == Bufs \ pinned
                 F == [b \in Rest |-> CHOOSE p : p \in P(b)]
      <2>1. \A t \in Threads : G[t] \in Bijection(1 .. Cardinality(Uses(t)), Uses(t))
          <3> SUFFICES ASSUME NEW t \in Threads
                       PROVE  Bijection(1 .. Cardinality(Uses(t)), Uses(t)) # {}
              OBVIOUS
          <3>1. ExistsBijection(1 .. Cardinality(Uses(t)), Uses(t))
              BY <1>1, UsesBounded, FS_CardinalityType
          <3> QED
              BY <3>1 DEF ExistsBijection
      <2>2. ASSUME NEW b \in Rest PROVE P(b) # {} /\ blockno[b] \in Blocks
          <3>1. refcnt[b] = Cardinality(Users(b)) + (IF b \in pinned THEN 1 ELSE 0)
              BY <1>1 DEF Inv, RefcntExact, Users
          <3>2. Cardinality(Users(b)) # 0
              BY <1>1, <3>1, UsersFinite DEF Exhausted, Inv, CacheInv, TypeOK
          <3>3. Users(b) # {}
              BY <3>2, FS_EmptySet
          <3>4. PICK t \in Threads : b \in Refs(t)
              BY <3>3 DEF Users
          <3>5. blockno[b] \in Uses(t) /\ blockno[b] \in Blocks
              BY <1>1, <3>4, RefsUse
          <3>6. PICK i \in 1 .. Cardinality(Uses(t)) : G[t][i] = blockno[b]
              <4> HIDE DEF G
              <4> QED
                  BY <2>1, <3>5 DEF Bijection, Surjection
          <3>7. Cardinality(Uses(t)) \in Nat /\ Cardinality(Uses(t)) <= MaxHeld
              BY <1>1, UsesBounded
          <3>8. i \in N
              BY <3>7, CacheAssumption
          <3>9. <<t, i>> \in P(b)
              <4> HIDE DEF G
              <4> QED
                  BY <3>6, <3>8
          <3> QED
              BY <3>5, <3>9
      <2>3. \A b \in Rest : F[b] \in P(b)
          <3> HIDE DEF P
          <3> QED
              BY <2>2
      <2>4. F \in Injection(Rest, Threads \X N)
          <3>1. \A b \in Rest : F[b] \in Threads \X N /\ G[F[b][1]][F[b][2]] = blockno[b]
              <4> HIDE DEF F, G
              <4> QED
                  BY <2>3
          <3>2. F \in [Rest -> Threads \X N]
              BY <3>1
          <3>3. ASSUME NEW b \in Rest, NEW c \in Rest, F[b] = F[c] PROVE b = c
              <4> HIDE DEF F, G
              <4>1. blockno[b] = blockno[c]
                  BY <3>1, <3>3
              <4>2. blockno[b] # 0
                  BY <2>2, CacheAssumption
              <4> QED
                  BY <1>1, <4>1, <4>2 DEF Inv, CacheInv, OneBufferPerBlock
          <3> QED
              BY <3>2, <3>3 DEF Injection, IsInjective
      <2>5. IsFiniteSet(N) /\ Cardinality(N) = MaxHeld
          BY CacheAssumption, FS_Interval
      <2>6. IsFiniteSet(Threads \X N) /\ Cardinality(Threads \X N) = Cardinality(Threads) * MaxHeld
          <3> HIDE DEF N
          <3> QED
              BY <2>5, CacheAssumption, FS_Product
      <2>7. Cardinality(Rest) <= Cardinality(Threads) * MaxHeld
          <3> HIDE DEF F, N, Rest
          <3> QED
              BY <2>4, <2>6, FS_Injection
      <2>8. Cardinality(Rest) = Cardinality(Bufs) - Cardinality(Bufs \cap pinned)
          BY CacheAssumption, FS_Difference
      <2>9. Bufs \cap pinned = pinned
          BY <1>1 DEF Inv, CacheInv, TypeOK
      <2>10. Cardinality(Bufs) \in Nat /\ Cardinality(pinned) \in Nat /\ Cardinality(Threads) \in Nat
          BY <1>1, CacheAssumption, FS_Subset, FS_CardinalityType DEF Inv, CacheInv, TypeOK
      <2>11. Cardinality(Threads) * MaxHeld \in Nat
          BY <2>10, CacheAssumption
      <2> DEFINE X == Cardinality(Threads) * MaxHeld
                 B == Cardinality(Bufs)
                 Q == Cardinality(pinned)
      <2>12. B - Q <= X
          BY <2>7, <2>8, <2>9
      <2> HIDE DEF X, B, Q
      <2>13. B \in Nat /\ Q \in Nat /\ X \in Nat
          BY <2>10, <2>11 DEF X, B, Q
      <2>14. B <= Q + X
          BY <2>12, <2>13
      <2> QED
          BY <2>14 DEF X, B, Q
  <1>2. Inv => (Exhausted => Cardinality(Bufs) <= Cardinality(pinned) + Cardinality(Threads) * MaxHeld)
      BY <1>1
  <1> QED
      BY <1>2, CacheInvariance, PTL
=============================================================================
