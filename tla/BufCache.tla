------------------------------ MODULE BufCache ------------------------------
(***************************************************************************)
(* The buffer cache of myfuse: src/src/buf_cache.c.                        *)
(*                                                                         *)
(* Buffers sit in the buckets of a hash table.  A bucket has a spin lock   *)
(* (spin), which protects the membership, blockno and refcnt of its        *)
(* buffers; a buffer has a mutex (lock), which protects valid and data.    *)
(* bget() looks a block up, recycles a free buffer of the block's bucket,  *)
(* or, still holding the bucket's spin lock, takes one spin lock after the *)
(* other to steal a free buffer of another bucket.                         *)
(*                                                                         *)
(* A section under one spin lock is one step.  The order of a bucket's     *)
(* list is left out: which free buffer is recycled is an open choice       *)
(* (current_timestamp() runs backwards every second).                      *)
(*                                                                         *)
(* A thread may hold several buffers and ask for one more: the log holds a *)
(* log block and asks for its home block, inode.c holds indirect blocks    *)
(* and asks for what they lead to and for the bitmap.  Above the cache,    *)
(* the log decides when a changed buffer may be released (pinned, which    *)
(* logged_write() does under fslog.lock) and when the pin goes away (after *)
(* bwrite).                                                                *)
(***************************************************************************)
EXTENDS Integers, FiniteSets

CONSTANTS
    Threads,    \* threads that use the cache
    Bufs,       \* bcache.buf[NCACHE_BUF]
    Blocks,     \* block numbers in use; block 0, the boot block, is not
    Vals,       \* contents of a block
    NBUCKET,    \* BCACHE_HASH_SIZE
    MaxPins,    \* how many buffers the log pins at a time
    MaxHeld,    \* how many buffers a thread refers to at a time
    Level,      \* [Blocks -> Nat], the place of a block in the order of locking
    Nobody,     \* holder of a free lock
    NoBuf       \* value of a null pointer to a buffer

ASSUME CacheAssumption ==
    /\ IsFiniteSet(Threads)
    /\ IsFiniteSet(Bufs)
    /\ IsFiniteSet(Blocks) /\ Blocks \subseteq Nat \ {0}
    /\ Level \in [Blocks -> Nat]
    /\ MaxHeld \in Nat
    /\ NBUCKET \in Nat /\ NBUCKET > 1
    /\ MaxPins \in Nat
    /\ Nobody \notin Threads
    /\ NoBuf \notin Bufs

VARIABLES
    disk,       \* [Blocks -> Vals]
    blockno,    \* [Bufs -> Blocks \cup {0}], b->blockno
    valid,      \* [Bufs -> BOOLEAN], b->valid
    data,       \* [Bufs -> Vals], b->data
    refcnt,     \* [Bufs -> Nat], b->refcnt
    lock,       \* [Bufs -> Threads \cup {Nobody}], b->lock
    bucket,     \* [Bufs -> Buckets], the list a buffer is linked in
    spin,       \* [Buckets -> Threads \cup {Nobody}], hash[i].lock
    loglock,    \* Threads \cup {Nobody}, fslog.lock as logged_write() holds it
    pc,         \* [Threads -> Labels], the call that a thread is in
    want,       \* [Threads -> Blocks \cup {0}], the block of that call
    buf,        \* [Threads -> Bufs \cup {NoBuf}], the buffer of that call
    hidx,       \* [Threads -> Buckets], the bucket searched next
    held,       \* [Threads -> [Blocks -> Bufs \cup {NoBuf}]], what bread() of a
                \*   block returned to the thread, until brelse()
    pinned,     \* history: the buffers that the log has pinned
    content     \* history: [Blocks -> Vals], what was last stored in a block

vars == <<disk, blockno, valid, data, refcnt, lock, bucket, spin,
          loglock, pc, want, buf, hidx, held, pinned, content>>

bufVars == <<blockno, valid, data, refcnt, lock, bucket>>
storeVars == <<disk, pinned, content>>
callVars == <<loglock, want, buf, hidx, held>>

Buckets == 0 .. (NBUCKET - 1)

\* "run": in no call of the cache; "log", "pin": in logged_write().
Labels == {"run", "bget", "scan", "mutex", "locked", "rel", "log", "pin", "unpin"}

bcache_hash(n) == n % NBUCKET

TypeOK ==
    /\ disk \in [Blocks -> Vals]
    /\ blockno \in [Bufs -> Blocks \cup {0}]
    /\ valid \in [Bufs -> BOOLEAN]
    /\ data \in [Bufs -> Vals]
    /\ refcnt \in [Bufs -> Nat]
    /\ lock \in [Bufs -> Threads \cup {Nobody}]
    /\ bucket \in [Bufs -> Buckets]
    /\ spin \in [Buckets -> Threads \cup {Nobody}]
    /\ loglock \in Threads \cup {Nobody}
    /\ pc \in [Threads -> Labels]
    /\ want \in [Threads -> Blocks \cup {0}]
    /\ buf \in [Threads -> Bufs \cup {NoBuf}]
    /\ hidx \in [Threads -> Buckets]
    /\ held \in [Threads -> [Blocks -> Bufs \cup {NoBuf}]]
    /\ pinned \subseteq Bufs
    /\ content \in [Blocks -> Vals]

\* bcache_init(): every buffer is empty and linked in bucket 0.
Init ==
    /\ disk \in [Blocks -> Vals]
    /\ blockno = [b \in Bufs |-> 0]
    /\ valid = [b \in Bufs |-> FALSE]
    /\ data \in {[b \in Bufs |-> v] : v \in Vals}
    /\ refcnt = [b \in Bufs |-> 0]
    /\ lock = [b \in Bufs |-> Nobody]
    /\ bucket = [b \in Bufs |-> 0]
    /\ spin = [h \in Buckets |-> Nobody]
    /\ loglock = Nobody
    /\ pc = [t \in Threads |-> "run"]
    /\ want = [t \in Threads |-> 0]
    /\ buf = [t \in Threads |-> NoBuf]
    /\ hidx = [t \in Threads |-> 0]
    /\ held = [t \in Threads |-> [n \in Blocks |-> NoBuf]]
    /\ pinned = {}
    /\ content = disk

-----------------------------------------------------------------------------
(* bget and bread.                                                         *)

own(t) == bcache_hash(want[t])

Cached(n) == {b \in Bufs : bucket[b] = bcache_hash(n) /\ blockno[b] = n}
Free(h) == {b \in Bufs : bucket[b] = h /\ refcnt[b] = 0}

\* The other buckets are searched in turn, from 0, over and over.
FirstBucket(h) == IF h = 0 THEN 1 ELSE 0
NextBucket(i, h) ==
    LET j == (i + 1) % NBUCKET IN IF j = h THEN (j + 1) % NBUCKET ELSE j

Holds(t) == {n \in Blocks : held[t][n] # NoBuf}

\* Mutant: a further buffer is asked for in any order.
Bread_AnyOrder(t, n) ==
    /\ pc[t] = "run"
    /\ Cardinality(Holds(t)) < MaxHeld
    /\ held[t][n] = NoBuf
    /\ pc' = [pc EXCEPT ![t] = "bget"]
    /\ want' = [want EXCEPT ![t] = n]
    /\ UNCHANGED <<bufVars, storeVars, spin, loglock, buf, hidx, held>>

\* The callers ask for a further buffer in one order: a log block before the
\* home block, an indirect block before the blocks it leads to, and these
\* before the bitmap.
Bread(t, n) ==
    /\ pc[t] = "run"
    /\ Cardinality(Holds(t)) < MaxHeld
    /\ \A m \in Holds(t) : Level[m] < Level[n]
    /\ pc' = [pc EXCEPT ![t] = "bget"]
    /\ want' = [want EXCEPT ![t] = n]
    /\ UNCHANGED <<bufVars, storeVars, spin, loglock, buf, hidx, held>>

\* Mutant: the reference is not counted.
BgetHit_NoRef(t) ==
    /\ pc[t] = "bget"
    /\ spin[own(t)] = Nobody
    /\ \E b \in Cached(want[t]) : buf' = [buf EXCEPT ![t] = b]
    /\ pc' = [pc EXCEPT ![t] = "mutex"]
    /\ UNCHANGED <<storeVars, bufVars, spin, loglock, want, hidx, held>>

\* The block is in its bucket.
BgetHit(t) ==
    /\ pc[t] = "bget"
    /\ spin[own(t)] = Nobody
    /\ \E b \in Cached(want[t]) :
        /\ refcnt' = [refcnt EXCEPT ![b] = @ + 1]
        /\ buf' = [buf EXCEPT ![t] = b]
    /\ pc' = [pc EXCEPT ![t] = "mutex"]
    /\ UNCHANGED <<storeVars, blockno, valid, data, lock, bucket, spin, loglock, want, hidx, held>>

\* Mutant: the recycled buffer stays valid.
Reset_StaysValid(t, b) ==
    /\ refcnt' = [refcnt EXCEPT ![b] = 1]
    /\ bucket' = [bucket EXCEPT ![b] = own(t)]
    /\ UNCHANGED valid

Reset(t, b) ==
    /\ refcnt' = [refcnt EXCEPT ![b] = 1]
    /\ valid' = [valid EXCEPT ![b] = FALSE]
    /\ bucket' = [bucket EXCEPT ![b] = own(t)]

\* Buffer b becomes the buffer of the block that t wants.
Recycle(t, b) ==
    /\ blockno' = [blockno EXCEPT ![b] = want[t]]
    /\ Reset(t, b)
    /\ buf' = [buf EXCEPT ![t] = b]
    /\ pc' = [pc EXCEPT ![t] = "mutex"]
    /\ UNCHANGED <<storeVars, data, lock, loglock, want, held>>

\* It is not, and the bucket has a free buffer.
BgetRecycle(t) ==
    /\ pc[t] = "bget"
    /\ spin[own(t)] = Nobody
    /\ Cached(want[t]) = {}
    /\ \E b \in Free(own(t)) : Recycle(t, b)
    /\ UNCHANGED <<spin, hidx>>

\* Mutant: the bucket is unlocked while the others are searched.
BgetMiss_Unlocks(t) ==
    /\ pc[t] = "bget"
    /\ spin[own(t)] = Nobody
    /\ Cached(want[t]) = {}
    /\ Free(own(t)) = {}
    /\ hidx' = [hidx EXCEPT ![t] = FirstBucket(own(t))]
    /\ pc' = [pc EXCEPT ![t] = "scan"]
    /\ UNCHANGED <<bufVars, storeVars, spin, loglock, want, buf, held>>

\* The bucket has no free buffer: keep its lock and search the others.
BgetMiss(t) ==
    /\ pc[t] = "bget"
    /\ spin[own(t)] = Nobody
    /\ Cached(want[t]) = {}
    /\ Free(own(t)) = {}
    /\ spin' = [spin EXCEPT ![own(t)] = t]
    /\ hidx' = [hidx EXCEPT ![t] = FirstBucket(own(t))]
    /\ pc' = [pc EXCEPT ![t] = "scan"]
    /\ UNCHANGED <<bufVars, storeVars, loglock, want, buf, held>>

\* Lock the next bucket, find a free buffer in it, move it, unlock both.
BgetSteal(t) ==
    /\ pc[t] = "scan"
    /\ spin[hidx[t]] = Nobody
    /\ \E b \in Free(hidx[t]) : Recycle(t, b)
    /\ spin' = [spin EXCEPT ![own(t)] = Nobody]
    /\ UNCHANGED hidx

\* Lock the next bucket, find nothing, unlock it.
BgetSkip(t) ==
    /\ pc[t] = "scan"
    /\ spin[hidx[t]] = Nobody
    /\ Free(hidx[t]) = {}
    /\ hidx' = [hidx EXCEPT ![t] = NextBucket(@, own(t))]
    /\ UNCHANGED <<bufVars, storeVars, spin, pc, loglock, want, buf, held>>

\* pthread_mutex_lock(&b->lock) at the end of bget().
BgetLock(t) ==
    /\ pc[t] = "mutex"
    /\ lock[buf[t]] = Nobody
    /\ lock' = [lock EXCEPT ![buf[t]] = t]
    /\ pc' = [pc EXCEPT ![t] = "locked"]
    /\ UNCHANGED <<storeVars, blockno, valid, data, refcnt, bucket, spin, callVars>>

\* A call of the cache is over.
Return(t) ==
    /\ pc' = [pc EXCEPT ![t] = "run"]
    /\ want' = [want EXCEPT ![t] = 0]
    /\ buf' = [buf EXCEPT ![t] = NoBuf]

\* bread() reads the block unless the buffer is valid, and returns.
BreadFill(t) ==
    /\ pc[t] = "locked"
    /\ IF valid[buf[t]]
       THEN UNCHANGED <<data, valid>>
       ELSE /\ data' = [data EXCEPT ![buf[t]] = disk[want[t]]]
            /\ valid' = [valid EXCEPT ![buf[t]] = TRUE]
    /\ held' = [held EXCEPT ![t] = [@ EXCEPT ![want[t]] = buf[t]]]
    /\ Return(t)
    /\ UNCHANGED <<storeVars, blockno, refcnt, lock, bucket, spin, loglock, hidx>>

-----------------------------------------------------------------------------
(* What the holder of a buffer may do.                                     *)

\* The holder changes the buffer of block n.
Modify(t, n, v) ==
    /\ pc[t] = "run" /\ n \in Holds(t)
    /\ data' = [data EXCEPT ![held[t][n]] = v]
    /\ content' = [content EXCEPT ![n] = v]
    /\ UNCHANGED <<disk, pinned, blockno, valid, refcnt, lock, bucket, spin, pc, callVars>>

bwrite(t, n) ==
    /\ pc[t] = "run" /\ n \in Holds(t)
    /\ disk' = [disk EXCEPT ![blockno[held[t][n]]] = data[held[t][n]]]
    /\ UNCHANGED <<bufVars, pinned, content, spin, pc, callVars>>

\* The holder calls a function of the cache or of the log with its buffer.
Call(t, n, label) ==
    /\ pc[t] = "run" /\ n \in Holds(t)
    /\ pc' = [pc EXCEPT ![t] = label]
    /\ want' = [want EXCEPT ![t] = n]
    /\ buf' = [buf EXCEPT ![t] = held[t][n]]

\* logged_write() is called; begin_op() has seen to it that the log has room.
Logging == {buf[s] : s \in {r \in Threads : pc[r] \in {"log", "pin"}}}
logged_write(t, n) ==
    /\ Call(t, n, "log")
    /\ Cardinality(pinned \cup Logging \cup {held[t][n]}) <= MaxPins
    /\ UNCHANGED <<bufVars, storeVars, spin, loglock, hidx, held>>

\* It takes fslog.lock, and keeps it when it has to pin the buffer.
LogLock(t) ==
    /\ pc[t] = "log"
    /\ loglock = Nobody
    /\ IF buf[t] \in pinned
       THEN /\ Return(t)
            /\ UNCHANGED loglock
       ELSE /\ loglock' = t
            /\ pc' = [pc EXCEPT ![t] = "pin"]
            /\ UNCHANGED <<want, buf>>
    /\ UNCHANGED <<bufVars, storeVars, spin, hidx, held>>

bpin(t) ==
    /\ pc[t] = "pin"
    /\ spin[bcache_hash(blockno[buf[t]])] = Nobody
    /\ refcnt' = [refcnt EXCEPT ![buf[t]] = @ + 1]
    /\ pinned' = pinned \cup {buf[t]}
    /\ loglock' = Nobody
    /\ Return(t)
    /\ UNCHANGED <<disk, content, blockno, valid, data, lock, bucket, spin, hidx, held>>

\* install_transaction() unpins what it has just written.
CallBunpin(t, n) ==
    /\ Call(t, n, "unpin")
    /\ held[t][n] \in pinned
    /\ disk[n] = data[held[t][n]]
    /\ UNCHANGED <<bufVars, storeVars, spin, loglock, hidx, held>>

bunpin(t) ==
    /\ pc[t] = "unpin"
    /\ spin[bcache_hash(blockno[buf[t]])] = Nobody
    /\ refcnt' = [refcnt EXCEPT ![buf[t]] = @ - 1]
    /\ pinned' = pinned \ {buf[t]}
    /\ Return(t)
    /\ UNCHANGED <<disk, content, blockno, valid, data, lock, bucket, spin, loglock, hidx, held>>

\* The log lets go of a changed buffer only when it is pinned or written.
MayRelease(t, n) == held[t][n] \in pinned \/ disk[n] = data[held[t][n]]

\* brelse() first unlocks the buffer ...
BrelseUnlock(t, n) ==
    /\ Call(t, n, "rel")
    /\ MayRelease(t, n)
    /\ lock' = [lock EXCEPT ![held[t][n]] = Nobody]
    /\ held' = [held EXCEPT ![t] = [@ EXCEPT ![n] = NoBuf]]
    /\ UNCHANGED <<storeVars, blockno, valid, data, refcnt, bucket, spin, loglock, hidx>>

\* ... and then drops the reference, under the spin lock of its bucket.
BrelseUnref(t) ==
    /\ pc[t] = "rel"
    /\ spin[bcache_hash(blockno[buf[t]])] = Nobody
    /\ refcnt' = [refcnt EXCEPT ![buf[t]] = @ - 1]
    /\ Return(t)
    /\ UNCHANGED <<storeVars, blockno, valid, data, lock, bucket, spin, loglock, hidx, held>>

-----------------------------------------------------------------------------

\* The steps of the calls themselves.
Step(t) ==
    \/ BgetHit(t)
    \/ BgetRecycle(t)
    \/ BgetMiss(t)
    \/ BgetSteal(t)
    \/ BgetSkip(t)
    \/ BgetLock(t)
    \/ BreadFill(t)
    \/ LogLock(t)
    \/ bpin(t)
    \/ bunpin(t)
    \/ BrelseUnref(t)

\* What a thread does with block n between the calls.
Use(t, n) ==
    \/ Bread(t, n)
    \/ \E v \in Vals : Modify(t, n, v)
    \/ bwrite(t, n)
    \/ logged_write(t, n)
    \/ CallBunpin(t, n)
    \/ BrelseUnlock(t, n)

Next ==
    \E t \in Threads :
        \/ Step(t)
        \/ \E n \in Blocks : Use(t, n)

Spec == Init /\ [][Next]_vars

-----------------------------------------------------------------------------
(* What makes the cache correct.                                           *)

\* A block has one buffer: the miss that recycles a buffer cannot race with
\* another one for the same block (two holders would not exclude each other).
OneBufferPerBlock ==
    \A b, c \in Bufs :
        b # c /\ blockno[b] = blockno[c] => blockno[b] = 0

\* The buffers that a thread refers to: those that it holds, and the one that
\* it is about to lock in bget() or has unlocked in brelse().
Refs(t) == ({held[t][n] : n \in Blocks} \cup {buf[t]}) \ {NoBuf}

\* refcnt counts the threads that refer to the buffer and the log's pin, so
\* bget() recycles no buffer that anybody still uses.
RefcntExact ==
    \A b \in Bufs :
        refcnt[b] = Cardinality({t \in Threads : b \in Refs(t)})
                    + (IF b \in pinned THEN 1 ELSE 0)

\* bread() returns "a locked buf with the contents of the indicated block":
\* the holder is alone and sees what was stored last, also after the buffer
\* was recycled, stolen by another bucket or read again from the disk.
HolderSeesContent ==
    \A t \in Threads, n \in Blocks : held[t][n] # NoBuf =>
        /\ lock[held[t][n]] = t
        /\ blockno[held[t][n]] = n
        /\ valid[held[t][n]]
        /\ data[held[t][n]] = content[n]

\* A buffer is linked in the bucket of its block (the assertion of bget()).
LinkedInItsBucket == \A b \in Bufs : bucket[b] = bcache_hash(blockno[b])

\* A spin lock is kept between two steps only by a search of other buckets,
\* and meanwhile the block that is searched a buffer for stays uncached and
\* its own bucket without a free buffer.
SpinHeld ==
    /\ \A h \in Buckets : spin[h] # Nobody => pc[spin[h]] = "scan" /\ own(spin[h]) = h
    /\ \A t \in Threads : pc[t] = "scan" =>
            spin[own(t)] = t /\ Cached(want[t]) = {} /\ Free(own(t)) = {}

\* fslog.lock is kept between two steps only by a logged_write() that pins.
LogLockHeld == \A t \in Threads : loglock = t <=> pc[t] = "pin"

\* From bget() to the end of the call a thread refers to a buffer, which stays
\* that of its block.
Refers(t) == pc[t] \notin {"run", "bget", "scan"}
RefersTo(t) ==
    /\ pc[t] # "run" => want[t] \in Blocks
    /\ IF Refers(t) THEN buf[t] \in Bufs /\ blockno[buf[t]] = want[t] ELSE buf[t] = NoBuf
RefersToItsBlock == \A t \in Threads : RefersTo(t)

\* The mutex of a buffer is held from the end of bget() to brelse().
LockHeld ==
    \A b \in Bufs, t \in Threads :
        lock[b] = t <=> \/ pc[t] = "locked" /\ buf[t] = b
                        \/ \E n \in Blocks : held[t][n] = b

\* logged_write() and bunpin() are called with a buffer that the thread holds,
\* the one pins what is not pinned, the other unpins what is and is written;
\* bread() is about one buffer more, later in the order of locking.
CallOrdered(t) ==
    /\ Cardinality(Holds(t)) <= MaxHeld
    /\ pc[t] \in {"log", "pin", "unpin"} => held[t][want[t]] = buf[t]
    /\ pc[t] = "pin" => buf[t] \notin pinned
    /\ pc[t] = "unpin" => buf[t] \in pinned /\ disk[want[t]] = data[buf[t]]
    /\ pc[t] \in {"bget", "scan", "mutex", "locked"} =>
            \A m \in Holds(t) : Level[m] < Level[want[t]]
    /\ pc[t] \in {"bget", "scan", "mutex", "locked", "rel"} =>
            Cardinality(Holds(t)) < MaxHeld /\ held[t][want[t]] = NoBuf
CallsInOrder == \A t \in Threads : CallOrdered(t)

\* A valid buffer has what was last stored in its block.  The disk has it too,
\* unless the buffer is pinned or in the hands of a thread.
DataCurrent ==
    \A b \in Bufs :
        valid[b] => blockno[b] \in Blocks /\ data[b] = content[blockno[b]]
Dirty(b) == valid[b] /\ (b \in pinned \/ \E t \in Threads, n \in Blocks : held[t][n] = b)
DiskCurrent ==
    \A n \in Blocks :
        disk[n] = content[n] \/ \E b \in Bufs : blockno[b] = n /\ Dirty(b)

\* The structure of the cache: no buffer is lost from where bget() looks for
\* its block, no block has two, the locks are held by those who use what they
\* protect, and no stored content is only in a buffer that may be recycled.
CacheInv ==
    /\ TypeOK
    /\ LinkedInItsBucket
    /\ OneBufferPerBlock
    /\ SpinHeld
    /\ LogLockHeld
    /\ RefersToItsBlock
    /\ LockHeld
    /\ CallsInOrder
    /\ DataCurrent
    /\ DiskCurrent

\* The owner of the lock that the next step of a thread takes: spin locks, the
\* mutex at the end of bget(), fslog.lock.
LockOwner(t) ==
    CASE pc[t] = "bget" -> spin[own(t)]
      [] pc[t] = "scan" -> spin[hidx[t]]
      [] pc[t] = "mutex" -> lock[buf[t]]
      [] pc[t] = "log" -> loglock
      [] pc[t] \in {"rel", "pin", "unpin"} -> spin[bcache_hash(blockno[buf[t]])]
      [] OTHER -> Nobody

\* bget() searches on and on, with its bucket locked, when no buffer is free.
Exhausted == \A b \in Bufs : refcnt[b] > 0
Loops(t) == pc[t] = "scan" /\ Exhausted

\* These threads cannot go on by themselves: each waits for a lock that one of
\* them has, or searches in vain.
Stuck(S) == S # {} /\ \A t \in S : LockOwner(t) \in S \/ Loops(t)

\* Each of them has its bucket locked and spins for that of another.
Crossed(S) == S # {} /\ \A t \in S : pc[t] = "scan" /\ spin[hidx[t]] \in S

\* The spin locks, the mutexes of the buffers and fslog.lock bring threads to a
\* stop in two ways only, both in bget(): it asks for a second bucket while it
\* holds its own, or it searches with its bucket locked when every buffer is
\* in use.  Holding buffers while one asks for another does not, nor does the
\* wait of bpin() with fslog.lock and of brelse() for a bucket.
StuckOnlyInBget ==
    \A S \in SUBSET Threads : Stuck(S) =>
        \/ \E R \in SUBSET S : Crossed(R)
        \/ \E t \in S : Loops(t)
=============================================================================
