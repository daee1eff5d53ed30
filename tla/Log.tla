-------------------------------- MODULE Log ---------------------------------
(***************************************************************************)
(* The write-ahead log of myfuse: src/src/log.c.                           *)
(*                                                                         *)
(* Threads serve file system calls; each brackets its work by begin_op()   *)
(* and end_op() and changes blocks with logged_write().  The last end_op() *)
(* commits: it copies the logged blocks into the log area of the disk,     *)
(* writes the log header (the commit point), installs the blocks at their  *)
(* home and clears the header.  The process may die between any two of     *)
(* these steps; log_init() replays the log at the next mount.              *)
(*                                                                         *)
(* A section of code under fslog.lock is one step.  A loop over the logged *)
(* blocks takes one step per block, because it runs without the lock and   *)
(* each iteration ends in a write to the disk.                             *)
(***************************************************************************)
EXTENDS Integers, Sequences, FiniteSets, Functions

CONSTANTS
    Threads,        \* threads of the FUSE server
    Blocks,         \* block numbers outside the log area
    Vals,           \* contents of a block
    MAXOPBLOCKS,    \* log blocks an operation reserves
    NLOG,           \* capacity of struct fslogheader
    LogSize,        \* fslog.size = sb.nlog: the header block and the data blocks
    OpLimit,        \* how often one operation may call logged_write()
    NotCached       \* the "content" of a block that no buffer of the cache holds

ASSUME LogAssumption ==
    /\ IsFiniteSet(Threads)
    /\ MAXOPBLOCKS \in Nat \ {0}
    /\ NLOG \in Nat \ {0}
    /\ LogSize \in Nat \ {0}
    /\ LogSize - 1 <= NLOG
    /\ MAXOPBLOCKS <= NLOG
    /\ OpLimit \in Nat
    /\ NotCached \notin Vals

VARIABLES
    disk,           \* [Blocks -> Vals], the home location of every block
    dlog,           \* [DataSlots -> Vals], the data blocks of the log area
    dhdr,           \* the log header on disk: header.block[0 .. n-1]
    cache,          \* [Blocks -> Vals \cup {NotCached}], the buffer cache
    pins,           \* [Blocks -> Nat], references held by bpin()
    lh,             \* fslog.lh in memory
    outstanding,    \* fslog.outstanding
    committing,     \* fslog.committing
    pc,             \* [Threads -> Labels], where each thread is
    tail,           \* [Threads -> Nat], the loop counter of each thread
    nwrote,         \* [Threads -> Nat], n_log_wrote of each thread
    up,             \* the file system is mounted
    err             \* the message of the err_exit() that ended the process

vars == <<disk, dlog, dhdr, cache, pins, lh, outstanding, committing,
          pc, tail, nwrote, up, err>>

DataSlots == 1 .. (LogSize - 1)

Labels == {"idle", "begin", "asleep", "op",             \* begin_op, end_op
           "wlog", "whead", "install", "clear", "wake", \* commit
           "rinstall", "rclear"}                        \* recover_from_log

Errors == {"none", "too big a transaction", "logged_write outside of transaction",
           "log.committing"}

TypeOK ==
    /\ disk \in [Blocks -> Vals]
    /\ dlog \in [DataSlots -> Vals]
    /\ dhdr \in Seq(Blocks) /\ Len(dhdr) < LogSize
    /\ cache \in [Blocks -> Vals \cup {NotCached}]
    /\ pins \in [Blocks -> Nat]
    /\ lh \in Seq(Blocks) /\ Len(lh) < LogSize
    /\ outstanding \in Nat
    /\ committing \in BOOLEAN
    /\ pc \in [Threads -> Labels]
    /\ tail \in [Threads -> 0 .. (LogSize - 1)]
    /\ nwrote \in [Threads -> 0 .. OpLimit]
    /\ up \in BOOLEAN
    /\ err \in Errors

-----------------------------------------------------------------------------
(* A freshly made disk (mkfs): the log is empty, nothing is mounted.       *)

Init ==
    /\ disk \in [Blocks -> Vals]
    /\ dlog \in [DataSlots -> Vals]
    /\ dhdr = <<>>
    /\ cache = [b \in Blocks |-> NotCached]
    /\ pins = [b \in Blocks |-> 0]
    /\ lh = <<>>
    /\ outstanding = 0
    /\ committing = FALSE
    /\ pc = [t \in Threads |-> "idle"]
    /\ tail = [t \in Threads |-> 0]
    /\ nwrote = [t \in Threads |-> 0]
    /\ up = FALSE
    /\ err = "none"

\* bread(b)->data: a miss reads the home location.
Content(b) == IF cache[b] = NotCached THEN disk[b] ELSE cache[b]

-----------------------------------------------------------------------------
(* begin_op and end_op.                                                    *)

\* Mutant: the blocks that are already logged take no room.
MustWait_IgnoresLogged ==
    \/ committing
    \/ (outstanding + 1) * MAXOPBLOCKS > NLOG

\* The condition under which begin_op() waits.
MustWait ==
    \/ committing
    \/ Len(lh) + (outstanding + 1) * MAXOPBLOCKS > NLOG

\* Mutant: the broadcast is forgotten.
Broadcast_Forgotten(pcs) == pcs

\* pthread_cond_broadcast(&fslog.wakeup): each sleeper tests again.
Broadcast(pcs) == [t \in Threads |-> IF pcs[t] = "asleep" THEN "begin" ELSE pcs[t]]

BeginOp(t) ==
    /\ up
    /\ pc[t] \in {"idle", "begin"}
    /\ IF MustWait
       THEN /\ pc' = [pc EXCEPT ![t] = "asleep"]
            /\ UNCHANGED <<outstanding, nwrote>>
       ELSE /\ pc' = [pc EXCEPT ![t] = "op"]
            /\ outstanding' = outstanding + 1
            /\ nwrote' = [nwrote EXCEPT ![t] = 0]
    /\ UNCHANGED <<disk, dlog, dhdr, cache, pins, lh, committing, tail, up, err>>

\* pthread_cond_wait() may also return without a broadcast.
SpuriousWakeup(t) ==
    /\ pc[t] = "asleep"
    /\ pc' = [pc EXCEPT ![t] = "begin"]
    /\ UNCHANGED <<disk, dlog, dhdr, cache, pins, lh, outstanding, committing,
                   tail, nwrote, up, err>>

\* What the death of the process leaves: the disk.
Die ==
    /\ cache' = [b \in Blocks |-> NotCached]
    /\ pins' = [b \in Blocks |-> 0]
    /\ lh' = <<>>
    /\ outstanding' = 0
    /\ committing' = FALSE
    /\ pc' = [t \in Threads |-> "idle"]
    /\ tail' = [t \in Threads |-> 0]
    /\ nwrote' = [t \in Threads |-> 0]
    /\ up' = FALSE
    /\ UNCHANGED <<disk, dlog, dhdr>>

\* Mutant: the last operation does not commit.
CommitStart_Never == "wake"

\* commit() has something to do only if blocks were logged.
CommitStart == IF Len(lh) > 0 THEN "wlog" ELSE "wake"

\* The part of end_op() under the lock.
EndOp(t) ==
    /\ pc[t] = "op"
    /\ IF committing
       THEN Die /\ err' = "log.committing"
       ELSE /\ outstanding' = outstanding - 1
            /\ IF outstanding = 1
               THEN /\ committing' = TRUE
                    /\ pc' = [pc EXCEPT ![t] = CommitStart]
                    /\ tail' = [tail EXCEPT ![t] = 0]
               ELSE /\ pc' = [Broadcast(pc) EXCEPT ![t] = "idle"]
                    /\ UNCHANGED <<committing, tail>>
            /\ UNCHANGED <<disk, dlog, dhdr, cache, pins, lh, nwrote, up, err>>

-----------------------------------------------------------------------------
(* logged_read, a change of the buffer, logged_write and logged_relse: the *)
(* buffer is locked from the first to the last.                            *)

\* Mutant: a block that is written twice is logged twice.
LogBlock_Twice(b) ==
    /\ lh' = Append(lh, b)
    /\ pins' = [pins EXCEPT ![b] = @ + 1]

\* A block is logged, and its buffer pinned, once per transaction.
LogBlock(b) ==
    IF b \in Range(lh)
    THEN UNCHANGED <<lh, pins>>
    ELSE /\ lh' = Append(lh, b)
         /\ pins' = [pins EXCEPT ![b] = @ + 1]

\* The checks of logged_write(); each one ends the process.
WriteError ==
    IF Len(lh) >= NLOG \/ Len(lh) >= LogSize - 1 THEN "too big a transaction"
    ELSE IF outstanding < 1 THEN "logged_write outside of transaction"
    ELSE "none"

LoggedWrite(t, b, v) ==
    /\ pc[t] = "op"
    /\ nwrote[t] < OpLimit
    /\ IF WriteError # "none"
       THEN Die /\ err' = WriteError
       ELSE /\ nwrote' = [nwrote EXCEPT ![t] = @ + 1]
            /\ cache' = [cache EXCEPT ![b] = v]
            /\ LogBlock(b)
            /\ UNCHANGED <<disk, dlog, dhdr, outstanding, committing, pc, tail, up, err>>

-----------------------------------------------------------------------------
(* commit, run by the thread whose end_op() found outstanding = 0.         *)

\* One iteration of write_from_cache_to_log().
WriteFromCacheToLog(t) ==
    /\ pc[t] = "wlog"
    /\ dlog' = [dlog EXCEPT ![tail[t] + 1] = Content(lh[tail[t] + 1])]
    /\ cache' = [cache EXCEPT ![lh[tail[t] + 1]] = Content(lh[tail[t] + 1])]
    /\ tail' = [tail EXCEPT ![t] = IF @ + 1 < Len(lh) THEN @ + 1 ELSE 0]
    /\ pc' = [pc EXCEPT ![t] = IF tail[t] + 1 < Len(lh) THEN "wlog" ELSE "whead"]
    /\ UNCHANGED <<disk, dhdr, pins, lh, outstanding, committing, nwrote, up, err>>

\* write_log_header_to_disk(), the commit point.
WriteLogHeader(t) ==
    /\ pc[t] = "whead"
    /\ dhdr' = lh
    /\ tail' = [tail EXCEPT ![t] = 0]
    /\ pc' = [pc EXCEPT ![t] = "install"]
    /\ UNCHANGED <<disk, dlog, cache, pins, lh, outstanding, committing, nwrote, up, err>>

\* One iteration of install_transaction(0), which also drops the pin.
InstallTransaction(t) ==
    LET b == lh[tail[t] + 1]  v == dlog[tail[t] + 1] IN
    /\ pc[t] = "install"
    /\ cache' = [cache EXCEPT ![b] = v]
    /\ disk' = [disk EXCEPT ![b] = v]
    /\ pins' = [pins EXCEPT ![b] = @ - 1]
    /\ tail' = [tail EXCEPT ![t] = IF @ + 1 < Len(lh) THEN @ + 1 ELSE 0]
    /\ pc' = [pc EXCEPT ![t] = IF tail[t] + 1 < Len(lh) THEN "install" ELSE "clear"]
    /\ UNCHANGED <<dlog, dhdr, lh, outstanding, committing, nwrote, up, err>>

\* Mutant: the header on disk is not cleared.
ClearLogHeader_NoWrite(t) ==
    /\ pc[t] = "clear"
    /\ lh' = <<>>
    /\ pc' = [pc EXCEPT ![t] = "wake"]
    /\ UNCHANGED <<disk, dlog, dhdr, cache, pins, outstanding, committing, tail,
                   nwrote, up, err>>

\* fslog.lh.n = 0 and the second write_log_header_to_disk().
ClearLogHeader(t) ==
    /\ pc[t] = "clear"
    /\ lh' = <<>>
    /\ dhdr' = <<>>
    /\ pc' = [pc EXCEPT ![t] = "wake"]
    /\ UNCHANGED <<disk, dlog, cache, pins, outstanding, committing, tail, nwrote, up, err>>

\* The end of end_op() after commit() returned.
CommitDone(t) ==
    /\ pc[t] = "wake"
    /\ committing' = FALSE
    /\ pc' = [Broadcast(pc) EXCEPT ![t] = "idle"]
    /\ UNCHANGED <<disk, dlog, dhdr, cache, pins, lh, outstanding, tail, nwrote, up, err>>

-----------------------------------------------------------------------------
(* log_init, run by one thread before any call is served.                  *)

\* read_log_header_from_disk().
ReadLogHeader(t) ==
    /\ ~up
    /\ \A s \in Threads : pc[s] = "idle"
    /\ lh' = dhdr
    /\ pc' = [pc EXCEPT ![t] = IF Len(dhdr) > 0 THEN "rinstall" ELSE "rclear"]
    /\ tail' = [tail EXCEPT ![t] = 0]
    /\ err' = "none"
    /\ UNCHANGED <<disk, dlog, dhdr, cache, pins, outstanding, committing, nwrote, up>>

\* One iteration of install_transaction(1): nothing was pinned.
RecoverInstall(t) ==
    LET b == lh[tail[t] + 1]  v == dlog[tail[t] + 1] IN
    /\ pc[t] = "rinstall"
    /\ cache' = [cache EXCEPT ![b] = v]
    /\ disk' = [disk EXCEPT ![b] = v]
    /\ tail' = [tail EXCEPT ![t] = IF @ + 1 < Len(lh) THEN @ + 1 ELSE 0]
    /\ pc' = [pc EXCEPT ![t] = IF tail[t] + 1 < Len(lh) THEN "rinstall" ELSE "rclear"]
    /\ UNCHANGED <<dlog, dhdr, pins, lh, outstanding, committing, nwrote, up, err>>

\* The end of recover_from_log(); the mount goes on and serves calls.
RecoverDone(t) ==
    /\ pc[t] = "rclear"
    /\ lh' = <<>>
    /\ dhdr' = <<>>
    /\ pc' = [pc EXCEPT ![t] = "idle"]
    /\ up' = TRUE
    /\ UNCHANGED <<disk, dlog, cache, pins, outstanding, committing, tail, nwrote, err>>

-----------------------------------------------------------------------------
(* The environment.                                                        *)

\* bread() of a block brings it into the cache.
Fill(b) ==
    /\ up
    /\ cache[b] = NotCached
    /\ cache' = [cache EXCEPT ![b] = disk[b]]
    /\ UNCHANGED <<disk, dlog, dhdr, pins, lh, outstanding, committing, pc, tail,
                   nwrote, up, err>>

\* bget() may recycle any buffer that nobody references.
Evict(b) ==
    /\ up
    /\ cache[b] # NotCached
    /\ pins[b] = 0
    /\ cache' = [cache EXCEPT ![b] = NotCached]
    /\ UNCHANGED <<disk, dlog, dhdr, pins, lh, outstanding, committing, pc, tail,
                   nwrote, up, err>>

\* The process dies, mounted or in the middle of its recovery.
Crash ==
    /\ up \/ \E t \in Threads : pc[t] # "idle"
    /\ Die
    /\ UNCHANGED err

Step(t) ==
    \/ BeginOp(t)
    \/ EndOp(t)
    \/ WriteFromCacheToLog(t)
    \/ WriteLogHeader(t)
    \/ InstallTransaction(t)
    \/ ClearLogHeader(t)
    \/ CommitDone(t)
    \/ ReadLogHeader(t)
    \/ RecoverInstall(t)
    \/ RecoverDone(t)

Next ==
    \/ \E t \in Threads :
        \/ Step(t)
        \/ SpuriousWakeup(t)
        \/ \E b \in Blocks, v \in Vals : LoggedWrite(t, b, v)
    \/ \E b \in Blocks : Fill(b) \/ Evict(b)
    \/ Crash

Spec == Init /\ [][Next]_vars

\* A thread that can go on does: the kernel schedules every thread, and a
\* call that has begun returns.  Nothing forces a write, a wakeup without a
\* reason, a refill or a crash.
Progress(t) ==
    \/ BeginOp(t) /\ pc[t] = "begin"
    \/ EndOp(t)
    \/ WriteFromCacheToLog(t)
    \/ WriteLogHeader(t)
    \/ InstallTransaction(t)
    \/ ClearLogHeader(t)
    \/ CommitDone(t)

FairSpec == Spec /\ \A t \in Threads : WF_vars(Progress(t))

-----------------------------------------------------------------------------
(* What makes the log correct.                                             *)

CommitLabels == {"wlog", "whead", "install", "clear", "wake"}

Active == {t \in Threads : pc[t] = "op"}

\* What log_init() would leave at the home locations if the process died now.
Durable ==
    [b \in Blocks |->
        IF b \in Range(dhdr)
        THEN dlog[CHOOSE i \in 1 .. Len(dhdr) : dhdr[i] = b]
        ELSE disk[b]]

\* What logged_read() returns; nothing is read while the log is replayed.
View == IF up THEN [b \in Blocks |-> Content(b)] ELSE Durable

\* The log implements an atomic store (log.h: the log "only commits when
\* there are no FS system calls active"): a crash anywhere, also during
\* recovery, leaves all or nothing of every operation.
Store == INSTANCE TxnStore WITH durable <- Durable, view <- View, active <- Active
AtomicStore == Store!Spec

\* end_op() of the last operation returns only when everything written is
\* durable: with no call open and no commit running nothing would be lost.
QuiescentIsDurable ==
    (up /\ \A t \in Threads : pc[t] \notin CommitLabels \cup {"op"})
        => View = Durable /\ lh = <<>>

\* logged_write() and install_transaction() pair bpin() and bunpin(): a block
\* is pinned, once, exactly while it is logged and not yet installed.
Installed(i) ==
    \E t \in Threads :
        \/ pc[t] = "install" /\ i <= tail[t]
        \/ pc[t] \in {"clear", "rinstall", "rclear"}
PinnedWhileLogged ==
    \A b \in Blocks :
        pins[b] = IF \E i \in 1 .. Len(lh) : lh[i] = b /\ ~Installed(i) THEN 1 ELSE 0

\* A buffer that bget() may recycle holds what its home location holds, so
\* recycling it loses no write and a later bread() returns the same content.
EvictionLosesNothing ==
    \A b \in Blocks : pins[b] = 0 /\ cache[b] # NotCached => cache[b] = disk[b]

\* commit() runs without the lock, in at most one thread, and no operation
\* runs beside it: fslog.committing keeps everybody out.
CommitRunsAlone ==
    /\ committing <=> \E t \in Threads : pc[t] \in CommitLabels
    /\ \A s, t \in Threads :
         pc[s] \in CommitLabels /\ pc[t] \in CommitLabels \cup {"op"} => s = t

\* Whoever sleeps in begin_op() has somebody left to wake it: a committer or
\* an operation whose end_op() is still to come (no lost wakeup).
SleeperHasWaker ==
    \A t \in Threads : pc[t] = "asleep" =>
        committing \/ \E s \in Threads : pc[s] = "op"

\* Operations that keep to their share of the log never meet an err_exit():
\* the reservation of begin_op() is enough, and no write or end of an
\* operation falls outside of one.
NoErrExit == err = "none"

\* A thread asleep in begin_op() is woken (or the process dies).
SleeperWakes == \A t \in Threads : pc[t] = "asleep" ~> pc[t] # "asleep"

-----------------------------------------------------------------------------
(* The inductive invariant of the proofs.                                  *)

\* log_init() runs alone and before everything else.
RecoveryRunsAlone ==
    /\ up => \A t \in Threads : pc[t] \notin {"rinstall", "rclear"}
    /\ ~up => /\ \A t \in Threads : pc[t] \in {"idle", "rinstall", "rclear"}
              /\ (\A t \in Threads : pc[t] = "idle") => lh = <<>>
    /\ \A s, t \in Threads :
         pc[s] \in {"rinstall", "rclear"} /\ pc[t] \in {"rinstall", "rclear"} => s = t

\* fslog.outstanding counts the open operations.
OutstandingIsCount == outstanding = Cardinality(Active)

Distinct(s) == \A i, j \in 1 .. Len(s) : s[i] = s[j] => i = j

\* The two headers: the one on disk is empty, except from the commit point
\* until it is cleared, when it is the one in memory.
HeaderInv ==
    /\ Distinct(lh)
    /\ Distinct(dhdr)
    /\ (up /\ \A t \in Threads : pc[t] \notin {"install", "clear"}) => dhdr = <<>>
    /\ \A t \in Threads :
        /\ pc[t] \in {"install", "clear", "rinstall", "rclear"} => dhdr = lh
        /\ pc[t] = "wake" => lh = <<>>
        /\ pc[t] \in {"wlog", "install", "rinstall"} => tail[t] < Len(lh)
        /\ pc[t] = "whead" => 0 < Len(lh)
    /\ (up /\ \A t \in Threads : pc[t] \notin CommitLabels \cup {"op"}) => lh = <<>>

\* What the loops of commit() and recover_from_log() have done so far.
CopyInv ==
    \A t \in Threads : \A i \in 1 .. Len(lh) :
        /\ pc[t] = "wlog" /\ i <= tail[t] => dlog[i] = cache[lh[i]]
        /\ pc[t] = "whead" => dlog[i] = cache[lh[i]]
        /\ pc[t] = "install" /\ i > tail[t] => dlog[i] = cache[lh[i]]
        /\ pc[t] \in {"install", "rinstall"} /\ i <= tail[t] => dlog[i] = disk[lh[i]]
        /\ pc[t] \in {"clear", "rclear"} => dlog[i] = disk[lh[i]]

\* What bget() may not recycle is in the cache.
PinnedIsCached == \A b \in Blocks : pins[b] > 0 => cache[b] # NotCached

LogInv ==
    /\ TypeOK
    /\ RecoveryRunsAlone
    /\ CommitRunsAlone
    /\ OutstandingIsCount
    /\ HeaderInv
    /\ CopyInv
    /\ PinnedWhileLogged
    /\ PinnedIsCached
    /\ EvictionLosesNothing
    /\ SleeperHasWaker
=============================================================================
