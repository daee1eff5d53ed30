----------------------------- MODULE LogProofs ------------------------------
(***************************************************************************)
(* Proofs about the write-ahead log, for any number of threads and blocks  *)
(* and any size of the log.                                                *)
(*                                                                         *)
(* LogInv is inductive: one lemma per action shows that the action keeps   *)
(* it.  Its named parts are the properties that the runs check.  With it,  *)
(* every step of the log is a step of the atomic store or invisible there. *)
(***************************************************************************)
EXTENDS Log, FiniteSetTheorems, TLAPS

\* The open operations are finitely many; they can be counted.
LEMMA ActiveFinite == IsFiniteSet(Active) /\ Cardinality(Active) \in Nat
<1>1. Active \in SUBSET Threads
    BY DEF Active
<1> QED
    BY <1>1, LogAssumption, FS_Subset, FS_CardinalityType

\* The death of the process keeps the invariant whatever it interrupts.
LEMMA DieInv ==
    ASSUME LogInv, Die, err' \in Errors
    PROVE  LogInv'
<1>1. TypeOK'
    <2>1. <<>> \in Seq(Blocks) /\ Len(<<>>) = 0
        OBVIOUS
    <2>2. 0 < LogSize /\ 0 \in 0 .. (LogSize - 1) /\ 0 \in 0 .. OpLimit
        BY LogAssumption
    <2> QED
        BY <2>1, <2>2 DEF LogInv, TypeOK, Die, Labels
<1>2. RecoveryRunsAlone'
    BY DEF RecoveryRunsAlone, Die
<1>3. CommitRunsAlone'
    BY DEF CommitRunsAlone, CommitLabels, Die
<1>4. OutstandingIsCount'
    <2>1. Active' = {}
        BY DEF Active, Die
    <2> QED
        BY <2>1, FS_EmptySet DEF OutstandingIsCount, Die
<1>5. HeaderInv'
    BY DEF LogInv, HeaderInv, Distinct, CommitLabels, Die
<1>6. CopyInv'
    BY DEF CopyInv, Die
<1>7. PinnedWhileLogged'
    BY DEF PinnedWhileLogged, Die
<1>8. PinnedIsCached'
    BY DEF PinnedIsCached, Die
<1>9. EvictionLosesNothing'
    BY DEF EvictionLosesNothing, Die
<1>10. SleeperHasWaker'
    BY DEF SleeperHasWaker, Die
<1> QED
    BY <1>1, <1>2, <1>3, <1>4, <1>5, <1>6, <1>7, <1>8, <1>9, <1>10 DEF LogInv

\* begin_op() keeps the invariant; it sleeps only when somebody will wake it.
LEMMA BeginOpInv ==
    ASSUME LogInv, NEW t \in Threads, BeginOp(t)
    PROVE  LogInv'
<1>1. TypeOK'
    <2>1. 0 \in 0 .. OpLimit
        BY LogAssumption
    <2>2. outstanding' \in Nat /\ nwrote' \in [Threads -> 0 .. OpLimit]
        BY <2>1 DEF LogInv, TypeOK, BeginOp
    <2>3. pc' \in [Threads -> Labels]
        BY DEF LogInv, TypeOK, BeginOp, Labels
    <2> QED
        BY <2>2, <2>3 DEF LogInv, TypeOK, BeginOp
<1>2. RecoveryRunsAlone'
    BY DEF LogInv, TypeOK, RecoveryRunsAlone, BeginOp
<1>3. CommitRunsAlone'
    BY DEF LogInv, TypeOK, CommitRunsAlone, CommitLabels, BeginOp, MustWait
<1>4. OutstandingIsCount'
    <2>1. CASE MustWait
        <3>1. Active' = Active
            BY <2>1 DEF LogInv, TypeOK, Active, BeginOp
        <3> QED
            BY <2>1, <3>1 DEF LogInv, OutstandingIsCount, BeginOp
    <2>2. CASE ~MustWait
        <3>1. Active' = Active \cup {t} /\ t \notin Active
            BY <2>2 DEF LogInv, TypeOK, Active, BeginOp
        <3>2. Cardinality(Active') = Cardinality(Active) + 1
            BY <3>1, ActiveFinite, FS_AddElement
        <3> QED
            BY <2>2, <3>2 DEF LogInv, OutstandingIsCount, BeginOp
    <2> QED
        BY <2>1, <2>2
<1>5. HeaderInv'
    <2>1. UNCHANGED <<lh, dhdr, tail, up>>
        BY DEF BeginOp
    <2>2. \A s \in Threads :
            /\ pc'[s] \in {"asleep", "op"} \/ pc'[s] = pc[s]
            /\ pc[s] \in CommitLabels \cup {"op"} => pc'[s] = pc[s]
        BY DEF LogInv, TypeOK, BeginOp, CommitLabels
    <2> QED
        BY <2>1, <2>2 DEF LogInv, HeaderInv, Distinct, CommitLabels
<1>6. CopyInv'
    <2>1. UNCHANGED <<lh, dlog, disk, cache, tail>>
        BY DEF BeginOp
    <2>2. \A s \in Threads : pc'[s] \in {"asleep", "op"} \/ pc'[s] = pc[s]
        BY DEF LogInv, TypeOK, BeginOp
    <2> QED
        BY <2>1, <2>2 DEF LogInv, CopyInv
<1>7. PinnedWhileLogged'
    <2>1. UNCHANGED <<lh, pins>>
        BY DEF BeginOp
    <2>2. \A i \in 1 .. Len(lh) : Installed(i)' = Installed(i)
        BY DEF LogInv, TypeOK, BeginOp, Installed
    <2> QED
        BY <2>1, <2>2 DEF LogInv, PinnedWhileLogged
<1>8. PinnedIsCached'
    BY DEF LogInv, PinnedIsCached, BeginOp
<1>9. EvictionLosesNothing'
    BY DEF LogInv, EvictionLosesNothing, BeginOp
<1>10. SleeperHasWaker'
    <2>1. CASE ~MustWait
        BY <2>1 DEF LogInv, TypeOK, SleeperHasWaker, BeginOp
    <2>2. CASE MustWait /\ committing
        BY <2>2 DEF LogInv, TypeOK, SleeperHasWaker, BeginOp
    <2>3. CASE MustWait /\ ~committing
        <3>1. ASSUME Active = {} PROVE FALSE
            <4>1. outstanding = 0
                BY <3>1, FS_EmptySet DEF LogInv, OutstandingIsCount
            <4>2. \A s \in Threads : pc[s] \notin CommitLabels \cup {"op"}
                BY <3>1, <2>3 DEF LogInv, CommitRunsAlone, Active
            <4>3. lh = <<>>
                BY <4>2 DEF LogInv, HeaderInv, BeginOp
            <4>4. Len(lh) + (outstanding + 1) * MAXOPBLOCKS = MAXOPBLOCKS
                BY <4>1, <4>3, LogAssumption
            <4> QED
                BY <4>4, <2>3, LogAssumption DEF MustWait
        <3>2. PICK s \in Threads : pc[s] = "op"
            BY <3>1 DEF Active
        <3>3. pc'[s] = "op"
            BY <3>2 DEF LogInv, TypeOK, BeginOp
        <3> QED
            BY <3>3 DEF SleeperHasWaker
    <2> QED
        BY <2>1, <2>2, <2>3
<1> QED
    BY <1>1, <1>2, <1>3, <1>4, <1>5, <1>6, <1>7, <1>8, <1>9, <1>10 DEF LogInv

\* end_op() keeps the invariant: the last operation becomes the one committer,
\* any other leaves an operation behind that will wake the sleepers.
LEMMA EndOpInv ==
    ASSUME LogInv, NEW t \in Threads, EndOp(t)
    PROVE  LogInv'
<1>0. /\ ~committing
      /\ t \in Active
      /\ outstanding = Cardinality(Active)
      /\ outstanding \in Nat \ {0}
      /\ up
      /\ \A s \in Threads : pc[s] \notin CommitLabels
    <2>1. t \in Active /\ pc[t] = "op"
        BY DEF EndOp, CommitStart, Active
    <2>2. \A s \in Threads : pc[s] \notin CommitLabels
        BY <2>1 DEF LogInv, CommitRunsAlone, CommitLabels
    <2>3. Cardinality(Active) \in Nat \ {0}
        BY <2>1, ActiveFinite, FS_EmptySet
    <2>4. up
        BY <2>1 DEF LogInv, RecoveryRunsAlone
    <2> QED
        BY <2>1, <2>2, <2>3, <2>4 DEF LogInv, CommitRunsAlone, OutstandingIsCount
<1>c. Cardinality(Active \ {t}) = outstanding - 1 /\ IsFiniteSet(Active \ {t})
    BY <1>0, ActiveFinite, FS_RemoveElement
<1>a. CASE outstanding = 1
    <2>0. /\ Active = {t}
          /\ outstanding' = 0
          /\ committing' = TRUE
          /\ pc' = [pc EXCEPT ![t] = IF Len(lh) > 0 THEN "wlog" ELSE "wake"]
          /\ tail' = [tail EXCEPT ![t] = 0]
          /\ UNCHANGED <<disk, dlog, dhdr, cache, pins, lh, nwrote, up, err>>
        <3>1. Active \ {t} = {}
            BY <1>a, <1>c, FS_EmptySet
        <3> QED
            BY <1>a, <1>0, <3>1 DEF EndOp, CommitStart
    <2>1. TypeOK'
        BY <2>0, LogAssumption DEF LogInv, TypeOK, Labels
    <2>2. RecoveryRunsAlone'
        BY <2>0, <1>0 DEF LogInv, TypeOK, RecoveryRunsAlone
    <2>3. CommitRunsAlone'
        <3>1. \A s \in Threads : s # t => pc[s] # "op"
            BY <2>0 DEF Active
        <3>2. pc'[t] \in CommitLabels
            BY <2>0 DEF LogInv, TypeOK, CommitLabels
        <3>3. \A s \in Threads : s # t => pc'[s] \notin CommitLabels \cup {"op"}
            BY <3>1, <2>0, <1>0 DEF LogInv, TypeOK
        <3> QED
            BY <2>0, <3>2, <3>3 DEF CommitRunsAlone
    <2>4. OutstandingIsCount'
        <3>1. Active' = {}
            BY <2>0 DEF LogInv, TypeOK, Active
        <3> QED
            BY <3>1, <2>0, FS_EmptySet DEF OutstandingIsCount
    <2>5. HeaderInv'
        BY <2>0, <1>0 DEF LogInv, TypeOK, HeaderInv, Distinct, CommitLabels
    <2>6. CopyInv'
        BY <2>0, <1>0 DEF LogInv, TypeOK, CopyInv, CommitLabels
    <2>7. PinnedWhileLogged'
        <3>1. \A i \in 1 .. Len(lh) : Installed(i)' = Installed(i)
            BY <2>0, <1>0 DEF LogInv, TypeOK, RecoveryRunsAlone, Installed, CommitLabels
        <3> QED
            BY <3>1, <2>0 DEF LogInv, PinnedWhileLogged
    <2>8. PinnedIsCached'
        BY <2>0 DEF LogInv, PinnedIsCached
    <2>9. EvictionLosesNothing'
        BY <2>0 DEF LogInv, EvictionLosesNothing
    <2>10. SleeperHasWaker'
        BY <2>0 DEF SleeperHasWaker
    <2> QED
        BY <2>1, <2>2, <2>3, <2>4, <2>5, <2>6, <2>7, <2>8, <2>9, <2>10 DEF LogInv
<1>b. CASE outstanding # 1
    <2>0. /\ outstanding' = outstanding - 1
          /\ pc' = [Broadcast(pc) EXCEPT ![t] = "idle"]
          /\ UNCHANGED <<disk, dlog, dhdr, cache, pins, lh, committing, tail, nwrote, up, err>>
        BY <1>b, <1>0 DEF EndOp, CommitStart
    <2>p. /\ pc' \in [Threads -> Labels]
          /\ pc'[t] = "idle"
          /\ \A s \in Threads : s # t => pc'[s] = IF pc[s] = "asleep" THEN "begin" ELSE pc[s]
        BY <2>0 DEF LogInv, TypeOK, Broadcast, Labels
    <2>q. PICK r \in Threads : r # t /\ pc[r] = "op"
        <3>1. Active \ {t} # {}
            BY <1>b, <1>c, <1>0, FS_EmptySet
        <3> QED
            BY <3>1 DEF Active
    <2>1. TypeOK'
        BY <2>0, <2>p, <1>0 DEF LogInv, TypeOK
    <2>2. RecoveryRunsAlone'
        BY <2>0, <2>p, <1>0 DEF LogInv, RecoveryRunsAlone
    <2>3. CommitRunsAlone'
        BY <2>0, <2>p, <1>0 DEF CommitRunsAlone, CommitLabels
    <2>4. OutstandingIsCount'
        <3>1. Active' = Active \ {t}
            BY <2>p DEF Active
        <3> QED
            BY <3>1, <2>0, <1>c DEF OutstandingIsCount
    <2>5. HeaderInv'
        BY <2>0, <2>p, <2>q, <1>0 DEF LogInv, HeaderInv, Distinct, CommitLabels
    <2>6. CopyInv'
        BY <2>0, <2>p DEF LogInv, CopyInv
    <2>7. PinnedWhileLogged'
        <3>1. \A i \in 1 .. Len(lh) : Installed(i)' = Installed(i)
            BY <2>0, <2>p, <1>0 DEF Installed, CommitLabels, LogInv, RecoveryRunsAlone
        <3> QED
            BY <3>1, <2>0 DEF LogInv, PinnedWhileLogged
    <2>8. PinnedIsCached'
        BY <2>0 DEF LogInv, PinnedIsCached
    <2>9. EvictionLosesNothing'
        BY <2>0 DEF LogInv, EvictionLosesNothing
    <2>10. SleeperHasWaker'
        BY <2>p, <2>q DEF SleeperHasWaker
    <2> QED
        BY <2>1, <2>2, <2>3, <2>4, <2>5, <2>6, <2>7, <2>8, <2>9, <2>10 DEF LogInv
<1> QED
    BY <1>a, <1>b

\* A wakeup without a broadcast keeps the invariant.
LEMMA SpuriousWakeupInv ==
    ASSUME LogInv, NEW t \in Threads, SpuriousWakeup(t)
    PROVE  LogInv'
<1>1. TypeOK'
    BY DEF LogInv, TypeOK, SpuriousWakeup, Labels
<1>2. RecoveryRunsAlone'
    BY DEF LogInv, TypeOK, RecoveryRunsAlone, SpuriousWakeup
<1>3. CommitRunsAlone'
    BY DEF LogInv, TypeOK, CommitRunsAlone, CommitLabels, SpuriousWakeup
<1>4. OutstandingIsCount'
    <2>1. Active' = Active
        BY DEF LogInv, TypeOK, Active, SpuriousWakeup
    <2> QED
        BY <2>1 DEF LogInv, OutstandingIsCount, SpuriousWakeup
<1>5. HeaderInv'
    BY DEF LogInv, TypeOK, HeaderInv, Distinct, CommitLabels, SpuriousWakeup
<1>6. CopyInv'
    BY DEF LogInv, TypeOK, CopyInv, SpuriousWakeup
<1>7. PinnedWhileLogged'
    BY DEF LogInv, TypeOK, PinnedWhileLogged, Installed, SpuriousWakeup
<1>8. PinnedIsCached'
    BY DEF LogInv, PinnedIsCached, SpuriousWakeup
<1>9. EvictionLosesNothing'
    BY DEF LogInv, EvictionLosesNothing, SpuriousWakeup
<1>10. SleeperHasWaker'
    BY DEF LogInv, TypeOK, SleeperHasWaker, SpuriousWakeup
<1> QED
    BY <1>1, <1>2, <1>3, <1>4, <1>5, <1>6, <1>7, <1>8, <1>9, <1>10 DEF LogInv

\* logged_write() keeps the invariant: absorption keeps the header free of
\* duplicates, and the block is pinned when it enters the header.
LEMMA LoggedWriteInv ==
    ASSUME LogInv, NEW t \in Threads, NEW b \in Blocks, NEW v \in Vals,
           LoggedWrite(t, b, v)
    PROVE  LogInv'
<1>a. CASE WriteError # "none"
    <2>1. WriteError \in Errors
        BY DEF WriteError, Errors
    <2> QED
        BY <1>a, <2>1, DieInv DEF LoggedWrite
<1>b. CASE WriteError = "none"
    <2>l. Len(lh) < LogSize - 1
        BY <1>b, LogAssumption DEF WriteError, LogInv, TypeOK
    <2>0. /\ nwrote' = [nwrote EXCEPT ![t] = @ + 1]
          /\ cache' = [cache EXCEPT ![b] = v]
          /\ IF b \in Range(lh)
             THEN UNCHANGED <<lh, pins>>
             ELSE /\ lh' = Append(lh, b)
                  /\ pins' = [pins EXCEPT ![b] = @ + 1]
          /\ UNCHANGED <<disk, dlog, dhdr, outstanding, committing, pc, tail, up, err>>
        BY <1>b DEF LoggedWrite, LogBlock
    <2>p. /\ pc[t] = "op"
          /\ up
          /\ \A s \in Threads : pc[s] \notin CommitLabels \cup {"rinstall", "rclear"}
        BY DEF LogInv, RecoveryRunsAlone, CommitRunsAlone, CommitLabels, LoggedWrite, LogBlock
    <2>q. Len(lh) \in Nat /\ Len(lh) + 1 < LogSize /\ lh \in Seq(Blocks)
        BY <2>l, LogAssumption DEF LogInv, TypeOK
    <2>r. \A c \in Blocks : c \in Range(lh) <=> \E i \in 1 .. Len(lh) : lh[i] = c
        BY <2>q DEF Range
    <2>s. \A i : ~Installed(i) /\ ~Installed(i)'
        BY <2>0, <2>p DEF Installed, CommitLabels
    <2>u. \A c \in Blocks : pins[c] = IF c \in Range(lh) THEN 1 ELSE 0
        BY <2>q, <2>r, <2>s DEF LogInv, PinnedWhileLogged
    <2>v. /\ lh' \in Seq(Blocks) /\ Len(lh') < LogSize
          /\ Distinct(lh')
          /\ pins' \in [Blocks -> Nat]
          /\ \A c \in Blocks : (\E i \in 1 .. Len(lh') : lh'[i] = c)
                                <=> c \in Range(lh) \cup {b}
          /\ \A c \in Blocks : pins'[c] = IF c \in Range(lh) \cup {b} THEN 1 ELSE 0
        <3>1. CASE b \in Range(lh)
            BY <3>1, <2>0, <2>q, <2>r, <2>u DEF LogInv, TypeOK, HeaderInv
        <3>2. CASE b \notin Range(lh)
            <4>1. /\ lh' \in Seq(Blocks) /\ Len(lh') = Len(lh) + 1
                  /\ lh'[Len(lh) + 1] = b
                  /\ \A i \in 1 .. Len(lh) : lh'[i] = lh[i]
                <5>1. lh' = Append(lh, b)
                    BY <3>2, <2>0
                <5> QED
                    BY <5>1, <2>q
            <4>2. Distinct(lh')
                BY <4>1, <3>2, <2>q, <2>r DEF LogInv, HeaderInv, Distinct
            <4>3. \A c \in Blocks : (\E i \in 1 .. Len(lh') : lh'[i] = c)
                                    <=> c \in Range(lh) \cup {b}
                BY <4>1, <2>q, <2>r
            <4>4. /\ pins' \in [Blocks -> Nat]
                  /\ \A c \in Blocks : pins'[c] = IF c \in Range(lh) \cup {b} THEN 1 ELSE 0
                BY <3>2, <2>0, <2>u DEF LogInv, TypeOK
            <4> QED
                BY <4>1, <4>2, <4>3, <4>4, <2>q
        <3> QED
            BY <3>1, <3>2
    <2>1. TypeOK'
        <3>1. nwrote' \in [Threads -> 0 .. OpLimit]
            <4>1. nwrote[t] \in 0 .. OpLimit /\ nwrote[t] < OpLimit
                BY DEF LogInv, TypeOK, LoggedWrite, LogBlock
            <4>2. nwrote[t] + 1 \in 0 .. OpLimit
                BY <4>1, LogAssumption
            <4> QED
                BY <4>2, <2>0 DEF LogInv, TypeOK
        <3>2. cache' \in [Blocks -> Vals \cup {NotCached}]
            BY <2>0 DEF LogInv, TypeOK
        <3> QED
            BY <3>1, <3>2, <2>0, <2>v DEF LogInv, TypeOK
    <2>2. RecoveryRunsAlone'
        BY <2>0, <2>p DEF LogInv, RecoveryRunsAlone
    <2>3. CommitRunsAlone'
        BY <2>0 DEF LogInv, CommitRunsAlone
    <2>4. OutstandingIsCount'
        BY <2>0 DEF LogInv, OutstandingIsCount, Active
    <2>5. HeaderInv'
        BY <2>0, <2>p, <2>v DEF LogInv, HeaderInv, Distinct, CommitLabels
    <2>6. CopyInv'
        BY <2>0, <2>p DEF CopyInv, CommitLabels
    <2>7. PinnedWhileLogged'
        BY <2>s, <2>v DEF PinnedWhileLogged
    <2>8. PinnedIsCached'
        <3> SUFFICES ASSUME NEW c \in Blocks, pins'[c] > 0
                     PROVE  cache'[c] # NotCached
            BY DEF PinnedIsCached
        <3>1. c \in Range(lh) \cup {b}
            BY <2>v
        <3>2. cache \in [Blocks -> Vals \cup {NotCached}] /\ cache' = [cache EXCEPT ![b] = v]
            BY <2>0 DEF LogInv, TypeOK
        <3>3. CASE c = b
            BY <3>2, <3>3, LogAssumption
        <3>4. CASE c # b
            <4>1. pins[c] > 0
                BY <3>1, <3>4, <2>u
            <4>2. cache[c] # NotCached
                BY <4>1 DEF LogInv, PinnedIsCached
            <4> QED
                BY <3>2, <3>4, <4>2
        <3> QED
            BY <3>3, <3>4
    <2>9. EvictionLosesNothing'
        <3>1. ASSUME NEW c \in Blocks, pins'[c] = 0
              PROVE  c # b /\ pins[c] = 0 /\ cache'[c] = cache[c]
            <4>1. c \notin Range(lh) \cup {b}
                BY <3>1, <2>v
            <4>2. cache \in [Blocks -> Vals \cup {NotCached}] /\ cache' = [cache EXCEPT ![b] = v]
                BY <2>0 DEF LogInv, TypeOK
            <4> QED
                BY <4>1, <4>2, <2>u
        <3> QED
            BY <3>1, <2>0 DEF LogInv, EvictionLosesNothing
    <2>10. SleeperHasWaker'
        BY <2>0 DEF LogInv, SleeperHasWaker
    <2> QED
        BY <2>1, <2>2, <2>3, <2>4, <2>5, <2>6, <2>7, <2>8, <2>9, <2>10 DEF LogInv
<1> QED
    BY <1>a, <1>b

\* An iteration of write_from_cache_to_log() keeps the invariant.
LEMMA WriteFromCacheToLogInv ==
    ASSUME LogInv, NEW t \in Threads, WriteFromCacheToLog(t)
    PROVE  LogInv'
<1>0. /\ pc[t] = "wlog"
      /\ tail[t] \in Nat /\ Len(lh) \in Nat
      /\ tail[t] < Len(lh) /\ Len(lh) < LogSize
      /\ tail[t] + 1 \in 1 .. Len(lh) /\ tail[t] + 1 \in DataSlots
      /\ lh[tail[t] + 1] \in Blocks
    <2>1. pc[t] = "wlog" /\ tail[t] < Len(lh) /\ Len(lh) < LogSize
        BY DEF LogInv, TypeOK, HeaderInv, WriteFromCacheToLog
    <2>2. tail[t] \in Nat /\ Len(lh) \in Nat /\ lh \in Seq(Blocks)
        BY LogAssumption DEF LogInv, TypeOK
    <2>3. tail[t] + 1 \in 1 .. Len(lh) /\ tail[t] + 1 \in DataSlots
        BY <2>1, <2>2, LogAssumption DEF DataSlots
    <2> QED
        BY <2>1, <2>2, <2>3
<1>p. up /\ \A s \in Threads : s # t => pc[s] \notin CommitLabels \cup {"rinstall", "rclear", "op"}
    BY <1>0 DEF LogInv, RecoveryRunsAlone, CommitRunsAlone, CommitLabels
<1>q. \A i : ~Installed(i) /\ ~Installed(i)'
    BY <1>0, <1>p DEF LogInv, TypeOK, Installed, WriteFromCacheToLog, CommitLabels
<1>r. cache' = cache
    <2>1. pins[lh[tail[t] + 1]] = 1
        BY <1>0, <1>q DEF LogInv, PinnedWhileLogged
    <2>2. cache[lh[tail[t] + 1]] # NotCached
        BY <2>1, <1>0 DEF LogInv, PinnedIsCached
    <2> QED
        BY <2>2, <1>0 DEF LogInv, TypeOK, WriteFromCacheToLog, Content
<1>s. dlog' = [dlog EXCEPT ![tail[t] + 1] = cache[lh[tail[t] + 1]]]
    <2>1. pins[lh[tail[t] + 1]] = 1
        BY <1>0, <1>q DEF LogInv, PinnedWhileLogged
    <2>2. cache[lh[tail[t] + 1]] # NotCached
        BY <2>1, <1>0 DEF LogInv, PinnedIsCached
    <2> QED
        BY <2>2, <1>0 DEF WriteFromCacheToLog, Content
<1>1. TypeOK'
    <2>1. dlog' \in [DataSlots -> Vals]
        BY <1>0 DEF LogInv, TypeOK, WriteFromCacheToLog, Content
    <2>2. tail' \in [Threads -> 0 .. (LogSize - 1)]
        BY <1>0, LogAssumption DEF LogInv, TypeOK, WriteFromCacheToLog
    <2>3. pc' \in [Threads -> Labels]
        BY DEF LogInv, TypeOK, WriteFromCacheToLog, Labels
    <2> QED
        BY <2>1, <2>2, <2>3, <1>r DEF LogInv, TypeOK, WriteFromCacheToLog
<1>2. RecoveryRunsAlone'
    BY <1>0, <1>p DEF LogInv, TypeOK, RecoveryRunsAlone, WriteFromCacheToLog
<1>3. CommitRunsAlone'
    BY <1>0 DEF LogInv, TypeOK, CommitRunsAlone, CommitLabels, WriteFromCacheToLog
<1>4. OutstandingIsCount'
    <2>1. Active' = Active
        BY <1>0 DEF LogInv, TypeOK, Active, WriteFromCacheToLog
    <2> QED
        BY <2>1 DEF LogInv, OutstandingIsCount, WriteFromCacheToLog
<1>5. HeaderInv'
    BY <1>0, <1>p DEF LogInv, TypeOK, HeaderInv, Distinct, CommitLabels, WriteFromCacheToLog
<1>6. CopyInv'
    <2>1. \A s \in Threads : s # t => pc'[s] = pc[s]
        BY DEF LogInv, TypeOK, WriteFromCacheToLog
    <2>2. \A i \in 1 .. Len(lh) : i <= tail[t] + 1 => dlog'[i] = cache[lh[i]]
        <3>1. \A i \in 1 .. Len(lh) : i \in DataSlots
            BY <1>0, LogAssumption DEF DataSlots
        <3>2. \A i \in 1 .. Len(lh) : i <= tail[t] => dlog[i] = cache[lh[i]]
            BY <1>0 DEF LogInv, CopyInv
        <3>3. dlog \in [DataSlots -> Vals]
            BY DEF LogInv, TypeOK
        <3> QED
            BY <1>0, <1>s, <3>1, <3>2, <3>3
    <2>3. UNCHANGED <<lh, cache>>
        BY <1>r DEF WriteFromCacheToLog
    <2>4. CASE tail[t] + 1 < Len(lh)
        <3>1. pc'[t] = "wlog" /\ tail'[t] = tail[t] + 1
            BY <2>4 DEF LogInv, TypeOK, WriteFromCacheToLog
        <3> QED
            BY <3>1, <2>1, <2>2, <2>3, <1>p DEF CopyInv, CommitLabels
    <2>5. CASE ~(tail[t] + 1 < Len(lh))
        <3>1. pc'[t] = "whead"
            BY <2>5 DEF LogInv, TypeOK, WriteFromCacheToLog
        <3>2. \A i \in 1 .. Len(lh) : dlog'[i] = cache[lh[i]]
            BY <2>2, <2>5, <1>0
        <3> QED
            BY <3>1, <3>2, <2>1, <2>3, <1>p DEF CopyInv, CommitLabels
    <2> QED
        BY <2>4, <2>5
<1>7. PinnedWhileLogged'
    BY <1>q DEF LogInv, PinnedWhileLogged, WriteFromCacheToLog
<1>8. PinnedIsCached'
    BY <1>r DEF LogInv, PinnedIsCached, WriteFromCacheToLog
<1>9. EvictionLosesNothing'
    BY <1>r DEF LogInv, EvictionLosesNothing, WriteFromCacheToLog
<1>10. SleeperHasWaker'
    BY <1>0 DEF LogInv, TypeOK, SleeperHasWaker, CommitRunsAlone, CommitLabels, WriteFromCacheToLog
<1> QED
    BY <1>1, <1>2, <1>3, <1>4, <1>5, <1>6, <1>7, <1>8, <1>9, <1>10 DEF LogInv

\* Writing the log header, the commit point, keeps the invariant.
LEMMA WriteLogHeaderInv ==
    ASSUME LogInv, NEW t \in Threads, WriteLogHeader(t)
    PROVE  LogInv'
<1>p. /\ pc[t] = "whead"
      /\ up /\ committing
      /\ \A s \in Threads : s # t => pc[s] \notin CommitLabels \cup {"rinstall", "rclear", "op"}
    BY DEF LogInv, RecoveryRunsAlone, CommitRunsAlone, CommitLabels, WriteLogHeader
<1>q. \A i \in 1 .. Len(lh) : ~Installed(i) /\ ~Installed(i)'
    <2>1. pc'[t] = "install" /\ tail'[t] = 0 /\ \A s \in Threads : s # t => pc'[s] = pc[s]
        BY DEF LogInv, TypeOK, WriteLogHeader
    <2> QED
        BY <1>p, <2>1 DEF Installed, CommitLabels
<1>1. TypeOK'
    <2>1. 0 \in 0 .. (LogSize - 1)
        BY LogAssumption
    <2> QED
        BY <2>1 DEF LogInv, TypeOK, WriteLogHeader, Labels
<1>2. RecoveryRunsAlone'
    BY <1>p DEF LogInv, TypeOK, RecoveryRunsAlone, WriteLogHeader
<1>3. CommitRunsAlone'
    BY DEF LogInv, TypeOK, CommitRunsAlone, CommitLabels, WriteLogHeader
<1>4. OutstandingIsCount'
    <2>1. Active' = Active
        BY DEF LogInv, TypeOK, Active, WriteLogHeader
    <2> QED
        BY <2>1 DEF LogInv, OutstandingIsCount, WriteLogHeader
<1>5. HeaderInv'
    BY <1>p DEF LogInv, TypeOK, HeaderInv, Distinct, CommitLabels, WriteLogHeader
<1>6. CopyInv'
    BY <1>p DEF LogInv, TypeOK, CopyInv, CommitLabels, WriteLogHeader
<1>7. PinnedWhileLogged'
    BY <1>q DEF LogInv, PinnedWhileLogged, WriteLogHeader
<1>8. PinnedIsCached'
    BY DEF LogInv, PinnedIsCached, WriteLogHeader
<1>9. EvictionLosesNothing'
    BY DEF LogInv, EvictionLosesNothing, WriteLogHeader
<1>10. SleeperHasWaker'
    BY <1>p DEF SleeperHasWaker, WriteLogHeader
<1> QED
    BY <1>1, <1>2, <1>3, <1>4, <1>5, <1>6, <1>7, <1>8, <1>9, <1>10 DEF LogInv

\* An iteration of install_transaction(0) keeps the invariant: it unpins the
\* block it has just written to its home.
LEMMA InstallTransactionInv ==
    ASSUME LogInv, NEW t \in Threads, InstallTransaction(t)
    PROVE  LogInv'
<1> DEFINE k == tail[t] + 1
           b == lh[k]
<1>0. /\ pc[t] = "install"
      /\ tail[t] \in Nat /\ Len(lh) \in Nat
      /\ tail[t] < Len(lh) /\ Len(lh) < LogSize
      /\ k \in 1 .. Len(lh) /\ k \in DataSlots
      /\ b \in Blocks
    <2>1. pc[t] = "install" /\ tail[t] < Len(lh) /\ Len(lh) < LogSize
        BY DEF LogInv, TypeOK, HeaderInv, InstallTransaction
    <2>2. tail[t] \in Nat /\ Len(lh) \in Nat /\ lh \in Seq(Blocks)
        BY LogAssumption DEF LogInv, TypeOK
    <2>3. k \in 1 .. Len(lh) /\ k \in DataSlots
        BY <2>1, <2>2, LogAssumption DEF DataSlots
    <2> QED
        BY <2>1, <2>2, <2>3
<1>p. up /\ \A s \in Threads : s # t => pc[s] \notin CommitLabels \cup {"rinstall", "rclear", "op"}
    BY <1>0 DEF LogInv, RecoveryRunsAlone, CommitRunsAlone, CommitLabels
<1>q. /\ cache' = [cache EXCEPT ![b] = dlog[k]]
      /\ disk' = [disk EXCEPT ![b] = dlog[k]]
      /\ pins' = [pins EXCEPT ![b] = @ - 1]
      /\ \A s \in Threads : s # t => pc'[s] = pc[s]
      /\ pc'[t] = IF k < Len(lh) THEN "install" ELSE "clear"
      /\ k < Len(lh) => tail'[t] = k
      /\ UNCHANGED <<dlog, dhdr, lh, outstanding, committing, nwrote, up, err>>
    BY DEF LogInv, TypeOK, InstallTransaction
<1>r. /\ \A i \in 1 .. Len(lh) : Installed(i) <=> i < k
      /\ \A i \in 1 .. Len(lh) : Installed(i)' <=> i <= k
    <2>1. \A i \in 1 .. Len(lh) : Installed(i) <=> i <= tail[t]
        BY <1>0, <1>p DEF Installed, CommitLabels
    <2>2. CASE k < Len(lh)
        BY <2>2, <1>0, <1>p, <1>q, <2>1 DEF Installed, CommitLabels
    <2>3. CASE ~(k < Len(lh))
        BY <2>3, <1>0, <1>p, <1>q, <2>1 DEF Installed, CommitLabels
    <2> QED
        BY <2>2, <2>3
<1>s. \A i \in 1 .. Len(lh) : lh[i] = b => i = k
    BY <1>0 DEF LogInv, HeaderInv, Distinct
<1>u. pins[b] = 1
    BY <1>0, <1>r, <1>s DEF LogInv, PinnedWhileLogged
<1>v. cache[b] = dlog[k] /\ cache' = cache
    <2>1. cache[b] = dlog[k]
        BY <1>0 DEF LogInv, CopyInv
    <2> QED
        BY <2>1, <1>q, <1>0 DEF LogInv, TypeOK
<1>1. TypeOK'
    <2>1. disk' \in [Blocks -> Vals]
        BY <1>0, <1>q DEF LogInv, TypeOK
    <2>2. tail' \in [Threads -> 0 .. (LogSize - 1)]
        BY <1>0, LogAssumption DEF LogInv, TypeOK, InstallTransaction
    <2>3. pc' \in [Threads -> Labels]
        BY DEF LogInv, TypeOK, InstallTransaction, Labels
    <2>4. pins' \in [Blocks -> Nat]
        BY <1>q, <1>u, <1>0 DEF LogInv, TypeOK
    <2> QED
        BY <2>1, <2>2, <2>3, <2>4, <1>q, <1>v DEF LogInv, TypeOK
<1>2. RecoveryRunsAlone'
    BY <1>0, <1>p, <1>q DEF LogInv, RecoveryRunsAlone
<1>3. CommitRunsAlone'
    BY <1>0, <1>q DEF LogInv, CommitRunsAlone, CommitLabels
<1>4. OutstandingIsCount'
    <2>1. Active' = Active
        BY <1>0, <1>q DEF Active
    <2> QED
        BY <2>1, <1>q DEF LogInv, OutstandingIsCount
<1>5. HeaderInv'
    BY <1>0, <1>p, <1>q DEF LogInv, HeaderInv, Distinct, CommitLabels
<1>6. CopyInv'
    <2>1. \A i \in 1 .. Len(lh) : i <= k => dlog[i] = disk'[lh[i]]
        <3>1. ASSUME NEW i \in 1 .. Len(lh), i <= k PROVE dlog[i] = disk'[lh[i]]
            <4>1. CASE i = k
                BY <4>1, <1>0, <1>q DEF LogInv, TypeOK
            <4>2. CASE i < k
                <5>1. dlog[i] = disk[lh[i]]
                    BY <4>2, <1>0 DEF LogInv, CopyInv
                <5>2. lh[i] # b /\ lh[i] \in Blocks
                    BY <4>2, <1>0, <1>s DEF LogInv, TypeOK
                <5> QED
                    BY <5>1, <5>2, <1>q DEF LogInv, TypeOK
            <4> QED
                BY <3>1, <4>1, <4>2, <1>0
        <3> QED
            BY <3>1
    <2>2. \A i \in 1 .. Len(lh) : i > k => dlog[i] = cache[lh[i]]
        BY <1>0 DEF LogInv, CopyInv
    <2>3. CASE k < Len(lh)
        BY <2>1, <2>2, <2>3, <1>p, <1>q, <1>v DEF CopyInv, CommitLabels
    <2>4. CASE ~(k < Len(lh))
        <3>1. \A i \in 1 .. Len(lh) : i <= k
            BY <2>4, <1>0
        <3> QED
            BY <3>1, <2>1, <2>4, <1>p, <1>q, <1>v DEF CopyInv, CommitLabels
    <2> QED
        BY <2>3, <2>4
<1>7. PinnedWhileLogged'
    <2>1. ASSUME NEW c \in Blocks
          PROVE  pins'[c] = IF \E i \in 1 .. Len(lh) : lh[i] = c /\ i > k THEN 1 ELSE 0
        <3>1. pins[c] = IF \E i \in 1 .. Len(lh) : lh[i] = c /\ ~(i < k) THEN 1 ELSE 0
            BY <1>r DEF LogInv, PinnedWhileLogged
        <3>2. CASE c = b
            BY <3>2, <1>0, <1>q, <1>s, <1>u DEF LogInv, TypeOK
        <3>3. CASE c # b
            BY <3>1, <3>3, <1>0, <1>q, <1>s DEF LogInv, TypeOK
        <3> QED
            BY <3>2, <3>3
    <2>2. \A i \in 1 .. Len(lh) : ~Installed(i)' <=> i > k
        BY <1>0, <1>r
    <2> QED
        BY <2>1, <2>2, <1>q DEF PinnedWhileLogged
<1>8. PinnedIsCached'
    <2>1. \A c \in Blocks : pins'[c] > 0 => pins[c] > 0
        BY <1>0, <1>q, <1>u DEF LogInv, TypeOK
    <2> QED
        BY <2>1, <1>v DEF LogInv, PinnedIsCached
<1>9. EvictionLosesNothing'
    <2>1. \A c \in Blocks : c # b => pins'[c] = pins[c] /\ disk'[c] = disk[c]
        BY <1>q DEF LogInv, TypeOK
    <2>2. disk'[b] = cache[b]
        BY <1>0, <1>q, <1>v DEF LogInv, TypeOK
    <2> QED
        BY <2>1, <2>2, <1>v DEF LogInv, EvictionLosesNothing
<1>10. SleeperHasWaker'
    BY <1>0, <1>q DEF LogInv, SleeperHasWaker, CommitRunsAlone, CommitLabels
<1> QED
    BY <1>1, <1>2, <1>3, <1>4, <1>5, <1>6, <1>7, <1>8, <1>9, <1>10 DEF LogInv

\* Clearing the header at the end of commit() keeps the invariant.
LEMMA ClearLogHeaderInv ==
    ASSUME LogInv, NEW t \in Threads, ClearLogHeader(t)
    PROVE  LogInv'
<1>p. /\ pc[t] = "clear"
      /\ up /\ committing
      /\ \A s \in Threads : s # t => pc[s] \notin CommitLabels \cup {"rinstall", "rclear", "op"}
    BY DEF LogInv, RecoveryRunsAlone, CommitRunsAlone, CommitLabels, ClearLogHeader
<1>q. <<>> \in Seq(Blocks) /\ Len(<<>>) = 0 /\ 0 < LogSize
    BY LogAssumption
<1>r. \A c \in Blocks : pins[c] = 0
    BY <1>p DEF LogInv, PinnedWhileLogged, Installed
<1>1. TypeOK'
    BY <1>q DEF LogInv, TypeOK, ClearLogHeader, Labels
<1>2. RecoveryRunsAlone'
    BY <1>p DEF LogInv, TypeOK, RecoveryRunsAlone, ClearLogHeader
<1>3. CommitRunsAlone'
    BY DEF LogInv, TypeOK, CommitRunsAlone, CommitLabels, ClearLogHeader
<1>4. OutstandingIsCount'
    <2>1. Active' = Active
        BY DEF LogInv, TypeOK, Active, ClearLogHeader
    <2> QED
        BY <2>1 DEF LogInv, OutstandingIsCount, ClearLogHeader
<1>5. HeaderInv'
    <2>1. /\ lh' = <<>> /\ dhdr' = <<>>
          /\ \A s \in Threads : s # t => pc'[s] \notin CommitLabels \cup {"rinstall", "rclear"}
          /\ pc'[t] = "wake"
        BY <1>p DEF LogInv, TypeOK, ClearLogHeader
    <2> QED
        BY <2>1, <1>q DEF HeaderInv, Distinct, CommitLabels
<1>6. CopyInv'
    BY <1>q DEF CopyInv, ClearLogHeader
<1>7. PinnedWhileLogged'
    BY <1>q, <1>r DEF PinnedWhileLogged, ClearLogHeader
<1>8. PinnedIsCached'
    BY DEF LogInv, PinnedIsCached, ClearLogHeader
<1>9. EvictionLosesNothing'
    BY DEF LogInv, EvictionLosesNothing, ClearLogHeader
<1>10. SleeperHasWaker'
    BY <1>p DEF SleeperHasWaker, ClearLogHeader
<1> QED
    BY <1>1, <1>2, <1>3, <1>4, <1>5, <1>6, <1>7, <1>8, <1>9, <1>10 DEF LogInv

\* The end of the last end_op() keeps the invariant: every sleeper is woken.
LEMMA CommitDoneInv ==
    ASSUME LogInv, NEW t \in Threads, CommitDone(t)
    PROVE  LogInv'
<1>p. /\ pc[t] = "wake"
      /\ up
      /\ lh = <<>>
      /\ \A s \in Threads : s # t => pc[s] \notin CommitLabels \cup {"rinstall", "rclear", "op"}
    BY DEF LogInv, RecoveryRunsAlone, CommitRunsAlone, HeaderInv, CommitLabels, CommitDone
<1>q. /\ pc' \in [Threads -> Labels]
      /\ pc'[t] = "idle"
      /\ \A s \in Threads : s # t => pc'[s] = IF pc[s] = "asleep" THEN "begin" ELSE pc[s]
    BY DEF LogInv, TypeOK, CommitDone, Broadcast, Labels
<1>1. TypeOK'
    BY <1>q DEF LogInv, TypeOK, CommitDone
<1>2. RecoveryRunsAlone'
    BY <1>p, <1>q DEF LogInv, RecoveryRunsAlone, CommitDone
<1>3. CommitRunsAlone'
    BY <1>p, <1>q DEF CommitRunsAlone, CommitLabels, CommitDone
<1>4. OutstandingIsCount'
    <2>1. Active' = Active
        BY <1>p, <1>q DEF Active
    <2> QED
        BY <2>1 DEF LogInv, OutstandingIsCount, CommitDone
<1>5. HeaderInv'
    BY <1>p, <1>q DEF LogInv, HeaderInv, Distinct, CommitLabels, CommitDone
<1>6. CopyInv'
    BY <1>p DEF CopyInv, CommitDone
<1>7. PinnedWhileLogged'
    BY <1>p DEF LogInv, PinnedWhileLogged, CommitDone
<1>8. PinnedIsCached'
    BY DEF LogInv, PinnedIsCached, CommitDone
<1>9. EvictionLosesNothing'
    BY DEF LogInv, EvictionLosesNothing, CommitDone
<1>10. SleeperHasWaker'
    BY <1>q DEF SleeperHasWaker
<1> QED
    BY <1>1, <1>2, <1>3, <1>4, <1>5, <1>6, <1>7, <1>8, <1>9, <1>10 DEF LogInv

\* Reading the header at mount keeps the invariant.
LEMMA ReadLogHeaderInv ==
    ASSUME LogInv, NEW t \in Threads, ReadLogHeader(t)
    PROVE  LogInv'
<1>p. /\ ~up /\ ~committing /\ lh = <<>>
      /\ \A s \in Threads : pc[s] = "idle"
    BY DEF LogInv, RecoveryRunsAlone, CommitRunsAlone, CommitLabels, ReadLogHeader
<1>q. /\ pc' \in [Threads -> Labels]
      /\ pc'[t] = IF Len(dhdr) > 0 THEN "rinstall" ELSE "rclear"
      /\ \A s \in Threads : s # t => pc'[s] = "idle"
      /\ tail'[t] = 0
    BY <1>p DEF LogInv, TypeOK, ReadLogHeader, Labels
<1>1. TypeOK'
    <2>1. 0 \in 0 .. (LogSize - 1)
        BY LogAssumption
    <2> QED
        BY <2>1, <1>q DEF LogInv, TypeOK, ReadLogHeader, Errors
<1>2. RecoveryRunsAlone'
    BY <1>p, <1>q DEF RecoveryRunsAlone, ReadLogHeader
<1>3. CommitRunsAlone'
    BY <1>p, <1>q DEF CommitRunsAlone, CommitLabels, ReadLogHeader
<1>4. OutstandingIsCount'
    <2>1. Active' = Active
        BY <1>p, <1>q DEF Active
    <2> QED
        BY <2>1 DEF LogInv, OutstandingIsCount, ReadLogHeader
<1>5. HeaderInv'
    BY <1>p, <1>q DEF LogInv, HeaderInv, Distinct, CommitLabels, ReadLogHeader
<1>6. CopyInv'
    BY <1>q DEF LogInv, TypeOK, CopyInv, ReadLogHeader
<1>7. PinnedWhileLogged'
    <2>1. \A c \in Blocks : pins[c] = 0
        BY <1>p DEF LogInv, PinnedWhileLogged
    <2>2. \A i : Installed(i)'
        BY <1>q DEF Installed
    <2> QED
        BY <2>1, <2>2 DEF PinnedWhileLogged, ReadLogHeader
<1>8. PinnedIsCached'
    BY DEF LogInv, PinnedIsCached, ReadLogHeader
<1>9. EvictionLosesNothing'
    BY DEF LogInv, EvictionLosesNothing, ReadLogHeader
<1>10. SleeperHasWaker'
    BY <1>q DEF SleeperHasWaker
<1> QED
    BY <1>1, <1>2, <1>3, <1>4, <1>5, <1>6, <1>7, <1>8, <1>9, <1>10 DEF LogInv

\* An iteration of install_transaction(1) keeps the invariant.
LEMMA RecoverInstallInv ==
    ASSUME LogInv, NEW t \in Threads, RecoverInstall(t)
    PROVE  LogInv'
<1> DEFINE k == tail[t] + 1
           b == lh[k]
<1>0. /\ pc[t] = "rinstall"
      /\ tail[t] \in Nat /\ Len(lh) \in Nat
      /\ tail[t] < Len(lh) /\ Len(lh) < LogSize
      /\ k \in 1 .. Len(lh) /\ k \in DataSlots
      /\ b \in Blocks
    <2>1. pc[t] = "rinstall" /\ tail[t] < Len(lh) /\ Len(lh) < LogSize
        BY DEF LogInv, TypeOK, HeaderInv, RecoverInstall
    <2>2. tail[t] \in Nat /\ Len(lh) \in Nat /\ lh \in Seq(Blocks)
        BY LogAssumption DEF LogInv, TypeOK
    <2>3. k \in 1 .. Len(lh) /\ k \in DataSlots
        BY <2>1, <2>2, LogAssumption DEF DataSlots
    <2> QED
        BY <2>1, <2>2, <2>3
<1>p. ~up /\ ~committing /\ \A s \in Threads : s # t => pc[s] = "idle"
    <2>1. ~up
        BY <1>0 DEF LogInv, RecoveryRunsAlone
    <2>2. \A s \in Threads : s # t => pc[s] = "idle"
        BY <1>0, <2>1 DEF LogInv, RecoveryRunsAlone
    <2> QED
        BY <1>0, <2>1, <2>2 DEF LogInv, CommitRunsAlone, CommitLabels
<1>q. /\ cache' = [cache EXCEPT ![b] = dlog[k]]
      /\ disk' = [disk EXCEPT ![b] = dlog[k]]
      /\ \A s \in Threads : s # t => pc'[s] = pc[s]
      /\ pc'[t] = IF k < Len(lh) THEN "rinstall" ELSE "rclear"
      /\ k < Len(lh) => tail'[t] = k
      /\ UNCHANGED <<dlog, dhdr, pins, lh, outstanding, committing, nwrote, up, err>>
    BY DEF LogInv, TypeOK, RecoverInstall
<1>r. \A c \in Blocks : pins[c] = 0
    BY <1>0 DEF LogInv, PinnedWhileLogged, Installed
<1>s. \A i \in 1 .. Len(lh) : lh[i] = b => i = k
    BY <1>0 DEF LogInv, HeaderInv, Distinct
<1>1. TypeOK'
    <2>1. disk' \in [Blocks -> Vals] /\ cache' \in [Blocks -> Vals \cup {NotCached}]
        BY <1>0, <1>q DEF LogInv, TypeOK
    <2>2. tail' \in [Threads -> 0 .. (LogSize - 1)]
        BY <1>0, LogAssumption DEF LogInv, TypeOK, RecoverInstall
    <2>3. pc' \in [Threads -> Labels]
        BY DEF LogInv, TypeOK, RecoverInstall, Labels
    <2> QED
        BY <2>1, <2>2, <2>3, <1>q DEF LogInv, TypeOK
<1>2. RecoveryRunsAlone'
    BY <1>0, <1>p, <1>q DEF RecoveryRunsAlone
<1>3. CommitRunsAlone'
    BY <1>p, <1>q DEF CommitRunsAlone, CommitLabels
<1>4. OutstandingIsCount'
    <2>1. Active' = Active
        BY <1>0, <1>p, <1>q DEF Active
    <2> QED
        BY <2>1, <1>q DEF LogInv, OutstandingIsCount
<1>5. HeaderInv'
    BY <1>0, <1>p, <1>q DEF LogInv, HeaderInv, Distinct, CommitLabels
<1>6. CopyInv'
    <2>1. \A i \in 1 .. Len(lh) : i <= k => dlog[i] = disk'[lh[i]]
        <3>1. ASSUME NEW i \in 1 .. Len(lh), i <= k PROVE dlog[i] = disk'[lh[i]]
            <4>1. CASE i = k
                BY <4>1, <1>0, <1>q DEF LogInv, TypeOK
            <4>2. CASE i < k
                <5>1. dlog[i] = disk[lh[i]]
                    BY <4>2, <1>0 DEF LogInv, CopyInv
                <5>2. lh[i] # b /\ lh[i] \in Blocks
                    BY <4>2, <1>0, <1>s DEF LogInv, TypeOK
                <5> QED
                    BY <5>1, <5>2, <1>q DEF LogInv, TypeOK
            <4> QED
                BY <3>1, <4>1, <4>2, <1>0
        <3> QED
            BY <3>1
    <2>2. CASE k < Len(lh)
        BY <2>1, <2>2, <1>p, <1>q DEF CopyInv
    <2>3. CASE ~(k < Len(lh))
        <3>1. \A i \in 1 .. Len(lh) : i <= k
            BY <2>3, <1>0
        <3> QED
            BY <3>1, <2>1, <2>3, <1>p, <1>q DEF CopyInv
    <2> QED
        BY <2>2, <2>3
<1>7. PinnedWhileLogged'
    <2>1. \A i : Installed(i)'
        BY <1>q DEF Installed
    <2> QED
        BY <2>1, <1>q, <1>r DEF PinnedWhileLogged
<1>8. PinnedIsCached'
    BY <1>q, <1>r DEF PinnedIsCached
<1>9. EvictionLosesNothing'
    <2>1. \A c \in Blocks : c # b => cache'[c] = cache[c] /\ disk'[c] = disk[c]
        BY <1>q DEF LogInv, TypeOK
    <2>2. disk'[b] = cache'[b]
        BY <1>0, <1>q DEF LogInv, TypeOK
    <2> QED
        BY <2>1, <2>2, <1>q DEF LogInv, EvictionLosesNothing
<1>10. SleeperHasWaker'
    BY <1>p, <1>q DEF SleeperHasWaker
<1> QED
    BY <1>1, <1>2, <1>3, <1>4, <1>5, <1>6, <1>7, <1>8, <1>9, <1>10 DEF LogInv

\* Clearing the header at the end of recovery keeps the invariant.
LEMMA RecoverDoneInv ==
    ASSUME LogInv, NEW t \in Threads, RecoverDone(t)
    PROVE  LogInv'
<1>p. /\ pc[t] = "rclear"
      /\ ~committing
      /\ \A s \in Threads : s # t => pc[s] = "idle"
    BY DEF LogInv, RecoveryRunsAlone, CommitRunsAlone, CommitLabels, RecoverDone
<1>q. /\ pc' \in [Threads -> Labels]
      /\ \A s \in Threads : pc'[s] = "idle"
    BY <1>p DEF LogInv, TypeOK, RecoverDone, Labels
<1>r. <<>> \in Seq(Blocks) /\ Len(<<>>) = 0 /\ 0 < LogSize
    BY LogAssumption
<1>1. TypeOK'
    BY <1>q, <1>r DEF LogInv, TypeOK, RecoverDone
<1>2. RecoveryRunsAlone'
    BY <1>q DEF RecoveryRunsAlone, RecoverDone
<1>3. CommitRunsAlone'
    BY <1>p, <1>q DEF CommitRunsAlone, CommitLabels, RecoverDone
<1>4. OutstandingIsCount'
    <2>1. Active' = Active
        BY <1>p, <1>q DEF Active
    <2> QED
        BY <2>1 DEF LogInv, OutstandingIsCount, RecoverDone
<1>5. HeaderInv'
    <2>1. lh' = <<>> /\ dhdr' = <<>>
        BY DEF RecoverDone
    <2> QED
        BY <2>1, <1>q, <1>r DEF HeaderInv, Distinct, CommitLabels
<1>6. CopyInv'
    BY <1>q DEF CopyInv
<1>7. PinnedWhileLogged'
    <2>1. \A c \in Blocks : pins[c] = 0
        BY <1>p DEF LogInv, PinnedWhileLogged, Installed
    <2> QED
        BY <2>1, <1>r DEF PinnedWhileLogged, RecoverDone
<1>8. PinnedIsCached'
    BY DEF LogInv, PinnedIsCached, RecoverDone
<1>9. EvictionLosesNothing'
    BY DEF LogInv, EvictionLosesNothing, RecoverDone
<1>10. SleeperHasWaker'
    BY <1>q DEF SleeperHasWaker
<1> QED
    BY <1>1, <1>2, <1>3, <1>4, <1>5, <1>6, <1>7, <1>8, <1>9, <1>10 DEF LogInv

\* What commit() has still to copy is pinned.
LEMMA CopySourceIsPinned ==
    ASSUME LogInv, NEW i \in 1 .. Len(lh), NEW s \in Threads,
           \/ pc[s] \in {"wlog", "whead"}
           \/ pc[s] = "install" /\ i > tail[s]
    PROVE  pins[lh[i]] > 0
<1>1. \A r \in Threads : r # s => pc[r] \notin {"install", "clear", "rinstall", "rclear"}
    BY DEF LogInv, CommitRunsAlone, RecoveryRunsAlone, CommitLabels
<1>2. ~Installed(i)
    BY <1>1 DEF LogInv, TypeOK, Installed
<1>3. lh[i] \in Blocks
    BY DEF LogInv, TypeOK
<1> QED
    BY <1>2, <1>3 DEF LogInv, PinnedWhileLogged

\* A read of a block that is not cached keeps the invariant.
LEMMA FillInv ==
    ASSUME LogInv, NEW b \in Blocks, Fill(b)
    PROVE  LogInv'
<1>0. UNCHANGED <<disk, dlog, dhdr, pins, lh, outstanding, committing, pc, tail, nwrote, up, err>>
    BY DEF Fill
<1>1. TypeOK'
    BY DEF LogInv, TypeOK, Fill
<1>2. RecoveryRunsAlone' /\ CommitRunsAlone' /\ SleeperHasWaker'
    BY <1>0 DEF LogInv, RecoveryRunsAlone, CommitRunsAlone, SleeperHasWaker
<1>3. OutstandingIsCount'
    BY <1>0 DEF LogInv, OutstandingIsCount, Active
<1>4. HeaderInv'
    BY <1>0 DEF LogInv, HeaderInv
<1>5. CopyInv'
    <2>2. \A c \in Blocks : pins[c] > 0 => cache'[c] = cache[c]
        BY DEF LogInv, TypeOK, PinnedIsCached, Fill
    <2>3. \A i \in 1 .. Len(lh) : lh[i] \in Blocks
        BY DEF LogInv, TypeOK
    <2> QED
        BY <1>0, <2>2, <2>3, CopySourceIsPinned DEF LogInv, CopyInv
<1>6. PinnedWhileLogged'
    BY <1>0 DEF LogInv, PinnedWhileLogged, Installed
<1>7. PinnedIsCached'
    BY LogAssumption DEF LogInv, TypeOK, PinnedIsCached, Fill
<1>8. EvictionLosesNothing'
    BY DEF LogInv, TypeOK, EvictionLosesNothing, Fill
<1> QED
    BY <1>1, <1>2, <1>3, <1>4, <1>5, <1>6, <1>7, <1>8 DEF LogInv

\* Recycling an unreferenced buffer keeps the invariant.
LEMMA EvictInv ==
    ASSUME LogInv, NEW b \in Blocks, Evict(b)
    PROVE  LogInv'
<1>0. UNCHANGED <<disk, dlog, dhdr, pins, lh, outstanding, committing, pc, tail, nwrote, up, err>>
    BY DEF Evict
<1>1. TypeOK'
    BY DEF LogInv, TypeOK, Evict
<1>2. RecoveryRunsAlone' /\ CommitRunsAlone' /\ SleeperHasWaker'
    BY <1>0 DEF LogInv, RecoveryRunsAlone, CommitRunsAlone, SleeperHasWaker
<1>3. OutstandingIsCount'
    BY <1>0 DEF LogInv, OutstandingIsCount, Active
<1>4. HeaderInv'
    BY <1>0 DEF LogInv, HeaderInv
<1>5. CopyInv'
    <2>1. \A c \in Blocks : pins[c] > 0 => cache'[c] = cache[c]
        BY DEF LogInv, TypeOK, Evict
    <2>2. \A i \in 1 .. Len(lh) : lh[i] \in Blocks
        BY DEF LogInv, TypeOK
    <2> QED
        BY <1>0, <2>1, <2>2, CopySourceIsPinned DEF LogInv, CopyInv
<1>6. PinnedWhileLogged'
    BY <1>0 DEF LogInv, PinnedWhileLogged, Installed
<1>7. PinnedIsCached'
    BY DEF LogInv, TypeOK, PinnedIsCached, Evict
<1>8. EvictionLosesNothing'
    BY DEF LogInv, TypeOK, EvictionLosesNothing, Evict
<1> QED
    BY <1>1, <1>2, <1>3, <1>4, <1>5, <1>6, <1>7, <1>8 DEF LogInv

-----------------------------------------------------------------------------
\* A freshly made disk satisfies the invariant.
LEMMA InitInv == Init => LogInv
<1> SUFFICES ASSUME Init PROVE LogInv
    OBVIOUS
<1>0. <<>> \in Seq(Blocks) /\ Len(<<>>) = 0
    OBVIOUS
<1>1. TypeOK
    <2>1. 0 < LogSize /\ 0 \in 0 .. (LogSize - 1) /\ 0 \in 0 .. OpLimit
        BY LogAssumption
    <2> QED
        BY <1>0, <2>1 DEF Init, TypeOK, Labels, Errors
<1>2. RecoveryRunsAlone /\ CommitRunsAlone /\ SleeperHasWaker
    BY DEF Init, RecoveryRunsAlone, CommitRunsAlone, SleeperHasWaker, CommitLabels
<1>3. OutstandingIsCount
    <2>1. Active = {}
        BY DEF Init, Active
    <2> QED
        BY <2>1, FS_EmptySet DEF Init, OutstandingIsCount
<1>4. HeaderInv
    BY <1>0 DEF Init, HeaderInv, Distinct, CommitLabels
<1>5. CopyInv /\ PinnedWhileLogged /\ PinnedIsCached /\ EvictionLosesNothing
    BY <1>0 DEF Init, CopyInv, PinnedWhileLogged, PinnedIsCached, EvictionLosesNothing
<1> QED
    BY <1>1, <1>2, <1>3, <1>4, <1>5 DEF LogInv

\* Every step of log.c, of its environment and every crash keeps the invariant.
LEMMA StepInv == LogInv /\ [Next]_vars => LogInv'
<1> SUFFICES ASSUME LogInv, [Next]_vars PROVE LogInv'
    OBVIOUS
<1>1. ASSUME NEW t \in Threads, Step(t) PROVE LogInv'
    BY <1>1, BeginOpInv, EndOpInv, WriteFromCacheToLogInv, WriteLogHeaderInv,
       InstallTransactionInv, ClearLogHeaderInv, CommitDoneInv, ReadLogHeaderInv,
       RecoverInstallInv, RecoverDoneInv DEF Step
<1>2. ASSUME NEW t \in Threads, NEW b \in Blocks, NEW v \in Vals, LoggedWrite(t, b, v)
      PROVE  LogInv'
    BY <1>2, LoggedWriteInv
<1>3. ASSUME NEW t \in Threads, SpuriousWakeup(t) PROVE LogInv'
    BY <1>3, SpuriousWakeupInv
<1>4. ASSUME NEW b \in Blocks, Fill(b) \/ Evict(b) PROVE LogInv'
    BY <1>4, FillInv, EvictInv
<1>5. CASE Crash
    <2>1. Die /\ err' \in Errors
        BY <1>5 DEF Crash, LogInv, TypeOK
    <2> QED
        BY <2>1, DieInv
<1>6. CASE UNCHANGED vars
    BY <1>6 DEF vars, LogInv, TypeOK, RecoveryRunsAlone, CommitRunsAlone,
       OutstandingIsCount, Active, HeaderInv, CopyInv, PinnedWhileLogged, Installed,
       PinnedIsCached, EvictionLosesNothing, SleeperHasWaker
<1> QED
    BY <1>1, <1>2, <1>3, <1>4, <1>5, <1>6 DEF Next

\* LogInv holds in every reachable state of log.c, crashes and recoveries
\* included.
THEOREM Invariance == Spec => []LogInv
<1> QED
    BY InitInv, StepInv, PTL DEF Spec

-----------------------------------------------------------------------------
(* The refinement.                                                         *)

\* The log that would be replayed overrides the home locations.
LEMMA DurableValue ==
    ASSUME LogInv
    PROVE  /\ \A i \in 1 .. Len(dhdr) : Durable[dhdr[i]] = dlog[i]
           /\ \A b \in Blocks : (\A i \in 1 .. Len(dhdr) : dhdr[i] # b) => Durable[b] = disk[b]
           /\ Durable \in [Blocks -> Vals]
<1>0. /\ dhdr \in Seq(Blocks) /\ Distinct(dhdr)
      /\ \A b : b \in Range(dhdr) <=> \E i \in 1 .. Len(dhdr) : dhdr[i] = b
    BY DEF LogInv, TypeOK, HeaderInv, Range
<1>1. ASSUME NEW i \in 1 .. Len(dhdr) PROVE Durable[dhdr[i]] = dlog[i]
    <2>1. (CHOOSE j \in 1 .. Len(dhdr) : dhdr[j] = dhdr[i]) = i
        BY <1>0 DEF Distinct
    <2>2. dhdr[i] \in Blocks /\ dhdr[i] \in Range(dhdr)
        BY <1>0
    <2> QED
        BY <2>1, <2>2 DEF Durable
<1>2. ASSUME NEW b \in Blocks, \A i \in 1 .. Len(dhdr) : dhdr[i] # b
      PROVE  Durable[b] = disk[b]
    BY <1>0, <1>2 DEF Durable
<1>3. ASSUME NEW b \in Blocks PROVE Durable[b] \in Vals
    <2>1. CASE b \in Range(dhdr)
        <3>1. PICK i \in 1 .. Len(dhdr) : dhdr[i] = b
            BY <2>1, <1>0
        <3>2. i \in DataSlots
            BY LogAssumption DEF LogInv, TypeOK, DataSlots
        <3> QED
            BY <3>1, <3>2, <1>1 DEF LogInv, TypeOK
    <2>2. CASE b \notin Range(dhdr)
        BY <2>2, <1>0, <1>2 DEF LogInv, TypeOK
    <2> QED
        BY <2>1, <2>2
<1>4. Durable \in [Blocks -> Vals]
    <2>1. Durable = [b \in Blocks |-> Durable[b]]
        BY DEF Durable
    <2> QED
        BY <2>1, <1>3
<1> QED
    BY <1>1, <1>2, <1>4

\* Two stores agree when they agree on every block.
LEMMA DurableExt ==
    ASSUME NEW f, f = [b \in Blocks |-> f[b]], \A b \in Blocks : Durable[b] = f[b]
    PROVE  Durable = f
BY DEF Durable

\* Nothing of the durable state changes with what is in memory.
LEMMA SameDurable ==
    ASSUME UNCHANGED <<disk, dlog, dhdr>>
    PROVE  Durable' = Durable
BY DEF Durable

\* Nothing of the view changes when neither the disk nor the cache does.
LEMMA SameView ==
    ASSUME UNCHANGED <<disk, dlog, dhdr, cache, up>>
    PROVE  View' = View
BY SameDurable DEF View, Content

\* While no header is on disk the durable state is the home locations.
LEMMA DurableIsDisk ==
    ASSUME LogInv, dhdr = <<>>
    PROVE  Durable = disk
<1>1. Len(dhdr) = 0
    OBVIOUS
<1>2. \A b \in Blocks : Durable[b] = disk[b]
    BY <1>1, DurableValue
<1> QED
    BY <1>2, DurableExt DEF LogInv, TypeOK

\* Once every logged block is installed, the header does not matter.
LEMMA InstalledDurable ==
    ASSUME LogInv, NEW t \in Threads, pc[t] \in {"clear", "rclear"}
    PROVE  Durable = disk
<1>1. dhdr = lh /\ \A i \in 1 .. Len(lh) : dlog[i] = disk[lh[i]]
    BY DEF LogInv, HeaderInv, CopyInv
<1>2. ASSUME NEW b \in Blocks PROVE Durable[b] = disk[b]
    <2>1. CASE \E i \in 1 .. Len(dhdr) : dhdr[i] = b
        BY <2>1, <1>1, DurableValue
    <2>2. CASE \A i \in 1 .. Len(dhdr) : dhdr[i] # b
        BY <2>2, DurableValue
    <2> QED
        BY <2>1, <2>2
<1> QED
    BY <1>2, DurableExt DEF LogInv, TypeOK

\* Installing a logged block at its home changes nothing that survives.
LEMMA InstallKeepsDurable ==
    ASSUME LogInv, LogInv', NEW k \in 1 .. Len(dhdr), UNCHANGED <<dlog, dhdr>>,
           disk' = [disk EXCEPT ![dhdr[k]] = dlog[k]]
    PROVE  Durable' = Durable
<1>1. ASSUME NEW b \in Blocks PROVE Durable'[b] = Durable[b]
    <2>1. CASE \E i \in 1 .. Len(dhdr) : dhdr[i] = b
        BY <2>1 DEF Durable, Range, LogInv, TypeOK
    <2>2. CASE \A i \in 1 .. Len(dhdr) : dhdr[i] # b
        BY <2>2 DEF Durable, LogInv, TypeOK
    <2> QED
        BY <2>1, <2>2
<1> QED
    BY <1>1 DEF Durable

\* What the durable state is, as a state predicate, so that it can be primed.
DurableFacts ==
    /\ dhdr = <<>> => Durable = disk
    /\ \A i \in 1 .. Len(dhdr) : Durable[dhdr[i]] = dlog[i]
    /\ \A b \in Blocks : (\A i \in 1 .. Len(dhdr) : dhdr[i] # b) => Durable[b] = disk[b]

\* DurableFacts holds in the next state, too.
LEMMA DurableNext == LogInv' => DurableFacts'
<1>1. LogInv => DurableFacts
    BY DurableValue, DurableIsDisk DEF DurableFacts
<1> QED
    BY <1>1, PTL

\* A freshly made disk is an initial state of the atomic store.
LEMMA InitRefines == Init => Store!Init
<1> SUFFICES ASSUME Init PROVE Store!Init
    OBVIOUS
<1>1. LogInv /\ dhdr = <<>>
    BY InitInv DEF Init
<1> QED
    BY <1>1, DurableValue DEF Init, Store!Init, View, Active

\* The death of the process is a crash of the atomic store, or invisible when
\* it interrupts a recovery.
LEMMA DieRefines ==
    ASSUME LogInv, Die
    PROVE  [Store!Next]_(Store!vars)
<1>1. Durable' = Durable /\ View' = Durable' /\ Active' = {} /\ up' = FALSE
    BY SameDurable DEF Die, View, Active
<1>2. CASE up
    BY <1>1, <1>2 DEF Store!Next, Store!Crash
<1>3. CASE ~up
    <2>1. View = Durable /\ Active = {}
        BY <1>3 DEF View, Active, LogInv, RecoveryRunsAlone
    <2>2. UNCHANGED up
        BY <1>1, <1>3 DEF LogInv, TypeOK
    <2> QED
        BY <1>1, <2>1, <2>2 DEF Store!vars
<1> QED
    BY <1>2, <1>3 DEF LogInv, TypeOK

\* begin_op() opens an operation of the store, or sleeps unseen.
LEMMA BeginOpRefines ==
    ASSUME LogInv, NEW t \in Threads, BeginOp(t)
    PROVE  [Store!Next]_(Store!vars)
<1>1. Durable' = Durable /\ View' = View /\ UNCHANGED up
    BY SameDurable, SameView DEF BeginOp
<1>2. CASE MustWait
    <2>1. Active' = Active
        BY <1>2 DEF LogInv, TypeOK, Active, BeginOp
    <2> QED
        BY <1>1, <2>1 DEF Store!vars
<1>3. CASE ~MustWait
    <2>1. up /\ t \notin Active /\ Active' = Active \cup {t}
        BY <1>3 DEF LogInv, TypeOK, Active, BeginOp
    <2> QED
        BY <1>1, <2>1 DEF Store!Next, Store!Begin
<1> QED
    BY <1>2, <1>3

\* end_op() closes an operation of the store; the commit comes later.
LEMMA EndOpRefines ==
    ASSUME LogInv, NEW t \in Threads, EndOp(t)
    PROVE  [Store!Next]_(Store!vars)
<1>1. CASE committing
    BY <1>1, DieRefines DEF EndOp, CommitStart
<1>2. CASE ~committing
    <2>1. Durable' = Durable /\ View' = View /\ UNCHANGED up
        BY <1>2, SameDurable, SameView DEF EndOp, CommitStart
    <2>2. t \in Active /\ Active' = Active \ {t}
        BY <1>2 DEF LogInv, TypeOK, Active, EndOp, CommitStart, Broadcast
    <2>3. up
        BY DEF EndOp, CommitStart, LogInv, RecoveryRunsAlone
    <2> QED
        BY <2>1, <2>2, <2>3 DEF Store!Next, Store!End
<1> QED
    BY <1>1, <1>2

\* logged_write() is a write of the store, or its err_exit() a crash.
LEMMA LoggedWriteRefines ==
    ASSUME LogInv, NEW t \in Threads, NEW b \in Blocks, NEW v \in Vals,
           LoggedWrite(t, b, v)
    PROVE  [Store!Next]_(Store!vars)
<1>1. CASE WriteError # "none"
    BY <1>1, DieRefines DEF LoggedWrite
<1>2. CASE WriteError = "none"
    <2>1. /\ cache' = [cache EXCEPT ![b] = v]
          /\ UNCHANGED <<disk, dlog, dhdr, pc, up>>
        BY <1>2 DEF LoggedWrite, LogBlock
    <2>2. up /\ t \in Active
        BY DEF LoggedWrite, LogBlock, LogInv, RecoveryRunsAlone, Active
    <2>3. View' = [View EXCEPT ![b] = v]
        BY <2>1, <2>2, LogAssumption DEF LogInv, TypeOK, View, Content
    <2>4. Durable' = Durable /\ Active' = Active
        BY <2>1, SameDurable DEF Active
    <2> QED
        BY <2>1, <2>2, <2>3, <2>4 DEF Store!Next, Store!Write
<1> QED
    BY <1>1, <1>2

\* Filling the log area is invisible: no header names it yet.
LEMMA WriteFromCacheToLogRefines ==
    ASSUME LogInv, NEW t \in Threads, WriteFromCacheToLog(t)
    PROVE  [Store!Next]_(Store!vars)
<1>1. LogInv'
    BY WriteFromCacheToLogInv
<1>2. up /\ pc[t] = "wlog" /\ \A s \in Threads : pc[s] \notin {"install", "clear"}
    BY DEF LogInv, RecoveryRunsAlone, CommitRunsAlone, CommitLabels, WriteFromCacheToLog
<1>3. dhdr = <<>>
    BY <1>2 DEF LogInv, HeaderInv
<1>4. Durable = disk /\ Durable' = disk'
    BY <1>1, <1>3, DurableIsDisk, DurableNext DEF DurableFacts, WriteFromCacheToLog
<1>5. \A c \in Blocks : Content(c)' = Content(c)
    BY DEF LogInv, TypeOK, WriteFromCacheToLog, Content
<1>6. View' = View
    BY <1>2, <1>5 DEF View, WriteFromCacheToLog
<1>7. Active' = Active
    BY DEF LogInv, TypeOK, Active, WriteFromCacheToLog
<1> QED
    BY <1>4, <1>6, <1>7 DEF Store!vars, WriteFromCacheToLog

\* The commit point: what was the view of the store becomes durable.
LEMMA WriteLogHeaderRefines ==
    ASSUME LogInv, NEW t \in Threads, WriteLogHeader(t)
    PROVE  [Store!Next]_(Store!vars)
<1>1. LogInv'
    BY WriteLogHeaderInv
<1>2. /\ up /\ pc[t] = "whead"
      /\ \A s \in Threads : s # t => pc[s] \notin {"op", "install", "clear", "rinstall", "rclear"}
    BY DEF LogInv, RecoveryRunsAlone, CommitRunsAlone, CommitLabels, WriteLogHeader
<1>3. Active = {} /\ Active' = {}
    BY <1>2 DEF LogInv, TypeOK, Active, WriteLogHeader
<1>4. View' = View /\ UNCHANGED up
    BY <1>2 DEF View, Content, WriteLogHeader
<1>5. \A i : ~Installed(i)
    BY <1>2 DEF Installed
<1>6. ASSUME NEW b \in Blocks PROVE Durable'[b] = View[b]
    <2>0. View[b] = Content(b)
        BY <1>2 DEF View
    <2>1. CASE \E i \in 1 .. Len(lh) : lh[i] = b
        <3>1. PICK i \in 1 .. Len(lh) : lh[i] = b
            BY <2>1
        <3>2. dlog[i] = cache[b]
            BY <1>2, <3>1 DEF LogInv, CopyInv
        <3>3. cache[b] # NotCached
            BY <1>5, <3>1 DEF LogInv, PinnedWhileLogged, PinnedIsCached
        <3>4. Durable'[b] = dlog[i]
            BY <1>1, <3>1, DurableNext DEF DurableFacts, WriteLogHeader
        <3> QED
            BY <2>0, <3>2, <3>3, <3>4 DEF Content
    <2>2. CASE \A i \in 1 .. Len(lh) : lh[i] # b
        <3>1. Durable'[b] = disk[b]
            BY <1>1, <2>2, DurableNext DEF DurableFacts, WriteLogHeader
        <3>2. pins[b] = 0
            BY <2>2 DEF LogInv, PinnedWhileLogged
        <3> QED
            BY <2>0, <3>1, <3>2 DEF LogInv, EvictionLosesNothing, Content
    <2> QED
        BY <2>1, <2>2
<1>7. Durable' = View
    BY <1>2, <1>6 DEF Durable, View
<1> QED
    BY <1>2, <1>3, <1>4, <1>7 DEF Store!Next, Store!Commit

\* Installing a block is invisible: the log already promised it.
LEMMA InstallTransactionRefines ==
    ASSUME LogInv, NEW t \in Threads, InstallTransaction(t)
    PROVE  [Store!Next]_(Store!vars)
<1> DEFINE k == tail[t] + 1
<1>1. LogInv'
    BY InstallTransactionInv
<1>2. /\ up /\ pc[t] = "install" /\ dhdr = lh
      /\ k \in 1 .. Len(dhdr) /\ dhdr[k] \in Blocks
      /\ disk' = [disk EXCEPT ![dhdr[k]] = dlog[k]]
      /\ cache' = [cache EXCEPT ![dhdr[k]] = dlog[k]]
      /\ UNCHANGED <<dlog, dhdr, up>>
    <2>1. up /\ pc[t] = "install" /\ dhdr = lh /\ tail[t] < Len(lh)
        BY DEF LogInv, RecoveryRunsAlone, HeaderInv, InstallTransaction
    <2>2. k \in 1 .. Len(dhdr)
        BY <2>1, LogAssumption DEF LogInv, TypeOK
    <2> QED
        BY <2>1, <2>2 DEF LogInv, TypeOK, InstallTransaction
<1>3. Durable' = Durable
    BY <1>1, <1>2, InstallKeepsDurable
<1>4. View' = View
    <2>1. pins[dhdr[k]] > 0 /\ cache[dhdr[k]] = dlog[k]
        <3>1. k > tail[t]
            BY LogAssumption DEF LogInv, TypeOK
        <3> QED
            BY <1>2, <3>1, CopySourceIsPinned DEF LogInv, CopyInv
    <2>2. cache[dhdr[k]] # NotCached
        BY <2>1, <1>2 DEF LogInv, PinnedIsCached
    <2>3. \A c \in Blocks : Content(c)' = Content(c)
        BY <2>1, <2>2, <1>2 DEF LogInv, TypeOK, Content
    <2> QED
        BY <1>2, <2>3 DEF View
<1>5. Active' = Active
    BY <1>2 DEF LogInv, TypeOK, Active, InstallTransaction
<1> QED
    BY <1>2, <1>3, <1>4, <1>5 DEF Store!vars

\* Clearing the header is invisible: the home locations hold everything.
LEMMA ClearLogHeaderRefines ==
    ASSUME LogInv, NEW t \in Threads, ClearLogHeader(t)
    PROVE  [Store!Next]_(Store!vars)
<1>1. LogInv'
    BY ClearLogHeaderInv
<1>2. Durable = disk /\ Durable' = disk'
    BY <1>1, InstalledDurable, DurableNext DEF DurableFacts, ClearLogHeader
<1>3. up
    BY DEF LogInv, RecoveryRunsAlone, ClearLogHeader
<1>4. View' = View
    BY <1>3 DEF View, Content, ClearLogHeader
<1>5. Active' = Active
    BY DEF LogInv, TypeOK, Active, ClearLogHeader
<1> QED
    BY <1>2, <1>4, <1>5 DEF Store!vars, ClearLogHeader

\* Replaying a block is invisible, however often recovery starts anew.
LEMMA RecoverInstallRefines ==
    ASSUME LogInv, NEW t \in Threads, RecoverInstall(t)
    PROVE  [Store!Next]_(Store!vars)
<1> DEFINE k == tail[t] + 1
<1>1. LogInv'
    BY RecoverInstallInv
<1>2. /\ ~up /\ dhdr = lh
      /\ k \in 1 .. Len(dhdr)
      /\ disk' = [disk EXCEPT ![dhdr[k]] = dlog[k]]
      /\ UNCHANGED <<dlog, dhdr, up>>
    <2>1. ~up /\ dhdr = lh /\ tail[t] < Len(lh)
        BY DEF LogInv, RecoveryRunsAlone, HeaderInv, RecoverInstall
    <2>2. k \in 1 .. Len(dhdr)
        BY <2>1, LogAssumption DEF LogInv, TypeOK
    <2> QED
        BY <2>1, <2>2 DEF RecoverInstall
<1>3. Durable' = Durable
    BY <1>1, <1>2, InstallKeepsDurable
<1>4. View' = View
    BY <1>2, <1>3 DEF View
<1>5. Active' = Active
    BY DEF LogInv, TypeOK, Active, RecoverInstall
<1> QED
    BY <1>2, <1>3, <1>4, <1>5 DEF Store!vars

\* The end of recovery mounts the store with what was durable.
LEMMA RecoverDoneRefines ==
    ASSUME LogInv, NEW t \in Threads, RecoverDone(t)
    PROVE  [Store!Next]_(Store!vars)
<1>1. LogInv'
    BY RecoverDoneInv
<1>2. ~up /\ up'
    BY DEF LogInv, RecoveryRunsAlone, RecoverDone
<1>3. Durable = disk /\ Durable' = disk'
    BY <1>1, InstalledDurable, DurableNext DEF DurableFacts, RecoverDone
<1>4. \A b \in Blocks : Content(b)' = disk[b]
    <2>1. \A b \in Blocks : pins[b] = 0
        BY DEF LogInv, PinnedWhileLogged, Installed, RecoverDone
    <2> QED
        BY <2>1 DEF LogInv, EvictionLosesNothing, Content, RecoverDone
<1>5. View' = View
    BY <1>2, <1>3, <1>4 DEF View, LogInv, TypeOK
<1>6. Active' = Active
    BY DEF LogInv, TypeOK, Active, RecoverDone
<1> QED
    BY <1>2, <1>3, <1>5, <1>6 DEF Store!Next, Store!Recover, RecoverDone

\* Steps that leave the disk, the header and the cache alone.
LEMMA QuietStepsRefine ==
    ASSUME LogInv, NEW t \in Threads,
           SpuriousWakeup(t) \/ CommitDone(t) \/ ReadLogHeader(t)
    PROVE  [Store!Next]_(Store!vars)
<1>1. UNCHANGED <<disk, dlog, dhdr, cache, up>>
    BY DEF SpuriousWakeup, CommitDone, ReadLogHeader
<1>2. Active' = Active
    BY DEF LogInv, TypeOK, Active, SpuriousWakeup, CommitDone, ReadLogHeader, Broadcast
<1> QED
    BY <1>1, <1>2, SameDurable, SameView DEF Store!vars

\* A refill and an eviction are invisible above the cache.
LEMMA CacheStepsRefine ==
    ASSUME LogInv, NEW b \in Blocks, Fill(b) \/ Evict(b)
    PROVE  [Store!Next]_(Store!vars)
<1>1. UNCHANGED <<disk, dlog, dhdr, pc, up>>
    BY DEF Fill, Evict
<1>2. \A c \in Blocks : Content(c)' = Content(c)
    BY LogAssumption DEF LogInv, TypeOK, EvictionLosesNothing, Content, Fill, Evict
<1>3. View' = View
    BY <1>1, <1>2, SameDurable DEF View
<1> QED
    BY <1>1, <1>3, SameDurable DEF Store!vars, Active

\* Every step of the log is a step of the atomic store or invisible.
LEMMA StepRefines == LogInv /\ [Next]_vars => [Store!Next]_(Store!vars)
<1> SUFFICES ASSUME LogInv, [Next]_vars PROVE [Store!Next]_(Store!vars)
    OBVIOUS
<1>1. ASSUME NEW t \in Threads, Step(t) PROVE [Store!Next]_(Store!vars)
    BY <1>1, BeginOpRefines, EndOpRefines, WriteFromCacheToLogRefines,
       WriteLogHeaderRefines, InstallTransactionRefines, ClearLogHeaderRefines,
       RecoverInstallRefines, RecoverDoneRefines, QuietStepsRefine DEF Step
<1>2. ASSUME NEW t \in Threads, NEW b \in Blocks, NEW v \in Vals, LoggedWrite(t, b, v)
      PROVE  [Store!Next]_(Store!vars)
    BY <1>2, LoggedWriteRefines
<1>3. ASSUME NEW t \in Threads, SpuriousWakeup(t) PROVE [Store!Next]_(Store!vars)
    BY <1>3, QuietStepsRefine
<1>4. ASSUME NEW b \in Blocks, Fill(b) \/ Evict(b) PROVE [Store!Next]_(Store!vars)
    BY <1>4, CacheStepsRefine
<1>5. CASE Crash
    BY <1>5, DieRefines DEF Crash
<1>6. CASE UNCHANGED vars
    BY <1>6, SameDurable, SameView DEF vars, Store!vars, Active
<1> QED
    BY <1>1, <1>2, <1>3, <1>4, <1>5, <1>6 DEF Next

\* log.c implements the atomic store of TxnStore: what survives a crash at any
\* point of begin_op .. commit .. recover_from_log is the view at a moment
\* when no operation was open.
THEOREM Atomicity == Spec => AtomicStore
<1> QED
    BY Invariance, InitRefines, StepRefines, PTL DEF Spec, AtomicStore, Store!Spec

\* The named safety properties follow from the inductive invariant.
LEMMA InvImpliesDurable == LogInv => QuiescentIsDurable
<1> SUFFICES ASSUME LogInv, up, \A t \in Threads : pc[t] \notin CommitLabels \cup {"op"}
             PROVE  View = Durable /\ lh = <<>>
    BY DEF QuiescentIsDurable
<1>1. lh = <<>> /\ dhdr = <<>>
    BY DEF LogInv, HeaderInv, CommitLabels
<1>2. Durable = disk
    BY <1>1, DurableIsDisk
<1>3. \A b \in Blocks : Content(b) = disk[b]
    <2>1. Len(lh) = 0
        BY <1>1
    <2>2. \A b \in Blocks : pins[b] = 0
        BY <2>1 DEF LogInv, PinnedWhileLogged
    <2> QED
        BY <2>2 DEF LogInv, EvictionLosesNothing, Content
<1> QED
    BY <1>1, <1>2, <1>3 DEF View, LogInv, TypeOK

\* When no call is open and commit() has returned, a crash loses nothing:
\* the last end_op() returns after its transaction is on disk.
THEOREM Durability == Spec => []QuiescentIsDurable
<1> QED
    BY Invariance, InvImpliesDurable, PTL

\* begin_op() never sleeps without a committer or an open operation whose
\* end_op() broadcasts.
THEOREM NoLostWakeup == Spec => []SleeperHasWaker
<1>1. LogInv => SleeperHasWaker
    BY DEF LogInv
<1> QED
    BY Invariance, <1>1, PTL

\* commit(), which runs without fslog.lock, has no second committer and no
\* open operation beside it.
THEOREM CommitExclusion == Spec => []CommitRunsAlone
<1>1. LogInv => CommitRunsAlone
    BY DEF LogInv
<1> QED
    BY Invariance, <1>1, PTL

\* bpin() and bunpin() pair up, and bget() can recycle no buffer whose
\* content is not at its home location.
THEOREM PinExactness == Spec => [](PinnedWhileLogged /\ EvictionLosesNothing)
<1>1. LogInv => PinnedWhileLogged /\ EvictionLosesNothing
    BY DEF LogInv
<1> QED
    BY Invariance, <1>1, PTL

\* The types of the log's state; lh.n never exceeds the data blocks of the log.
THEOREM TypeCorrectness == Spec => []TypeOK
<1>1. LogInv => TypeOK
    BY DEF LogInv
<1> QED
    BY Invariance, <1>1, PTL

-----------------------------------------------------------------------------
(* The reservation of begin_op().                                          *)

\* What the open operations reserved and have not used: a log block for each
\* call of logged_write() that is left of their MAXOPBLOCKS.
Unspent == {x \in Threads \X (1 .. MAXOPBLOCKS) : pc[x[1]] = "op" /\ nwrote[x[1]] < x[2]}

\* The log has room for what is reserved, and nothing ended the process.
CapacityInv == err = "none" /\ Len(lh) + Cardinality(Unspent) <= NLOG

\* An operation writes less than it reserves by as many blocks as the log area
\* is short of the capacity that begin_op() counts with.
RoomForAll == OpLimit + NLOG <= MAXOPBLOCKS + LogSize - 1

\* The unused reservations are finitely many, at most MAXOPBLOCKS for each
\* open operation.
LEMMA UnspentFinite ==
    ASSUME LogInv
    PROVE  /\ IsFiniteSet(Unspent)
           /\ Cardinality(Unspent) \in Nat
           /\ Cardinality(Unspent) <= outstanding * MAXOPBLOCKS
<1>1. IsFiniteSet(1 .. MAXOPBLOCKS) /\ Cardinality(1 .. MAXOPBLOCKS) = MAXOPBLOCKS
    <2>1. 1 \in Int /\ MAXOPBLOCKS \in Int /\ ~ (1 > MAXOPBLOCKS)
        BY LogAssumption
    <2> QED
        BY <2>1, FS_Interval
<1>2. IsFiniteSet(Active) /\ Cardinality(Active) = outstanding
    BY ActiveFinite DEF LogInv, OutstandingIsCount
<1>3. IsFiniteSet(Active \X (1 .. MAXOPBLOCKS)) /\ Cardinality(Active \X (1 .. MAXOPBLOCKS)) = outstanding * MAXOPBLOCKS
    BY <1>1, <1>2, FS_Product
<1>4. Unspent \subseteq Active \X (1 .. MAXOPBLOCKS)
    BY DEF Unspent, Active
<1>5. IsFiniteSet(Unspent) /\ Cardinality(Unspent) <= outstanding * MAXOPBLOCKS
    BY <1>3, <1>4, FS_Subset
<1> QED
    BY <1>5, FS_CardinalityType

\* What one thread has left is a part of it.
LEMMA UnspentOf ==
    ASSUME NEW t \in Threads, NEW n \in 0 .. MAXOPBLOCKS
    PROVE  /\ IsFiniteSet({t} \X ((n + 1) .. MAXOPBLOCKS))
           /\ Cardinality({t} \X ((n + 1) .. MAXOPBLOCKS)) = MAXOPBLOCKS - n
<1>1. IsFiniteSet((n + 1) .. MAXOPBLOCKS) /\ Cardinality((n + 1) .. MAXOPBLOCKS) = MAXOPBLOCKS - n
    <2>1. n + 1 \in Int /\ MAXOPBLOCKS \in Int /\ n \in Int
        BY LogAssumption
    <2>2. CASE n + 1 > MAXOPBLOCKS
        <3>1. Cardinality((n + 1) .. MAXOPBLOCKS) = 0 /\ IsFiniteSet((n + 1) .. MAXOPBLOCKS)
            BY <2>1, <2>2, FS_Interval
        <3>2. MAXOPBLOCKS - n = 0
            BY <2>1, <2>2, LogAssumption
        <3> QED
            BY <3>1, <3>2
    <2>3. CASE ~ (n + 1 > MAXOPBLOCKS)
        <3>1. Cardinality((n + 1) .. MAXOPBLOCKS) = MAXOPBLOCKS - (n + 1) + 1 /\ IsFiniteSet((n + 1) .. MAXOPBLOCKS)
            BY <2>1, <2>3, FS_Interval
        <3> QED
            BY <2>1, <3>1
    <2> QED
        BY <2>2, <2>3
<1>2. IsFiniteSet({t}) /\ Cardinality({t}) = 1
    BY FS_Singleton
<1>3. MAXOPBLOCKS - n \in Int /\ 1 * (MAXOPBLOCKS - n) = MAXOPBLOCKS - n
    BY LogAssumption
<1> DEFINE rest == (n + 1) .. MAXOPBLOCKS
<1> HIDE DEF rest
<1>4. IsFiniteSet(rest) /\ Cardinality(rest) = MAXOPBLOCKS - n
    BY <1>1 DEF rest
<1>5. IsFiniteSet({t} \X rest) /\ Cardinality({t} \X rest) = 1 * (MAXOPBLOCKS - n)
    BY <1>2, <1>4, FS_Product
<1> QED
    BY <1>3, <1>5 DEF rest

\* A process that dies leaves nothing reserved and an empty log in memory.
LEMMA DieCapacity ==
    ASSUME Die PROVE Unspent' = {} /\ Cardinality(Unspent') = 0 /\ Len(lh') = 0
<1>1. Unspent' = {}
    BY DEF Die, Unspent
<1> QED
    BY <1>1, FS_EmptySet DEF Die

\* begin_op() lets an operation in only when its whole reservation fits.
LEMMA BeginOpCapacity ==
    ASSUME LogInv, CapacityInv, NEW t \in Threads, BeginOp(t)
    PROVE  CapacityInv'
<1>0. UNCHANGED <<lh, err>> /\ nwrote \in [Threads -> 0 .. OpLimit] /\ pc \in [Threads -> Labels] /\ pc[t] # "op"
    BY DEF BeginOp, LogInv, TypeOK
<1>1. CASE MustWait
    <2>1. pc' = [pc EXCEPT ![t] = "asleep"] /\ nwrote' = nwrote
        BY <1>1 DEF BeginOp
    <2>2. Unspent' = Unspent
        BY <1>0, <2>1 DEF Unspent
    <2> QED
        BY <1>0, <2>2 DEF CapacityInv
<1>2. CASE ~MustWait
    <2> DEFINE mine == {t} \X ((0 + 1) .. MAXOPBLOCKS)
    <2>1. pc' = [pc EXCEPT ![t] = "op"] /\ nwrote' = [nwrote EXCEPT ![t] = 0]
        BY <1>2 DEF BeginOp
    <2>2. Unspent' = Unspent \cup mine /\ Unspent \cap mine = {}
        BY <1>0, <2>1 DEF Unspent
    <2>3. IsFiniteSet(mine) /\ Cardinality(mine) = MAXOPBLOCKS
        BY UnspentOf, LogAssumption
    <2> HIDE DEF mine
    <2>4. Cardinality(Unspent') = Cardinality(Unspent) + Cardinality(mine) - Cardinality(Unspent \cap mine)
        BY <2>2, <2>3, UnspentFinite, FS_Union
    <2>5. Cardinality(Unspent \cap mine) = 0
        BY <2>2, FS_EmptySet
    <2>6. Len(lh) + (outstanding + 1) * MAXOPBLOCKS <= NLOG
        BY <1>2, LogAssumption DEF MustWait, LogInv, TypeOK
    <2>7. (outstanding + 1) * MAXOPBLOCKS = outstanding * MAXOPBLOCKS + MAXOPBLOCKS
        BY LogAssumption DEF LogInv, TypeOK
    <2>8. outstanding * MAXOPBLOCKS \in Nat /\ MAXOPBLOCKS \in Nat /\ NLOG \in Nat /\ Len(lh) \in Nat
        BY LogAssumption DEF LogInv, TypeOK
    <2> QED
        BY <1>0, <2>3, <2>4, <2>5, <2>6, <2>7, <2>8, UnspentFinite DEF CapacityInv
<1> QED
    BY <1>1, <1>2

\* end_op() gives back what its operation did not use; no commit runs beside
\* an open operation, so it does not find fslog.committing set.
LEMMA EndOpCapacity ==
    ASSUME LogInv, CapacityInv, NEW t \in Threads, EndOp(t)
    PROVE  CapacityInv'
<1>1. ~committing
    BY DEF EndOp, LogInv, CommitRunsAlone, CommitLabels
<1>2. UNCHANGED <<lh, nwrote, err>>
    BY <1>1 DEF EndOp
<1>3. \A s \in Threads : pc'[s] = "op" => pc[s] = "op"
    BY <1>1 DEF EndOp, CommitStart, Broadcast, LogInv, TypeOK
<1>4. Unspent' \subseteq Unspent
    BY <1>2, <1>3 DEF Unspent
<1>5. Cardinality(Unspent') <= Cardinality(Unspent) /\ IsFiniteSet(Unspent')
    BY <1>4, UnspentFinite, FS_Subset
<1>6. Cardinality(Unspent') \in Nat /\ Cardinality(Unspent) \in Nat /\ Len(lh) \in Nat /\ NLOG \in Nat
    BY <1>5, UnspentFinite, FS_CardinalityType, LogAssumption DEF LogInv, TypeOK
<1> QED
    BY <1>2, <1>5, <1>6 DEF CapacityInv

\* A call of logged_write() uses up one block of its operation's reservation;
\* what is left of it covers what the log area lacks.
LEMMA LoggedWriteCapacity ==
    ASSUME RoomForAll, LogInv, CapacityInv, NEW t \in Threads, NEW b \in Blocks, NEW v \in Vals,
           LoggedWrite(t, b, v)
    PROVE  CapacityInv'
<1> DEFINE n == nwrote[t]
           mine == {t} \X ((n + 1) .. MAXOPBLOCKS)
<1>0. /\ n \in Nat /\ n < OpLimit /\ pc[t] = "op" /\ nwrote \in [Threads -> 0 .. OpLimit]
      /\ MAXOPBLOCKS \in Nat /\ NLOG \in Nat /\ LogSize \in Nat /\ OpLimit \in Nat
      /\ LogSize - 1 <= NLOG /\ Len(lh) \in Nat /\ lh \in Seq(Blocks)
    BY LogAssumption DEF LoggedWrite, LogInv, TypeOK
<1>1. n < MAXOPBLOCKS /\ MAXOPBLOCKS - n >= NLOG - (LogSize - 1) + 1
    BY <1>0 DEF RoomForAll
<1>2. mine \subseteq Unspent
    BY <1>0 DEF Unspent
<1>3. Cardinality(mine) = MAXOPBLOCKS - n
    <2>1. n \in 0 .. MAXOPBLOCKS
        BY <1>0, <1>1
    <2> HIDE DEF n
    <2> QED
        BY <2>1, UnspentOf
<1>4. Cardinality(mine) <= Cardinality(Unspent)
    BY <1>2, UnspentFinite, FS_Subset
<1>5. Len(lh) < LogSize - 1 /\ Len(lh) < NLOG
    BY <1>0, <1>1, <1>3, <1>4, UnspentFinite DEF CapacityInv
<1>6. outstanding >= 1
    <2>1. t \in Active
        BY <1>0 DEF Active
    <2>2. Cardinality(Active) # 0
        BY <2>1, ActiveFinite, FS_EmptySet
    <2> QED
        BY <2>2, ActiveFinite DEF LogInv, OutstandingIsCount
<1>7. WriteError = "none"
    BY <1>0, <1>5, <1>6 DEF WriteError, LogInv, TypeOK
<1>8. nwrote' = [nwrote EXCEPT ![t] = n + 1] /\ UNCHANGED <<pc, err>> /\ LogBlock(b)
    BY <1>7 DEF LoggedWrite
<1>9. Unspent' = Unspent \ {<<t, n + 1>>} /\ <<t, n + 1>> \in Unspent
    BY <1>0, <1>1, <1>8 DEF Unspent
<1>10. Cardinality(Unspent') = Cardinality(Unspent) - 1
    BY <1>9, UnspentFinite, FS_RemoveElement
<1>11. Len(lh') <= Len(lh) + 1 /\ Len(lh') \in Nat
    BY <1>0, <1>8 DEF LogBlock
<1> QED
    BY <1>0, <1>8, <1>10, <1>11, UnspentFinite DEF CapacityInv

\* Every step keeps the room that the open operations reserved.
LEMMA CapacityStep == RoomForAll /\ LogInv /\ CapacityInv /\ [Next]_vars => CapacityInv'
<1> SUFFICES ASSUME RoomForAll, LogInv, CapacityInv, [Next]_vars PROVE CapacityInv'
    OBVIOUS
<1>0. /\ NLOG \in Nat /\ Len(lh) \in Nat /\ Cardinality(Unspent) \in Nat /\ pc \in [Threads -> Labels]
      /\ LogSize \in Nat /\ LogSize - 1 <= NLOG
    BY UnspentFinite, LogAssumption DEF LogInv, TypeOK
<1>1. ASSUME NEW t \in Threads, BeginOp(t) \/ EndOp(t) PROVE CapacityInv'
    BY <1>1, BeginOpCapacity, EndOpCapacity
<1>2. ASSUME NEW t \in Threads, NEW b \in Blocks, NEW v \in Vals, LoggedWrite(t, b, v) PROVE CapacityInv'
    BY <1>2, LoggedWriteCapacity
<1>3. CASE Crash
    BY <1>0, <1>3, DieCapacity DEF Crash, CapacityInv
<1>4. ASSUME NEW t \in Threads,
             \/ WriteFromCacheToLog(t) \/ WriteLogHeader(t) \/ InstallTransaction(t) \/ CommitDone(t)
             \/ SpuriousWakeup(t) \/ RecoverInstall(t)
      PROVE  CapacityInv'
    <2>1. UNCHANGED <<lh, nwrote, err>>
        BY <1>4 DEF WriteFromCacheToLog, WriteLogHeader, InstallTransaction, CommitDone, SpuriousWakeup, RecoverInstall
    <2>2. \A s \in Threads : pc'[s] = "op" <=> pc[s] = "op"
        BY <1>0, <1>4 DEF WriteFromCacheToLog, WriteLogHeader, InstallTransaction, CommitDone, SpuriousWakeup,
                          RecoverInstall, Broadcast
    <2>3. Unspent' = Unspent
        BY <2>1, <2>2 DEF Unspent
    <2> QED
        BY <2>1, <2>3 DEF CapacityInv
<1>5. ASSUME NEW t \in Threads, ClearLogHeader(t) \/ RecoverDone(t) PROVE CapacityInv'
    <2>1. UNCHANGED <<nwrote, err>> /\ lh' = <<>>
        BY <1>5 DEF ClearLogHeader, RecoverDone
    <2>2. \A s \in Threads : pc'[s] = "op" <=> pc[s] = "op"
        BY <1>0, <1>5 DEF ClearLogHeader, RecoverDone
    <2>3. Unspent' = Unspent
        BY <2>1, <2>2 DEF Unspent
    <2>4. Len(lh') = 0
        BY <2>1
    <2> QED
        BY <1>0, <2>1, <2>3, <2>4 DEF CapacityInv
<1>6. ASSUME NEW t \in Threads, ReadLogHeader(t) PROVE CapacityInv'
    <2>1. \A s \in Threads : pc'[s] # "op"
        BY <1>0, <1>6 DEF ReadLogHeader
    <2>2. Unspent' = {}
        BY <2>1 DEF Unspent
    <2>3. Cardinality(Unspent') = 0
        BY <2>2, FS_EmptySet
    <2>4. Len(lh') \in Nat /\ Len(lh') < LogSize /\ err' = "none"
        BY <1>6 DEF ReadLogHeader, LogInv, TypeOK
    <2> QED
        BY <1>0, <2>3, <2>4 DEF CapacityInv
<1>7. ASSUME NEW b \in Blocks, Fill(b) \/ Evict(b) PROVE CapacityInv'
    BY <1>7 DEF Fill, Evict, CapacityInv, Unspent
<1>8. CASE UNCHANGED vars
    BY <1>8 DEF vars, CapacityInv, Unspent
<1> QED
    BY <1>1, <1>2, <1>3, <1>4, <1>5, <1>6, <1>7, <1>8 DEF Next, Step

\* The reservation is enough: operations that call logged_write() at most
\* MAXOPBLOCKS times, less what the log area is short of NLOG, never meet an
\* err_exit() of log.c, whatever runs beside them.
THEOREM ReservationSuffices == RoomForAll => (Spec => []NoErrExit)
<1> SUFFICES ASSUME RoomForAll PROVE Spec => []NoErrExit
    OBVIOUS
<1>1. Init => CapacityInv
    <2> SUFFICES ASSUME Init PROVE CapacityInv
        OBVIOUS
    <2>1. Unspent = {}
        BY DEF Init, Unspent
    <2>2. Cardinality(Unspent) = 0 /\ Len(lh) = 0 /\ NLOG \in Nat
        BY <2>1, FS_EmptySet, LogAssumption DEF Init
    <2> QED
        BY <2>2 DEF Init, CapacityInv
<1>2. LogInv /\ CapacityInv /\ [Next]_vars => CapacityInv'
    BY CapacityStep
<1>3. CapacityInv => NoErrExit
    BY DEF CapacityInv, NoErrExit
<1> QED
    BY <1>1, <1>2, <1>3, Invariance, PTL DEF Spec
=============================================================================
