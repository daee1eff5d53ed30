--------------------------- MODULE FileDataProofs ---------------------------
(***************************************************************************)
(* Proofs about FileData, for any size of a block and of the largest file, *)
(* any number of threads, and any offsets and lengths: transfers stay in   *)
(* range and move every byte once, although they give their lock up.       *)
(*                                                                         *)
(* A transfer of a thread works on the bytes from Position(t) on.  The     *)
(* arithmetic of the code (a first block from off % BSIZE, whole blocks    *)
(* from blockno * BSIZE) is shown to keep that; the rest of the argument   *)
(* is about the bytes in front of it and behind it.                        *)
(***************************************************************************)
EXTENDS FileData, FiniteSetTheorems, SequenceTheorems, TLAPS

-----------------------------------------------------------------------------
(* Division: block numbers and places in a block.                          *)

\* What quotient and remainder are.
LEMMA Division ==
    ASSUME NEW d \in Nat \ {0}, NEW x \in Nat
    PROVE  /\ x \div d \in Nat /\ x % d \in 0 .. (d - 1)
           /\ (x \div d) * d \in Nat
           /\ x = (x % d) + (x \div d) * d
  <1>1. x \div d \in Nat /\ x % d \in 0 .. (d - 1)
      OBVIOUS
  <1>2. x = (x % d) + (x \div d) * d
      OBVIOUS
  <1>3. (x \div d) * d \in Nat
      BY <1>1
  <1> QED
      BY <1>1, <1>2, <1>3

\* More blocks of size d are more bytes.
LEMMA MoreIsMore ==
    ASSUME NEW d \in Nat \ {0}, NEW x \in Nat, NEW y \in Nat, x <= y
    PROVE  x * d \in Nat /\ y * d \in Nat /\ x * d <= y * d
  OBVIOUS

-----------------------------------------------------------------------------
(* Arithmetic of blocks.                                                   *)

\* The numbers of the model.
LEMMA Numbers ==
    /\ BSIZE \in Nat \ {0} /\ MAXFILE_BLOCKS \in Nat \ {0}
    /\ MAXFILE_SIZE \in Nat /\ MAXFILE_SIZE = MAXFILE_BLOCKS * BSIZE
  <1>1. BSIZE \in Nat \ {0} /\ MAXFILE_BLOCKS \in Nat \ {0}
      BY DataAssumption
  <1>2. MAXFILE_BLOCKS * BSIZE \in Nat
      BY <1>1
  <1> QED
      BY <1>1, <1>2 DEF MAXFILE_SIZE

\* off is at place off % BSIZE of block off / BSIZE.
LEMMA BlockOfByte ==
    ASSUME NEW off \in Nat
    PROVE  /\ off \div BSIZE \in Nat /\ off % BSIZE \in 0 .. (BSIZE - 1)
           /\ off = (off % BSIZE) + (off \div BSIZE) * BSIZE
  BY Numbers, Division

\* More blocks are more bytes.
LEMMA MoreBytes ==
    ASSUME NEW x \in Nat, NEW y \in Nat, x <= y
    PROVE  x * BSIZE \in Nat /\ y * BSIZE \in Nat /\ x * BSIZE <= y * BSIZE
  BY Numbers, MoreIsMore

\* A block that begins inside of the largest file is a block of its map.
LEMMA BlockInMap ==
    ASSUME NEW b \in Nat, b * BSIZE < MAXFILE_SIZE
    PROVE  b < MAXFILE_BLOCKS
  <1> SUFFICES ASSUME MAXFILE_BLOCKS <= b PROVE FALSE
      BY Numbers
  <1>1. MAXFILE_BLOCKS * BSIZE <= b * BSIZE
      BY Numbers
  <1> QED
      BY <1>1, Numbers

\* Division keeps the order.
LEMMA DivMonotone ==
    ASSUME NEW a \in Nat, NEW b \in Nat, a <= b
    PROVE  a \div BSIZE <= b \div BSIZE
  <1> DEFINE x == a \div BSIZE
             y == b \div BSIZE
  <1>1. /\ x \in Nat /\ y \in Nat /\ BSIZE \in Nat \ {0}
        /\ a = (a % BSIZE) + x * BSIZE /\ a % BSIZE \in 0 .. (BSIZE - 1)
        /\ b = (b % BSIZE) + y * BSIZE /\ b % BSIZE \in 0 .. (BSIZE - 1)
      BY BlockOfByte, Numbers
  <1> HIDE DEF x, y
  <1> SUFFICES ASSUME y + 1 <= x PROVE FALSE
      BY <1>1 DEF x, y
  <1>2. (y + 1) * BSIZE <= x * BSIZE
      BY <1>1, MoreBytes
  <1>3. (y + 1) * BSIZE = y * BSIZE + BSIZE
      BY <1>1
  <1>4. x * BSIZE \in Nat /\ y * BSIZE \in Nat
      BY <1>1
  <1> QED
      BY <1>1, <1>2, <1>3, <1>4

\* The end of the last block of a file of n bytes.
LEMMA RoundUp ==
    /\ \A n \in Nat : ROUNDUP(n) \in Nat /\ ROUNDUP(n) >= n
    /\ \A m, n \in Nat : m <= n => ROUNDUP(m) <= ROUNDUP(n)
  <1>1. ASSUME NEW n \in Nat PROVE ROUNDUP(n) \in Nat /\ ROUNDUP(n) >= n
    <2> DEFINE e == n + BSIZE - 1
    <2>1. e \in Nat /\ e = n + BSIZE - 1
        BY Numbers
    <2> HIDE DEF e
    <2>2. (e \div BSIZE) \in Nat /\ e % BSIZE \in 0 .. (BSIZE - 1) /\ e = (e % BSIZE) + (e \div BSIZE) * BSIZE
        BY <2>1, BlockOfByte
    <2>3. (e \div BSIZE) * BSIZE \in Nat
        BY <2>2, Numbers
    <2>4. ROUNDUP(n) = (e \div BSIZE) * BSIZE
        BY DEF ROUNDUP, e
    <2> QED
        BY <2>1, <2>2, <2>3, <2>4, Numbers
  <1>2. ASSUME NEW m \in Nat, NEW n \in Nat, m <= n PROVE ROUNDUP(m) <= ROUNDUP(n)
    <2> DEFINE x == (m + BSIZE - 1) \div BSIZE
               y == (n + BSIZE - 1) \div BSIZE
    <2>1. m + BSIZE - 1 \in Nat /\ n + BSIZE - 1 \in Nat /\ m + BSIZE - 1 <= n + BSIZE - 1
        BY <1>2, Numbers
    <2>2. x <= y /\ x \in Nat /\ y \in Nat
        BY <2>1, DivMonotone, BlockOfByte
    <2> HIDE DEF x, y
    <2>3. x * BSIZE <= y * BSIZE
        BY <2>2, Numbers
    <2> QED
        BY <2>3 DEF ROUNDUP, x, y
  <1> QED
      BY <1>1, <1>2

-----------------------------------------------------------------------------
(* One block of a transfer.                                                *)

\* The bytes that a read gets from a block are appended to what it has.
LEMMA GotMore ==
    ASSUME NEW got \in Seq(Values), NEW m \in Nat, NEW start \in Nat,
           \A k \in 1 .. m : data[start + k - 1] \in Values
    PROVE  LET q == [k \in 1 .. m |-> data[start + k - 1]]
           IN  /\ got \o q \in Seq(Values)
               /\ Len(got \o q) = Len(got) + m
               /\ \A k \in 1 .. Len(got) + m :
                    (got \o q)[k] = IF k <= Len(got) THEN got[k] ELSE data[start + (k - Len(got)) - 1]
  <1> DEFINE q == [k \in 1 .. m |-> data[start + k - 1]]
  <1>1. q \in Seq(Values) /\ Len(q) = m /\ \A k \in 1 .. m : q[k] = data[start + k - 1]
      OBVIOUS
  <1>2. Len(got) \in Nat
      OBVIOUS
  <1> HIDE DEF q
  <1>3. /\ got \o q \in Seq(Values)
        /\ Len(got \o q) = Len(got) + m
        /\ \A k \in 1 .. Len(got) + m : (got \o q)[k] = IF k <= Len(got) THEN got[k] ELSE q[k - Len(got)]
      BY <1>1, ConcatProperties
  <1>4. \A k \in 1 .. Len(got) + m : ~ (k <= Len(got)) => k - Len(got) \in 1 .. m
      BY <1>2
  <1>5. \A k \in 1 .. Len(got) + m :
            (got \o q)[k] = IF k <= Len(got) THEN got[k] ELSE data[start + (k - Len(got)) - 1]
      BY <1>1, <1>3, <1>4
  <1> QED
      BY <1>3, <1>5 DEF q

\* What Move() does to the locals of its thread.
LEMMA MoveLocals ==
    ASSUME TypeOK, NEW t \in Threads, NEW from \in Nat, NEW m \in Nat, m <= call[t].nbytes,
           call[t].kind \in {"read", "write"},
           call[t].blockno * BSIZE + from + m <= MAXFILE_SIZE,
           Move(t, from, m)
    PROVE  /\ call' \in [Threads -> CallRecords]
           /\ \A s \in Threads \ {t} : call'[s] = call[s]
           /\ call'[t].kind = call[t].kind /\ call'[t].off = call[t].off /\ call'[t].n = call[t].n
           /\ call'[t].val = call[t].val
           /\ call'[t].nbytes = call[t].nbytes - m /\ call'[t].blockno = call[t].blockno + 1
           /\ call[t].kind = "write" => call'[t].got = call[t].got
           /\ call[t].kind = "read" =>
                /\ Len(call'[t].got) = Len(call[t].got) + m
                /\ \A k \in 1 .. Len(call[t].got) + m : call'[t].got[k] =
                        IF k <= Len(call[t].got) THEN call[t].got[k]
                        ELSE data[call[t].blockno * BSIZE + from + (k - Len(call[t].got)) - 1]
  <1> DEFINE c == call[t]
             start == c.blockno * BSIZE + from
  <1>1. call \in [Threads -> CallRecords] /\ c \in CallRecords
      BY DEF TypeOK
  <1>2. /\ c.nbytes \in Nat /\ c.blockno \in Nat /\ c.got \in Seq(Values)
        /\ c.nbytes - m \in Nat /\ c.blockno + 1 \in Nat
      BY <1>1 DEF CallRecords
  <1>3. c.blockno * BSIZE \in Nat /\ start \in Nat
    <2> DEFINE b == c.blockno
    <2>1. b \in Nat
        BY <1>2
    <2> HIDE DEF b
    <2>2. b * BSIZE \in Nat /\ b * BSIZE + from \in Nat
        BY <2>1, Numbers
    <2> QED
        BY <2>2 DEF b
  <1>4. CASE c.kind = "write"
    <2>1. call' = [call EXCEPT ![t].nbytes = @ - m, ![t].blockno = @ + 1]
        BY <1>4 DEF Move
    <2>2. call'[t] = [c EXCEPT !.nbytes = @ - m, !.blockno = @ + 1]
        BY <1>1, <2>1
    <2>3. call'[t] \in CallRecords
        BY <1>1, <1>2, <2>2 DEF CallRecords
    <2>4. call' \in [Threads -> CallRecords] /\ \A s \in Threads \ {t} : call'[s] = call[s]
        BY <1>1, <2>1, <2>3
    <2> QED
        BY <1>1, <1>4, <2>2, <2>4 DEF CallRecords
  <1>5. CASE c.kind = "read"
    <2> DEFINE q == [k \in 1 .. m |-> data[start + k - 1]]
    <2>1. call' = [call EXCEPT ![t].nbytes = @ - m, ![t].blockno = @ + 1, ![t].got = @ \o q]
        BY <1>5 DEF Move
    <2>2. \A k \in 1 .. m : start + k - 1 \in Bytes
        BY <1>3, Numbers DEF Bytes
    <2>3. \A k \in 1 .. m : data[start + k - 1] \in Values
        BY <2>2 DEF TypeOK
    <2> HIDE DEF start
    <2>4. /\ c.got \o q \in Seq(Values)
          /\ Len(c.got \o q) = Len(c.got) + m
          /\ \A k \in 1 .. Len(c.got) + m :
                (c.got \o q)[k] = IF k <= Len(c.got) THEN c.got[k] ELSE data[start + (k - Len(c.got)) - 1]
      <3> DEFINE g == c.got
      <3>1. g \in Seq(Values) /\ start \in Nat
          BY <1>2, <1>3
      <3> HIDE DEF g
      <3>2. /\ g \o q \in Seq(Values)
            /\ Len(g \o q) = Len(g) + m
            /\ \A k \in 1 .. Len(g) + m :
                (g \o q)[k] = IF k <= Len(g) THEN g[k] ELSE data[start + (k - Len(g)) - 1]
          BY <2>3, <3>1, GotMore
      <3> QED
          BY <3>2 DEF g
    <2> HIDE DEF q
    <2>5. call'[t] = [c EXCEPT !.nbytes = @ - m, !.blockno = @ + 1, !.got = @ \o q]
        BY <1>1, <2>1
    <2>6. call'[t] \in CallRecords
        BY <1>1, <1>2, <2>4, <2>5 DEF CallRecords
    <2>7. call' \in [Threads -> CallRecords] /\ \A s \in Threads \ {t} : call'[s] = call[s]
        BY <1>1, <2>1, <2>6
    <2>8. /\ call'[t].kind = c.kind /\ call'[t].off = c.off /\ call'[t].n = c.n
          /\ call'[t].val = c.val /\ call'[t].got = c.got \o q
          /\ call'[t].nbytes = c.nbytes - m /\ call'[t].blockno = c.blockno + 1
        BY <1>1, <2>5 DEF CallRecords
    <2> QED
        BY <1>5, <2>4, <2>7, <2>8 DEF start
  <1> QED
      BY <1>4, <1>5

\* The blocks hold a byte as it is in the file or as it was before the running
\* change.
LEMMA OldOrNew ==
    ASSUME DataInv, err = "none"
    PROVE  \A i \in Bytes : data[i] \in {file[i], before[i]}
  <1> USE DEF DataInv
  <1>1. pc \in [Threads -> Labels]
      BY DEF TypeOK
  <1>2. CASE \A s \in Threads : Changes(s) => pc[s] = "start"
      BY <1>2 DEF WrittenSoFar
  <1>3. ASSUME NEW s \in Threads, Changes(s), pc[s] # "start" PROVE \A i \in Bytes : data[i] \in {file[i], before[i]}
    <2>1. pc[s] # "idle"
        BY <1>3 DEF CallsRun, Changes
    <2>2. Moving(s) \/ pc[s] \in {"out", "done"}
        BY <1>1, <1>3, <2>1 DEF Moving, Labels
    <2> QED
        BY <1>3, <2>2 DEF WrittenSoFar
  <1> QED
      BY <1>2, <1>3

\* One block of a transfer moves the bytes from its position on and leaves the
\* position behind them.
LEMMA MoveInv ==
    ASSUME DataInv, err = "none", NEW t \in Threads, Moving(t), NEW from \in Nat, NEW m \in Nat,
           call[t].blockno * BSIZE + from = Position(t), m <= call[t].nbytes,
           NEW p \in {"loop", "out"},
           p = "out" => m = call[t].nbytes,
           p = "loop" => m < call[t].nbytes /\ (call[t].blockno + 1) * BSIZE = Position(t) + m,
           Move(t, from, m), pc' = [pc EXCEPT ![t] = p], lock' = t,
           UNCHANGED <<size, file, before, may, ncalls, err>>
    PROVE  DataInv'
  <1> DEFINE c == call[t]
             start == Position(t)
             off == c.off
             n == c.n
             nb == c.nbytes
             b == c.blockno
             g == c.got
  <1> USE DEF DataInv
  <1>1. /\ call \in [Threads -> CallRecords] /\ c \in CallRecords /\ pc \in [Threads -> Labels]
        /\ data \in [Bytes -> Values]
      BY DEF TypeOK
  <1>2. /\ nb \in Nat /\ n \in Nat /\ off \in Nat /\ b \in Nat /\ g \in Seq(Values)
        /\ start + nb = off + n /\ nb <= n /\ off + n <= MAXFILE_SIZE
        /\ b * BSIZE + from = start /\ m <= nb
        /\ p = "out" => m = nb
        /\ p = "loop" => m < nb /\ (b + 1) * BSIZE = start + m
      BY <1>1 DEF TransferInRange, CallRecords
  <1>2a. c.kind \in {"read", "write"} /\ c.val \in Values
      BY <1>1 DEF TransferInRange, CallRecords
  <1>3a. b * BSIZE + from + m = start + m
      BY <1>2
  <1>5a. ASSUME start + m <= MAXFILE_SIZE
        PROVE  /\ call' \in [Threads -> CallRecords]
               /\ \A s \in Threads \ {t} : call'[s] = call[s]
               /\ call'[t].kind = c.kind /\ call'[t].off = off /\ call'[t].n = n
               /\ call'[t].val = c.val
               /\ call'[t].nbytes = nb - m /\ call'[t].blockno = b + 1
               /\ c.kind = "write" => call'[t].got = g
               /\ c.kind = "read" =>
                    /\ Len(call'[t].got) = Len(g) + m
                    /\ \A k \in 1 .. Len(g) + m : call'[t].got[k] =
                            IF k <= Len(g) THEN g[k] ELSE data[b * BSIZE + from + (k - Len(g)) - 1]
      BY <1>2a, <1>3a, <1>5a, MoveLocals
  <1>w. c.kind = "write" =>
            \A i \in Bytes : /\ i \in off .. off + n - 1 => file[i] = c.val
                             /\ data[i] = file[i] \/ (i \in start .. start + nb - 1 /\ data[i] = before[i])
      BY DEF WrittenSoFar, Changes
  <1>r. c.kind = "read" =>
            /\ Len(g) = n - nb /\ \A i \in Bytes : {file[i], before[i]} \subseteq may[t][i]
            /\ \A k \in DOMAIN g : off + k - 1 \in Bytes /\ g[k] \in may[t][off + k - 1]
      BY DEF ReadSoFar
  <1>8a. p = "loop" /\ call'[t].blockno = b + 1 /\ pc'[t] = p => Position(t)' = (b + 1) * BSIZE
      BY DEF Position
  <1> HIDE DEF start, off, n, nb, b, g
  <1>3. start \in Nat
    <2>1. b * BSIZE \in Nat
        BY <1>2, Numbers
    <2> QED
        BY <1>2, <2>1
  <1>4. start + m <= MAXFILE_SIZE
      BY <1>2, <1>3, Numbers
  <1>5. /\ call' \in [Threads -> CallRecords]
        /\ \A s \in Threads \ {t} : call'[s] = call[s]
        /\ call'[t].kind = c.kind /\ call'[t].off = off /\ call'[t].n = n
        /\ call'[t].val = c.val
        /\ call'[t].nbytes = nb - m /\ call'[t].blockno = b + 1
        /\ c.kind = "write" => call'[t].got = g
        /\ c.kind = "read" =>
                /\ Len(call'[t].got) = Len(g) + m
                /\ \A k \in 1 .. Len(g) + m : call'[t].got[k] =
                        IF k <= Len(g) THEN g[k] ELSE data[start + (k - Len(g)) - 1]
      BY <1>2, <1>4, <1>5a
  <1>6. /\ c.kind = "write" => data' = [i \in Bytes |-> IF i \in start .. start + m - 1 THEN c.val ELSE data[i]]
        /\ c.kind = "read" => data' = data
      BY <1>2, <1>2a DEF Move, b
  <1>7. pc'[t] = p /\ \A s \in Threads \ {t} : pc'[s] = pc[s]
      BY <1>1
  <1>8. p = "loop" => Position(t)' = start + m
      BY <1>2, <1>5, <1>7, <1>8a
  <1>9. \A s \in Threads \ {t} : Position(s)' = Position(s)
      BY <1>5, <1>7 DEF Position
  <1>10. TypeOK'
    <2>1. data' \in [Bytes -> Values]
        BY <1>1, <1>2a, <1>6
    <2>2. pc' \in [Threads -> Labels]
        BY <1>1 DEF Labels
    <2> QED
        BY <1>5, <2>1, <2>2 DEF TypeOK
  <1>11. CallsRun' /\ OnlyTheVeryEndDies'
    <2>1. pc[t] # "idle"
        BY DEF Moving
    <2> QED
        BY <1>5, <1>7, <2>1 DEF CallsRun, OnlyTheVeryEndDies
  <1>12. OneChanger'
    <2>1. \A s \in Threads : call'[s].kind = call[s].kind
        BY <1>5
    <2> QED
        BY <2>1 DEF OneChanger, Changes
  <1>13. TransferInRange'
    <2> SUFFICES ASSUME NEW s \in Threads, Moving(s)'
                 PROVE  /\ call'[s].kind \in {"read", "write"}
                        /\ Position(s)' + call'[s].nbytes = call'[s].off + call'[s].n
                        /\ call'[s].nbytes <= call'[s].n /\ call'[s].off + call'[s].n <= MAXFILE_SIZE
                        /\ IF pc'[s] = "first" THEN call'[s].blockno = call'[s].off \div BSIZE ELSE call'[s].nbytes > 0
                        /\ pc'[s] = "last" => call'[s].nbytes <= BSIZE
        BY DEF TransferInRange
    <2>1. CASE s = t
      <3>1. p = "loop"
          BY <1>7, <2>1 DEF Moving
      <3>2. Position(t)' = start + m /\ m < nb
          BY <1>2, <1>8, <3>1
      <3>3. start + m + (nb - m) = off + n /\ nb - m <= n /\ nb - m > 0
          BY <1>2, <1>3, <3>2
      <3> QED
          BY <1>2, <1>2a, <1>5, <1>7, <2>1, <3>1, <3>2, <3>3
    <2>2. CASE s # t
      <3>1. Moving(s)
          BY <1>7, <2>2 DEF Moving
      <3> QED
          BY <1>5, <1>7, <1>9, <2>2, <3>1 DEF TransferInRange
    <2> QED
        BY <2>1, <2>2
  <1>14. \A i \in Bytes : data[i] \in {file[i], before[i]}
      BY OldOrNew
  <1>15. ReadSoFar'
    <2> SUFFICES ASSUME NEW s \in Threads, call'[s].kind = "read"
                 PROVE  /\ pc'[s] = "start" => call'[s].got = <<>>
                        /\ Moving(s)' => Len(call'[s].got) = call'[s].n - call'[s].nbytes
                        /\ pc'[s] \in {"out", "done"} /\ err' = "none" => Len(call'[s].got) = call'[s].n
                        /\ \A k \in DOMAIN call'[s].got : /\ call'[s].off + k - 1 \in Bytes
                                                          /\ call'[s].got[k] \in may'[s][call'[s].off + k - 1]
                        /\ Moving(s)' => \A i \in Bytes : {file'[i], before'[i]} \subseteq may'[s][i]
        BY DEF ReadSoFar
    <2>1. CASE s = t
      <3>1. c.kind = "read"
          BY <1>5, <2>1
      <3>2. /\ Len(g) = n - nb /\ \A i \in Bytes : {file[i], before[i]} \subseteq may[t][i]
            /\ \A k \in DOMAIN g : off + k - 1 \in Bytes /\ g[k] \in may[t][off + k - 1]
          BY <1>r, <3>1
      <3>3. /\ Len(call'[t].got) = Len(g) + m /\ Len(g) \in Nat /\ DOMAIN g = 1 .. Len(g)
            /\ DOMAIN call'[t].got = 1 .. Len(call'[t].got)
        <4>1. call'[t].got \in Seq(Values)
            BY <1>5 DEF CallRecords
        <4> QED
            BY <1>2, <1>5, <3>1, <4>1
      <3>4. start = off + Len(g)
          BY <1>2, <1>3, <3>2, <3>3
      <3>5. Len(call'[t].got) = n - (nb - m) /\ (p = "out" => Len(call'[t].got) = n)
          BY <1>2, <3>2, <3>3
      <3>6. ASSUME NEW k \in 1 .. Len(g) + m
            PROVE  off + k - 1 \in Bytes /\ call'[t].got[k] \in may[t][off + k - 1]
        <4>1. CASE k <= Len(g)
          <5>1. k \in DOMAIN g /\ call'[t].got[k] = g[k]
              BY <1>5, <3>1, <3>3, <4>1
          <5> QED
              BY <3>2, <5>1
        <4>2. CASE ~ (k <= Len(g))
          <5>1. call'[t].got[k] = data[start + (k - Len(g)) - 1]
              BY <1>5, <3>1, <4>2
          <5>2. start + (k - Len(g)) - 1 = off + k - 1
              BY <1>2, <3>3, <3>4
          <5>3. off + k - 1 \in Bytes
              BY <1>2, <1>3, <1>4, <3>3, <3>4, Numbers DEF Bytes
          <5>4. data[off + k - 1] \in may[t][off + k - 1]
              BY <1>14, <3>2, <5>3
          <5> QED
              BY <5>1, <5>2, <5>3, <5>4
        <4> QED
            BY <4>1, <4>2
      <3> QED
          BY <1>5, <1>7, <2>1, <3>2, <3>3, <3>5, <3>6 DEF Moving
    <2>2. CASE s # t
      <3>1. call'[s] = call[s] /\ pc'[s] = pc[s] /\ (Moving(s)' <=> Moving(s))
          BY <1>5, <1>7, <2>2 DEF Moving
      <3> QED
          BY <3>1 DEF ReadSoFar
    <2> QED
        BY <2>1, <2>2
  <1>16. WrittenSoFar'
    <2>1. \A s \in Threads : Changes(s)' <=> Changes(s)
        BY <1>5 DEF Changes
    <2>2. CASE c.kind = "read"
      <3>1. data' = data /\ ~ Changes(t)
          BY <1>6, <2>2 DEF Changes
      <3>2. \A s \in Threads : Changes(s) => s # t /\ call'[s] = call[s] /\ pc'[s] = pc[s]
                                             /\ Position(s)' = Position(s) /\ (Moving(s)' <=> Moving(s))
          BY <1>5, <1>7, <1>9, <3>1 DEF Moving
      <3> QED
          BY <2>1, <3>1, <3>2 DEF WrittenSoFar
    <2>3. CASE c.kind = "write"
      <3>1. Changes(t) /\ \A s \in Threads : Changes(s) => s = t
          BY <2>3 DEF Changes, OneChanger
      <3>2. ASSUME NEW i \in Bytes
            PROVE  /\ i \in off .. off + n - 1 => file[i] = c.val
                   /\ data'[i] = file[i] \/ (i \in (start + m) .. (start + nb - 1) /\ data'[i] = before[i])
        <4>1. /\ i \in off .. off + n - 1 => file[i] = c.val
              /\ data[i] = file[i] \/ (i \in start .. start + nb - 1 /\ data[i] = before[i])
            BY <1>w, <2>3
        <4>2. data'[i] = IF i \in start .. start + m - 1 THEN c.val ELSE data[i]
            BY <1>6, <2>3
        <4>3. i \in Nat
            BY DEF Bytes
        <4>4. CASE i \in start .. start + m - 1
          <5>1. i \in off .. off + n - 1
              BY <1>2, <1>3, <4>3, <4>4
          <5> QED
              BY <4>1, <4>2, <4>4, <5>1
        <4>5. CASE i \notin start .. start + m - 1
          <5>1. i \in start .. start + nb - 1 => i \in (start + m) .. (start + nb - 1)
              BY <1>2, <1>3, <4>3, <4>5
          <5> QED
              BY <4>1, <4>2, <4>5, <5>1
        <4> QED
            BY <4>4, <4>5
      <3>3. CASE p = "out"
        <4>1. m = nb
            BY <1>2, <3>3
        <4>2. \A i \in Bytes : data'[i] = file[i]
            BY <1>2, <1>3, <3>2, <4>1 DEF Bytes
        <4>3. data' = file'
            BY <1>6, <2>3, <4>2 DEF TypeOK
        <4> QED
            BY <1>7, <2>1, <3>1, <3>3, <4>3 DEF WrittenSoFar, Moving
      <3>4. CASE p = "loop"
        <4>1. Position(t)' = start + m /\ start + m + (nb - m) - 1 = start + nb - 1
            BY <1>2, <1>3, <1>8, <3>4
        <4>2. \A i \in Bytes :
                 /\ i \in call'[t].off .. call'[t].off + call'[t].n - 1 => file'[i] = call'[t].val
                 /\ \/ data'[i] = file'[i]
                    \/ i \in Position(t)' .. Position(t)' + call'[t].nbytes - 1 /\ data'[i] = before'[i]
            BY <1>5, <3>2, <4>1
        <4> QED
            BY <1>7, <2>1, <3>1, <3>4, <4>2 DEF WrittenSoFar
      <3> QED
          BY <3>3, <3>4
    <2> QED
        BY <1>2a, <2>2, <2>3
  <1>17. NothingBehind'
      BY DEF NothingBehind
  <1> QED
      BY <1>10, <1>11, <1>12, <1>13, <1>15, <1>16, <1>17

-----------------------------------------------------------------------------
(* The steps of a transfer.                                                *)

\* A process that imap2blockno() ends changes nothing any more.
LEMMA DyingInv ==
    ASSUME DataInv, err = "none", err_exit, UNCHANGED <<size, file, before, may, ncalls>>,
           lock' \in Threads \cup {Nobody}, NEW t \in Threads,
           call[t].off = MAXFILE_SIZE \/ (call[t].kind = "truncate" /\ call[t].nbytes > MAXFILE_SIZE)
    PROVE  DataInv'
  <1> USE DEF DataInv
  <1>0. /\ err' = "imap2blockno: inode too big" /\ UNCHANGED <<data, call>>
        /\ \A s \in Threads : pc'[s] = "done"
      BY DEF err_exit
  <1>1. TypeOK'
      BY <1>0 DEF TypeOK, err_exit, Labels
  <1>2. OnlyTheVeryEndDies' /\ CallsRun' /\ OneChanger'
      BY <1>0 DEF OnlyTheVeryEndDies, CallsRun, OneChanger, Changes
  <1>3. TransferInRange'
      BY <1>0 DEF TransferInRange, Moving
  <1>4. ReadSoFar'
      BY <1>0 DEF ReadSoFar, Moving
  <1>5. WrittenSoFar'
    <2>1. (\A s \in Threads : Changes(s)' => pc'[s] = "start") => \A s \in Threads : ~ Changes(s)
        BY <1>0 DEF Changes
    <2> QED
        BY <1>0, <2>1 DEF WrittenSoFar, Moving
  <1>6. NothingBehind'
      BY DEF NothingBehind
  <1> QED
      BY <1>1, <1>2, <1>3, <1>4, <1>5, <1>6

\* The first block: from off on, to its end or to that of the transfer.  Only
\* a transfer from the very end of the largest file has no such block.
LEMMA FirstBlockInv == ASSUME DataInv, NEW t \in Threads, FirstBlock(t) PROVE DataInv'
  <1> DEFINE off == call[t].off
             n == call[t].n
             nb == call[t].nbytes
             b == call[t].blockno
             left == n_left(t)
             from == off % BSIZE
             m == Less(left, nb)
  <1> USE DEF DataInv
  <1>0. pc[t] = "first" /\ Moving(t) /\ err = "none" /\ UNCHANGED <<size, file, before, may, ncalls>> /\ lock' = t
      BY DEF FirstBlock, Moving, CallsRun, TypeOK
  <1>1. /\ off \in Nat /\ n \in Nat /\ nb \in Nat /\ b \in Nat
        /\ b = off \div BSIZE /\ off + nb = off + n /\ off + n <= MAXFILE_SIZE
        /\ Position(t) = off
        /\ call \in [Threads -> CallRecords] /\ pc \in [Threads -> Labels]
      BY <1>0 DEF TransferInRange, TypeOK, CallRecords, Position
  <1>2. left = BSIZE - from
      BY DEF n_left
  <1>3. CASE TooBig(t)
    <2>1. err_exit
        BY <1>3 DEF FirstBlock
    <2>2. off = MAXFILE_SIZE
      <3>1. MAXFILE_BLOCKS <= off \div BSIZE
          BY <1>1, <1>3 DEF TooBig
      <3> HIDE DEF off, n, nb, b
      <3>2. ~ (off < MAXFILE_SIZE)
        <4> SUFFICES ASSUME off < MAXFILE_SIZE PROVE FALSE
            OBVIOUS
        <4> DEFINE x == off \div BSIZE
        <4>1. x \in Nat /\ off % BSIZE \in 0 .. (BSIZE - 1) /\ off = (off % BSIZE) + x * BSIZE
            BY <1>1, BlockOfByte
        <4> HIDE DEF x
        <4>2. x * BSIZE \in Nat
            BY <4>1, Numbers
        <4>3. x * BSIZE < MAXFILE_SIZE
            BY <1>1, <4>1, <4>2, Numbers
        <4>4. x < MAXFILE_BLOCKS
            BY <4>1, <4>3, BlockInMap
        <4> QED
            BY <3>1, <4>1, <4>4, Numbers DEF x
      <3> QED
          BY <1>1, <3>2, Numbers
    <2> QED
        BY <1>0, <1>1, <2>1, <2>2, DyingInv
  <1>4. CASE ~TooBig(t)
    <2>0. Move(t, off % BSIZE, Less(n_left(t), nb)) /\ err' = err
          /\ pc' = [pc EXCEPT ![t] = IF nb <= n_left(t) THEN "out" ELSE "loop"]
        BY <1>4 DEF FirstBlock
    <2>a. b = off \div BSIZE
        BY <1>1
    <2>b. call[t].blockno * BSIZE + from = Position(t) <=> b * BSIZE + from = off
        BY <1>1
    <2>c. (call[t].blockno + 1) * BSIZE = Position(t) + m <=> (b + 1) * BSIZE = off + m
        BY <1>1
    <2> HIDE DEF off, n, nb, b
    <2>1. from \in 0 .. (BSIZE - 1) /\ off = from + b * BSIZE
        BY <1>1, <2>a, BlockOfByte
    <2> HIDE DEF from, left
    <2>2. b * BSIZE \in Nat /\ (b + 1) * BSIZE = b * BSIZE + BSIZE
        BY <1>1, Numbers
    <2>3. left \in 1 .. BSIZE /\ m \in Nat /\ m <= nb
        BY <1>1, <1>2, <2>1, Numbers DEF Less
    <2>4. b * BSIZE + from = off
        BY <1>1, <2>1, <2>2
    <2>7. from \in Nat /\ m \in Nat /\ call[t].blockno * BSIZE + from = Position(t)
        BY <2>1, <2>3, <2>4, <2>b
    <2>8. UNCHANGED <<size, file, before, may, ncalls, err>>
        BY <1>0, <2>0
    <2>5. CASE nb <= left
      <3>1. m = nb
          BY <1>1, <2>3, <2>5, Numbers DEF Less
      <3>2. pc' = [pc EXCEPT ![t] = "out"] /\ Move(t, from, m)
          BY <2>0, <2>5 DEF left, from
      <3>3. m = call[t].nbytes /\ m <= call[t].nbytes
          BY <2>3, <3>1 DEF nb
      <3> HIDE DEF m, DataInv
      <3> QED
          BY <1>0, <2>7, <2>8, <3>2, <3>3, MoveInv
    <2>6. CASE ~ (nb <= left)
      <3>1. m = left /\ m < nb
          BY <1>1, <2>3, <2>6, Numbers DEF Less
      <3>2. pc' = [pc EXCEPT ![t] = "loop"] /\ Move(t, from, m)
          BY <2>0, <2>6 DEF left, from
      <3>3. (b + 1) * BSIZE = off + m
          BY <1>1, <1>2, <2>1, <2>2, <3>1, Numbers
      <3>5. (call[t].blockno + 1) * BSIZE = Position(t) + m
          BY <2>c, <3>3
      <3>4. m < call[t].nbytes /\ m <= call[t].nbytes
          BY <2>3, <3>1 DEF nb
      <3> HIDE DEF m, DataInv
      <3> QED
          BY <1>0, <2>7, <2>8, <3>2, <3>4, <3>5, MoveInv
    <2> QED
        BY <2>5, <2>6
  <1> QED
      BY <1>3, <1>4

\* A step that moves no byte: at the end of the loop, at the unlock, and where
\* a transfer gives its lock up.
LEMMA QuietInv ==
    ASSUME DataInv, err = "none", NEW t \in Threads, NEW q \in Labels, pc' = [pc EXCEPT ![t] = q],
           lock' \in Threads \cup {Nobody}, UNCHANGED <<data, size, call, file, before, may, ncalls, err>>,
           \/ pc[t] = q
           \/ pc[t] = "loop" /\ q = "last" /\ call[t].nbytes <= BSIZE
           \/ pc[t] = "out" /\ q = "done"
    PROVE  DataInv'
  <1> USE DEF DataInv
  <1>1. pc \in [Threads -> Labels] /\ pc'[t] = q /\ \A s \in Threads \ {t} : pc'[s] = pc[s]
      BY DEF TypeOK
  <1>2. \A s \in Threads : /\ Moving(s)' <=> Moving(s)
                           /\ Moving(s) => Position(s)' = Position(s)
                           /\ pc'[s] = "start" <=> pc[s] = "start"
                           /\ pc'[s] = "idle" <=> pc[s] = "idle"
                           /\ pc'[s] = "first" <=> pc[s] = "first"
                           /\ pc'[s] \in {"out", "done"} <=> pc[s] \in {"out", "done"}
                           /\ pc'[s] = "last" => pc[s] = "last" \/ call[s].nbytes <= BSIZE
      BY <1>1 DEF Moving, Position
  <1>3. TypeOK'
      BY <1>1 DEF TypeOK
  <1>4. OnlyTheVeryEndDies' /\ CallsRun' /\ OneChanger' /\ NothingBehind'
      BY <1>2 DEF OnlyTheVeryEndDies, CallsRun, OneChanger, Changes, NothingBehind
  <1>5. TransferInRange'
      BY <1>2 DEF TransferInRange
  <1>6. ReadSoFar'
      BY <1>2 DEF ReadSoFar
  <1>7. WrittenSoFar'
      BY <1>2 DEF WrittenSoFar, Changes
  <1> QED
      BY <1>3, <1>4, <1>5, <1>6, <1>7

\* A transfer with bytes left is at a block of the map.
LEMMA NextBlock ==
    ASSUME DataInv, NEW t \in Threads, pc[t] \in {"loop", "last"}
    PROVE  /\ Moving(t) /\ ~ TooBig(t) /\ err = "none"
           /\ call[t].nbytes \in Nat /\ call[t].blockno \in Nat
           /\ call[t].blockno * BSIZE \in Nat
           /\ Position(t) = call[t].blockno * BSIZE
  <1> DEFINE b == call[t].blockno
             nb == call[t].nbytes
             e == call[t].off + call[t].n
  <1>1. Moving(t) /\ err = "none"
      BY DEF DataInv, Moving, CallsRun
  <1>2. /\ b \in Nat /\ nb \in Nat /\ nb > 0 /\ e <= MAXFILE_SIZE /\ e \in Nat
        /\ Position(t) = b * BSIZE /\ b * BSIZE + nb = e
      BY <1>1 DEF DataInv, TypeOK, CallRecords, TransferInRange, Position
  <1>3. ~ (b >= MAXFILE_BLOCKS) /\ b * BSIZE \in Nat
    <2> HIDE DEF b, nb, e
    <2>1. b * BSIZE \in Nat
        BY <1>2, Numbers
    <2>2. b * BSIZE < MAXFILE_SIZE
        BY <1>2, <2>1, Numbers
    <2>3. b < MAXFILE_BLOCKS
        BY <1>2, <2>2, BlockInMap
    <2> QED
        BY <1>2, <2>1, <2>3, Numbers
  <1> QED
      BY <1>1, <1>2, <1>3 DEF TooBig

\* The loop moves a whole block or leaves what is left to the last one.
LEMMA LoopInv == ASSUME DataInv, NEW t \in Threads, Loop(t) PROVE DataInv'
  <1>1. pc[t] = "loop" /\ lock' = t /\ UNCHANGED <<size, file, before, may, ncalls>>
      BY DEF Loop
  <1>2. /\ Moving(t) /\ ~ TooBig(t) /\ err = "none" /\ pc \in [Threads -> Labels]
        /\ call[t].nbytes \in Nat /\ call[t].blockno \in Nat /\ call[t].blockno * BSIZE \in Nat
        /\ Position(t) = call[t].blockno * BSIZE
      BY <1>1, NextBlock DEF DataInv, TypeOK
  <1>3. CASE MoreBlocks(t)
    <2>1. Move(t, 0, BSIZE) /\ pc' = [pc EXCEPT ![t] = "loop"] /\ err' = err
        BY <1>1, <1>2, <1>3 DEF Loop
    <2>2. BSIZE \in Nat /\ BSIZE < call[t].nbytes /\ BSIZE <= call[t].nbytes
        BY <1>2, <1>3, Numbers DEF MoreBlocks
    <2>3. call[t].blockno * BSIZE + 0 = Position(t)
        BY <1>2
    <2>4. (call[t].blockno + 1) * BSIZE = Position(t) + BSIZE
      <3> DEFINE b == call[t].blockno
      <3> SUFFICES (b + 1) * BSIZE = b * BSIZE + BSIZE
          BY <1>2
      <3>1. b \in Nat
          BY <1>2
      <3> HIDE DEF b
      <3> QED
          BY <3>1, Numbers
    <2>5. UNCHANGED <<size, file, before, may, ncalls, err>>
        BY <1>1, <2>1
    <2> QED
        BY <1>1, <1>2, <2>1, <2>2, <2>3, <2>4, <2>5, MoveInv
  <1>4. CASE ~ MoreBlocks(t)
    <2>1. pc' = [pc EXCEPT ![t] = "last"] /\ UNCHANGED <<data, call, err>>
        BY <1>4 DEF Loop
    <2>2. call[t].nbytes <= BSIZE
        BY <1>2, <1>4, Numbers DEF MoreBlocks
    <2>3. UNCHANGED <<data, size, call, file, before, may, ncalls, err>> /\ "last" \in Labels
          /\ lock' \in Threads \cup {Nobody}
        BY <1>1, <2>1 DEF Labels
    <2> QED
        BY <1>1, <1>2, <2>1, <2>2, <2>3, QuietInv
  <1> QED
      BY <1>3, <1>4

\* The last block takes all that is left.
LEMMA LastBlockInv == ASSUME DataInv, NEW t \in Threads, LastBlock(t) PROVE DataInv'
  <1>1. pc[t] = "last" /\ lock' = t /\ UNCHANGED <<size, file, before, may, ncalls>>
      BY DEF LastBlock
  <1>2. /\ Moving(t) /\ ~ TooBig(t) /\ err = "none"
        /\ call[t].nbytes \in Nat /\ call[t].blockno \in Nat /\ call[t].blockno * BSIZE \in Nat
        /\ Position(t) = call[t].blockno * BSIZE
      BY <1>1, NextBlock
  <1>3. Move(t, 0, call[t].nbytes) /\ pc' = [pc EXCEPT ![t] = "out"] /\ err' = err
      BY <1>2 DEF LastBlock
  <1>4. call[t].blockno * BSIZE + 0 = Position(t) /\ call[t].nbytes <= call[t].nbytes
      BY <1>2
  <1>5. UNCHANGED <<size, file, before, may, ncalls, err>>
      BY <1>1, <1>3
  <1> QED
      BY <1>1, <1>2, <1>3, <1>4, <1>5, MoveInv

\* A transfer that restarts its operation gives its lock up and nothing else.
LEMMA RestartInv == ASSUME DataInv, NEW t \in Threads, restart_op_on(t) PROVE DataInv'
  <1>1. /\ pc[t] \in {"first", "loop", "last"} /\ lock' = Nobody /\ pc' = pc
        /\ UNCHANGED <<data, size, call, file, before, may, ncalls, err>>
      BY DEF restart_op_on
  <1>2. pc \in [Threads -> Labels] /\ err = "none"
      BY <1>1 DEF DataInv, TypeOK, CallsRun
  <1>3. pc' = [pc EXCEPT ![t] = pc[t]] /\ pc[t] \in Labels /\ lock' \in Threads \cup {Nobody}
      BY <1>1, <1>2
  <1> QED
      BY <1>1, <1>2, <1>3, QuietInv

LEMMA UnlockInv == ASSUME DataInv, NEW t \in Threads, Unlock(t) PROVE DataInv'
  <1>1. /\ pc[t] = "out" /\ lock' = Nobody /\ pc' = [pc EXCEPT ![t] = "done"]
        /\ UNCHANGED <<data, size, call, file, before, may, ncalls, err>>
      BY DEF Unlock
  <1>2. err = "none"
      BY <1>1 DEF DataInv, CallsRun
  <1>3. "done" \in Labels /\ lock' \in Threads \cup {Nobody}
      BY <1>1 DEF Labels
  <1> QED
      BY <1>1, <1>2, <1>3, QuietInv

-----------------------------------------------------------------------------
(* The ends of the calls.                                                  *)

LEMMA InitInv == ASSUME Init PROVE DataInv
  <1>0. /\ data = Zeros /\ size = 0 /\ lock = Nobody /\ file = Zeros /\ before = Zeros
        /\ pc = [t \in Threads |-> "idle"] /\ call = [t \in Threads |-> NoCall]
        /\ may = [t \in Threads |-> NoMay] /\ ncalls = 0 /\ err = "none"
      BY DEF Init
  <1>1. NoCall \in CallRecords /\ NoCall.kind = "none"
      BY DEF NoCall, CallRecords, Values
  <1>2. Zeros \in [Bytes -> Values] /\ NoMay \in [Bytes -> SUBSET Values] /\ "idle" \in Labels
      BY DEF Zeros, NoMay, Values, Labels
  <1>3. \A t \in Threads : pc[t] = "idle" /\ call[t] = NoCall
      BY <1>0
  <1>4. TypeOK
      BY <1>0, <1>1, <1>2, Numbers DEF TypeOK
  <1>5. OnlyTheVeryEndDies /\ CallsRun /\ OneChanger
      BY <1>0, <1>1, <1>3 DEF OnlyTheVeryEndDies, CallsRun, OneChanger, Changes
  <1>6. TransferInRange /\ ReadSoFar
      BY <1>1, <1>3 DEF TransferInRange, ReadSoFar, Moving
  <1>7. WrittenSoFar /\ NothingBehind
      BY <1>0, <1>1, <1>3 DEF WrittenSoFar, NothingBehind, Changes, Zeros
  <1> QED
      BY <1>4, <1>5, <1>6, <1>7 DEF DataInv

\* A call begins, and has done nothing yet.
LEMMA CallInv ==
    ASSUME DataInv, NEW t \in Threads, NEW kind \in {"read", "write", "truncate"},
           NEW off \in Nat, NEW nbytes \in Nat, NEW val \in Values, Call(t, kind, off, nbytes, val)
    PROVE  DataInv'
  <1> USE DEF DataInv
  <1> DEFINE c == [NoCall EXCEPT !.kind = kind, !.off = off, !.nbytes = nbytes, !.n = nbytes, !.val = val]
  <1>0. /\ pc[t] = "idle" /\ pc' = [pc EXCEPT ![t] = "start"] /\ call' = [call EXCEPT ![t] = c]
        /\ ncalls' = ncalls + 1 /\ UNCHANGED <<data, size, lock, file, before, may, err>>
        /\ MayCall(kind)
      BY DEF Call
  <1>1. c \in CallRecords /\ c.kind = kind /\ c.got = <<>>
    <2>1. NoCall \in CallRecords /\ NoCall.got = <<>>
        BY DEF NoCall, CallRecords, Values
    <2> QED
        BY <2>1 DEF CallRecords
  <1> HIDE DEF c
  <1>2. err = "none" /\ call[t].kind = "none"
      BY <1>0 DEF CallsRun
  <1>3. /\ call' \in [Threads -> CallRecords] /\ pc' \in [Threads -> Labels]
        /\ pc'[t] = "start" /\ call'[t] = c
        /\ \A s \in Threads \ {t} : pc'[s] = pc[s] /\ call'[s] = call[s]
      BY <1>0, <1>1 DEF TypeOK, Labels
  <1>4. TypeOK'
    <2>0. ncalls \in Nat
        BY DEF TypeOK
    <2>1. ncalls + 1 \in Nat
        BY <2>0
    <2> QED
        BY <1>0, <1>3, <2>1 DEF TypeOK
  <1>5. OnlyTheVeryEndDies' /\ CallsRun' /\ NothingBehind'
      BY <1>0, <1>1, <1>2, <1>3 DEF OnlyTheVeryEndDies, CallsRun, NothingBehind
  <1>6. OneChanger'
      BY <1>0, <1>1, <1>3 DEF OneChanger, Changes, MayCall
  <1>7. \A s \in Threads \ {t} : (Moving(s)' <=> Moving(s)) /\ Position(s)' = Position(s)
      BY <1>3 DEF Moving, Position
  <1>8. TransferInRange'
    <2>1. ~ Moving(t)'
        BY <1>3 DEF Moving
    <2> QED
        BY <1>3, <1>7, <2>1 DEF TransferInRange
  <1>9. ReadSoFar'
    <2>1. ~ Moving(t)' /\ DOMAIN call'[t].got = {}
        BY <1>1, <1>3 DEF Moving
    <2> QED
        BY <1>0, <1>1, <1>3, <1>7, <2>1 DEF ReadSoFar
  <1>10. WrittenSoFar'
    <2>1. /\ ~ Changes(t) /\ \A s \in Threads \ {t} : Changes(s)' <=> Changes(s)
          /\ Changes(t)' => \A s \in Threads : ~ Changes(s)
        BY <1>0, <1>1, <1>2, <1>3 DEF Changes, MayCall
    <2>2. (\A s \in Threads : Changes(s)' => pc'[s] = "start") => data = file /\ before = file
        BY <1>3, <2>1 DEF WrittenSoFar
    <2>3. ~ Moving(t)' /\ pc'[t] = "start"
        BY <1>3 DEF Moving
    <2> QED
        BY <1>0, <1>3, <1>7, <2>1, <2>2, <2>3 DEF WrittenSoFar
  <1> QED
      BY <1>4, <1>5, <1>6, <1>8, <1>9, <1>10

\* A change of the file is seen by the reads that run beside it.
LEMMA ReadersKept ==
    ASSUME TypeOK, ReadSoFar, NEW new \in [Bytes -> Values], Change(new), UNCHANGED <<before, err>>,
           \A s \in Threads : call[s].kind = "read" => call'[s] = call[s] /\ pc'[s] = pc[s],
           \A s \in Threads : call'[s].kind = "read" => call[s].kind = "read"
    PROVE  file' = new /\ may' \in [Threads -> [Bytes -> SUBSET Values]] /\ ReadSoFar'
  <1>1. /\ file' = new
        /\ may' = [s \in Threads |-> IF call[s].kind = "read" /\ pc[s] # "start"
                                     THEN [i \in Bytes |-> may[s][i] \cup {new[i]}] ELSE may[s]]
      BY DEF Change
  <1>2. may \in [Threads -> [Bytes -> SUBSET Values]] /\ call \in [Threads -> CallRecords]
      BY DEF TypeOK
  <1>3. may' \in [Threads -> [Bytes -> SUBSET Values]]
      BY <1>1, <1>2
  <1>4. \A s \in Threads, i \in Bytes : may[s][i] \subseteq may'[s][i]
      BY <1>1, <1>2
  <1>5. \A s \in Threads, i \in Bytes : call[s].kind = "read" /\ pc[s] # "start" => new[i] \in may'[s][i]
      BY <1>1
  <1>6. ASSUME NEW s \in Threads, call'[s].kind = "read"
        PROVE  /\ pc'[s] = "start" => call'[s].got = <<>>
               /\ Moving(s)' => Len(call'[s].got) = call'[s].n - call'[s].nbytes
               /\ pc'[s] \in {"out", "done"} /\ err' = "none" => Len(call'[s].got) = call'[s].n
               /\ \A k \in DOMAIN call'[s].got : /\ call'[s].off + k - 1 \in Bytes
                                                 /\ call'[s].got[k] \in may'[s][call'[s].off + k - 1]
               /\ Moving(s)' => \A i \in Bytes : {file'[i], before'[i]} \subseteq may'[s][i]
    <2>1. call[s].kind = "read" /\ call'[s] = call[s] /\ pc'[s] = pc[s]
        BY <1>6
    <2>2. (Moving(s)' <=> Moving(s)) /\ (Moving(s) => pc[s] # "start")
        BY <2>1 DEF Moving
    <2>3. \A k \in DOMAIN call[s].got : /\ call[s].off + k - 1 \in Bytes
                                        /\ call[s].got[k] \in may'[s][call[s].off + k - 1]
        BY <1>4, <2>1 DEF ReadSoFar
    <2>4. Moving(s) => \A i \in Bytes : {file'[i], before'[i]} \subseteq may'[s][i]
        BY <1>1, <1>4, <1>5, <2>1, <2>2 DEF ReadSoFar
    <2> QED
        BY <2>1, <2>2, <2>3, <2>4 DEF ReadSoFar
  <1> QED
      BY <1>1, <1>3, <1>6 DEF ReadSoFar

\* Before a change of its own starts, its thread sees the blocks as the calls
\* so far left them.
LEMMA NothingChanged ==
    ASSUME DataInv, NEW t \in Threads, Changes(t), pc[t] = "start"
    PROVE  data = file /\ before = file /\ err = "none" /\ \A s \in Threads : Changes(s) => s = t
  BY DEF DataInv, OneChanger, WrittenSoFar, CallsRun

\* A write starts: its bytes are to be in the file, and no further than the
\* largest file goes.
LEMMA StartWriteInv == ASSUME DataInv, NEW t \in Threads, StartWrite(t) PROVE DataInv'
  <1> USE DEF DataInv
  <1> DEFINE off == call[t].off
             nb == call[t].nbytes
             n == WriteLength(call[t])
             v == call[t].val
  <1>0. /\ pc[t] = "start" /\ call[t].kind = "write" /\ lock' = t
        /\ UNCHANGED <<data, before, ncalls, err>>
      BY DEF StartWrite, Lock
  <1>1. /\ call \in [Threads -> CallRecords] /\ call[t] \in CallRecords /\ pc \in [Threads -> Labels]
        /\ size \in 0 .. MAXFILE_SIZE /\ file \in [Bytes -> Values]
      BY DEF TypeOK
  <1>2. off \in Nat /\ nb \in Nat /\ v \in Values
      BY <1>1 DEF CallRecords
  <1>3. data = file /\ before = file /\ err = "none" /\ Changes(t) /\ \A s \in Threads : Changes(s) => s = t
      BY <1>0, NothingChanged DEF Changes
  <1>4. CASE off > MAXFILE_SIZE
    <2>1. /\ pc' = [pc EXCEPT ![t] = "out"] /\ call' = [call EXCEPT ![t].n = 0]
          /\ UNCHANGED <<size, file, may>>
        BY <1>4 DEF StartWrite
    <2>2. /\ call' \in [Threads -> CallRecords] /\ pc' \in [Threads -> Labels]
          /\ pc'[t] = "out" /\ call'[t].kind = "write"
          /\ \A s \in Threads \ {t} : pc'[s] = pc[s] /\ call'[s] = call[s]
        BY <1>0, <1>1, <2>1 DEF Labels, CallRecords
    <2>3. /\ \A s \in Threads : Changes(s)' <=> Changes(s)
          /\ \A s \in Threads \ {t} : (Moving(s)' <=> Moving(s)) /\ Position(s)' = Position(s)
          /\ ~ Moving(t)'
        BY <1>0, <2>2 DEF Changes, Moving, Position
    <2>4. TypeOK'
        BY <1>0, <2>1, <2>2 DEF TypeOK
    <2>5. OnlyTheVeryEndDies' /\ CallsRun' /\ OneChanger' /\ NothingBehind'
        BY <1>0, <1>3, <2>1, <2>2, <2>3 DEF OnlyTheVeryEndDies, CallsRun, OneChanger, NothingBehind
    <2>6. TransferInRange'
        BY <2>2, <2>3 DEF TransferInRange
    <2>7. ReadSoFar'
        BY <1>0, <2>1, <2>2, <2>3 DEF ReadSoFar
    <2>8. WrittenSoFar'
        BY <1>0, <1>3, <2>1, <2>2, <2>3 DEF WrittenSoFar
    <2> QED
        BY <2>4, <2>5, <2>6, <2>7, <2>8
  <1>5. CASE ~ (off > MAXFILE_SIZE)
    <2> DEFINE new == [i \in Bytes |-> IF i \in off .. off + n - 1 THEN v ELSE file[i]]
    <2>1. /\ pc' = [pc EXCEPT ![t] = "first"]
          /\ call' = [call EXCEPT ![t].nbytes = n, ![t].n = n, ![t].blockno = off \div BSIZE]
          /\ size' = IF size < off + n THEN off + n ELSE size
          /\ Change(new)
        BY <1>5 DEF StartWrite
    <2>2. n \in Nat /\ off + n <= MAXFILE_SIZE /\ off \div BSIZE \in Nat
      <3>1. n = IF off + nb > MAXFILE_SIZE THEN MAXFILE_SIZE - off ELSE nb
          BY DEF WriteLength
      <3>2. off \div BSIZE \in Nat
          BY <1>2, BlockOfByte
      <3> HIDE DEF off, nb, n
      <3> QED
          BY <1>2, <1>5, <3>1, <3>2, Numbers
    <2> HIDE DEF n
    <2>3. /\ call' \in [Threads -> CallRecords] /\ pc' \in [Threads -> Labels]
          /\ pc'[t] = "first" /\ call'[t].kind = "write" /\ call'[t].off = off /\ call'[t].val = v
          /\ call'[t].nbytes = n /\ call'[t].n = n /\ call'[t].blockno = off \div BSIZE
          /\ \A s \in Threads \ {t} : pc'[s] = pc[s] /\ call'[s] = call[s]
      <3>1. call'[t] = [call[t] EXCEPT !.nbytes = n, !.n = n, !.blockno = off \div BSIZE]
          BY <1>1, <2>1
      <3>2. call'[t] \in CallRecords
          BY <1>1, <2>2, <3>1 DEF CallRecords
      <3>3. call' \in [Threads -> CallRecords] /\ \A s \in Threads \ {t} : call'[s] = call[s]
          BY <1>1, <2>1, <3>2
      <3> QED
          BY <1>0, <1>1, <2>1, <3>1, <3>3 DEF Labels, CallRecords
    <2>4. /\ \A s \in Threads : Changes(s)' <=> Changes(s)
          /\ \A s \in Threads \ {t} : (Moving(s)' <=> Moving(s)) /\ Position(s)' = Position(s)
          /\ Moving(t)' /\ Position(t)' = off
        BY <1>0, <2>3 DEF Changes, Moving, Position
    <2>5. new \in [Bytes -> Values]
        BY <1>1, <1>2
    <2>6. file' = new /\ may' \in [Threads -> [Bytes -> SUBSET Values]] /\ ReadSoFar'
      <3>1. /\ \A s \in Threads : call[s].kind = "read" => call'[s] = call[s] /\ pc'[s] = pc[s]
            /\ \A s \in Threads : call'[s].kind = "read" => call[s].kind = "read"
          BY <1>0, <2>3
      <3> HIDE DEF new
      <3> QED
          BY <1>0, <2>1, <2>5, <3>1, ReadersKept
    <2>7. size' \in 0 .. MAXFILE_SIZE /\ size <= size' /\ off + n <= size'
      <3> HIDE DEF off
      <3> QED
          BY <1>1, <1>2, <2>1, <2>2, Numbers
    <2>8. TypeOK'
        BY <1>0, <2>3, <2>5, <2>6, <2>7 DEF TypeOK
    <2>9. OnlyTheVeryEndDies' /\ CallsRun' /\ OneChanger'
        BY <1>0, <1>3, <2>3, <2>4 DEF OnlyTheVeryEndDies, CallsRun, OneChanger
    <2>10. NothingBehind'
      <3> SUFFICES ASSUME NEW i \in Bytes, file'[i] # 0 PROVE i < ROUNDUP(size')
          BY DEF NothingBehind
      <3>1. file'[i] = IF i \in off .. off + n - 1 THEN v ELSE file[i]
          BY <2>6
      <3>2. /\ size \in Nat /\ size' \in Nat /\ ROUNDUP(size) \in Nat /\ ROUNDUP(size') \in Nat
            /\ ROUNDUP(size) <= ROUNDUP(size') /\ size' <= ROUNDUP(size')
          BY <1>1, <2>7, RoundUp, Numbers
      <3>3. CASE i \in off .. off + n - 1
        <4> HIDE DEF off
        <4> QED
            BY <1>2, <2>2, <2>7, <3>2, <3>3
      <3>4. CASE i \notin off .. off + n - 1
        <4>1. i < ROUNDUP(size)
            BY <3>1, <3>4 DEF NothingBehind
        <4> QED
            BY <3>2, <4>1 DEF Bytes
      <3> QED
          BY <3>3, <3>4
    <2>11. TransferInRange'
      <3>1. n <= n /\ off + n = off + n
          BY <2>2
      <3> QED
          BY <2>2, <2>3, <2>4, <3>1 DEF TransferInRange
    <2>12. WrittenSoFar'
      <3>1. \A i \in Bytes : /\ i \in off .. off + n - 1 => file'[i] = v
                             /\ \/ data'[i] = file'[i]
                                \/ i \in off .. off + n - 1 /\ data'[i] = before'[i]
          BY <1>0, <1>3, <2>6
      <3>2. \A i \in Bytes :
                 /\ i \in call'[t].off .. call'[t].off + call'[t].n - 1 => file'[i] = call'[t].val
                 /\ \/ data'[i] = file'[i]
                    \/ i \in Position(t)' .. Position(t)' + call'[t].nbytes - 1 /\ data'[i] = before'[i]
          BY <2>3, <2>4, <3>1
      <3> QED
          BY <1>3, <2>3, <2>4, <3>2 DEF WrittenSoFar
    <2> QED
        BY <2>6, <2>8, <2>9, <2>10, <2>11, <2>12
  <1> QED
      BY <1>4, <1>5

\* A read starts: it may see each byte as it is in the file, or as it was
\* before the change that is under way.
LEMMA StartReadInv == ASSUME DataInv, NEW t \in Threads, StartRead(t) PROVE DataInv'
  <1> USE DEF DataInv
  <1> DEFINE off == call[t].off
             nb == call[t].nbytes
             n == IF off + nb > size THEN size - off ELSE nb
             d == off \div BSIZE
  <1>0. /\ pc[t] = "start" /\ call[t].kind = "read" /\ lock' = t
        /\ may' = [may EXCEPT ![t] = [i \in Bytes |-> {file[i], before[i]}]]
        /\ UNCHANGED <<data, size, file, before, ncalls, err>>
      BY DEF StartRead, Lock
  <1>1. /\ call \in [Threads -> CallRecords] /\ call[t] \in CallRecords /\ pc \in [Threads -> Labels]
        /\ size \in 0 .. MAXFILE_SIZE /\ file \in [Bytes -> Values] /\ before \in [Bytes -> Values]
        /\ may \in [Threads -> [Bytes -> SUBSET Values]]
      BY DEF TypeOK
  <1>2. off \in Nat /\ nb \in Nat /\ d \in Nat
      BY <1>1, BlockOfByte DEF CallRecords
  <1>3. err = "none" /\ call[t].got = <<>>
      BY <1>0 DEF CallsRun, ReadSoFar
  <1>4. /\ may' \in [Threads -> [Bytes -> SUBSET Values]]
        /\ \A i \in Bytes : {file[i], before[i]} \subseteq may'[t][i]
        /\ \A s \in Threads \ {t} : may'[s] = may[s]
      BY <1>0, <1>1
  <1>5. ASSUME NEW p \in {"out", "first"},
               pc' = [pc EXCEPT ![t] = p],
               call' \in [Threads -> CallRecords],
               \A s \in Threads \ {t} : call'[s] = call[s],
               call'[t].kind = "read", call'[t].got = <<>>,
               p = "out" => call'[t].n = 0,
               p = "first" => /\ call'[t].off + call'[t].n <= MAXFILE_SIZE /\ call'[t].n = call'[t].nbytes
                              /\ call'[t].blockno = call'[t].off \div BSIZE
        PROVE  DataInv'
    <2>1. /\ pc' \in [Threads -> Labels] /\ pc'[t] = p /\ \A s \in Threads \ {t} : pc'[s] = pc[s]
          /\ call'[t].n \in Nat /\ call'[t].off \in Nat /\ call'[t].nbytes \in Nat
        BY <1>1, <1>5 DEF Labels, CallRecords
    <2>2. /\ \A s \in Threads : Changes(s)' <=> Changes(s)
          /\ ~ Changes(t)
          /\ \A s \in Threads \ {t} : (Moving(s)' <=> Moving(s)) /\ Position(s)' = Position(s)
          /\ Moving(t)' => p = "first" /\ Position(t)' = call'[t].off
        BY <1>0, <1>5, <2>1 DEF Changes, Moving, Position
    <2>3. TypeOK'
        BY <1>0, <1>4, <1>5, <2>1 DEF TypeOK
    <2>4. OnlyTheVeryEndDies' /\ CallsRun' /\ OneChanger' /\ NothingBehind'
        BY <1>0, <1>3, <1>5, <2>1, <2>2 DEF OnlyTheVeryEndDies, CallsRun, OneChanger, NothingBehind
    <2>5. TransferInRange'
      <3>1. ASSUME Moving(t)'
            PROVE  /\ Position(t)' + call'[t].nbytes = call'[t].off + call'[t].n
                   /\ call'[t].nbytes <= call'[t].n /\ call'[t].off + call'[t].n <= MAXFILE_SIZE
                   /\ call'[t].blockno = call'[t].off \div BSIZE /\ pc'[t] = "first"
        <4> DEFINE x == call'[t].n
        <4>1. x \in Nat /\ call'[t].nbytes = x /\ Position(t)' = call'[t].off /\ p = "first"
            BY <1>5, <2>1, <2>2, <3>1
        <4>2. x <= x
            BY <4>1
        <4> QED
            BY <1>5, <2>1, <4>1, <4>2
      <3>2. \A s \in Threads \ {t} : Moving(s)' => Moving(s) /\ call'[s] = call[s] /\ pc'[s] = pc[s]
                                                   /\ Position(s)' = Position(s)
          BY <1>5, <2>1, <2>2
      <3> QED
          BY <1>5, <3>1, <3>2 DEF TransferInRange
    <2>6. ReadSoFar'
      <3>1. Len(call'[t].got) = 0 /\ DOMAIN call'[t].got = {}
          BY <1>5
      <3>2. call'[t].n - call'[t].n = 0
          BY <2>1
      <3> QED
          BY <1>0, <1>4, <1>5, <2>1, <2>2, <3>1, <3>2 DEF ReadSoFar
    <2>7. WrittenSoFar'
      <3>1. \A s \in Threads : Changes(s) => s # t /\ call'[s] = call[s] /\ pc'[s] = pc[s]
                                             /\ Position(s)' = Position(s) /\ (Moving(s)' <=> Moving(s))
          BY <1>5, <2>1, <2>2
      <3> QED
          BY <1>0, <2>2, <3>1 DEF WrittenSoFar
    <2> QED
        BY <2>3, <2>4, <2>5, <2>6, <2>7
  <1>6. CASE off > size
    <2>1. pc' = [pc EXCEPT ![t] = "out"] /\ call' = [call EXCEPT ![t].n = 0]
        BY <1>6 DEF StartRead
    <2>2. /\ call' \in [Threads -> CallRecords] /\ call'[t].kind = "read" /\ call'[t].got = <<>>
          /\ call'[t].n = 0 /\ \A s \in Threads \ {t} : call'[s] = call[s]
        BY <1>0, <1>1, <1>3, <2>1 DEF CallRecords
    <2> QED
        BY <1>5, <2>1, <2>2
  <1>7. CASE ~ (off > size)
    <2>1. /\ pc' = [pc EXCEPT ![t] = "first"]
          /\ call' = [call EXCEPT ![t].nbytes = n, ![t].n = n, ![t].blockno = d]
        BY <1>7 DEF StartRead
    <2>2. n \in Nat /\ off + n <= MAXFILE_SIZE
      <3> HIDE DEF off, nb
      <3> QED
          BY <1>1, <1>2, <1>7, Numbers
    <2> HIDE DEF n
    <2>3. call'[t] = [call[t] EXCEPT !.nbytes = n, !.n = n, !.blockno = d]
        BY <1>1, <2>1
    <2>4. call'[t] \in CallRecords
        BY <1>1, <1>2, <2>2, <2>3 DEF CallRecords
    <2>5. call' \in [Threads -> CallRecords] /\ \A s \in Threads \ {t} : call'[s] = call[s]
        BY <1>1, <2>1, <2>4
    <2>6. /\ call'[t].kind = "read" /\ call'[t].got = <<>> /\ call'[t].off = off /\ call'[t].n = n
          /\ call'[t].nbytes = n /\ call'[t].blockno = off \div BSIZE
        BY <1>0, <1>1, <1>3, <2>3 DEF CallRecords
    <2> QED
        BY <1>5, <2>1, <2>2, <2>5, <2>6
  <1> QED
      BY <1>6, <1>7

\* A truncation frees the blocks behind the new end, and is over.
LEMMA TruncInv == ASSUME DataInv, NEW t \in Threads, itrunc2size(t) PROVE DataInv'
  <1> USE DEF DataInv
  <1> DEFINE n == call[t].nbytes
             Cut(bytes) == [i \in Bytes |-> IF i >= ROUNDUP(n) THEN 0 ELSE bytes[i]]
  <1>0. pc[t] = "start" /\ call[t].kind = "truncate" /\ UNCHANGED <<lock, before, ncalls>>
      BY DEF itrunc2size
  <1>1. /\ call \in [Threads -> CallRecords] /\ pc \in [Threads -> Labels] /\ n \in Nat
        /\ size \in 0 .. MAXFILE_SIZE /\ file \in [Bytes -> Values] /\ lock \in Threads \cup {Nobody}
      BY DEF TypeOK, CallRecords
  <1>2. data = file /\ before = file /\ err = "none" /\ Changes(t) /\ \A s \in Threads : Changes(s) => s = t
      BY <1>0, NothingChanged DEF Changes
  <1>3. CASE n > MAXFILE_SIZE
    <2>1. err_exit /\ UNCHANGED <<size, file, may>>
        BY <1>3 DEF itrunc2size
    <2>2. UNCHANGED <<size, file, before, may, ncalls>> /\ lock' \in Threads \cup {Nobody}
        BY <1>0, <1>1, <2>1
    <2> QED
        BY <1>0, <1>2, <1>3, <2>1, <2>2, DyingInv
  <1>4. CASE ~ (n > MAXFILE_SIZE)
    <2>1. size' = n /\ pc' = [pc EXCEPT ![t] = "done"] /\ UNCHANGED <<call, err>>
        BY <1>4 DEF itrunc2size
    <2>2. n < size => data' = Cut(data) /\ Change(Cut(file))
        BY <1>4 DEF itrunc2size
    <2>3. ~ (n < size) => UNCHANGED <<data, file, may>>
        BY <1>4 DEF itrunc2size
    <2>4. n \in 0 .. MAXFILE_SIZE
      <3> HIDE DEF n
      <3> QED
          BY <1>1, <1>4, Numbers
    <2>5. /\ pc' \in [Threads -> Labels] /\ pc'[t] = "done" /\ \A s \in Threads \ {t} : pc'[s] = pc[s]
        BY <1>1, <2>1 DEF Labels
    <2>6. /\ \A s \in Threads : Changes(s)' <=> Changes(s)
          /\ \A s \in Threads \ {t} : (Moving(s)' <=> Moving(s)) /\ Position(s)' = Position(s)
          /\ ~ Moving(t)'
        BY <2>1, <2>5 DEF Changes, Moving, Position
    <2>7. /\ data' = file' /\ file' \in [Bytes -> Values] /\ ReadSoFar'
          /\ may' \in [Threads -> [Bytes -> SUBSET Values]]
          /\ \A i \in Bytes : file'[i] # 0 => i < ROUNDUP(n)
      <3>1. CASE n < size
        <4>1. Cut(file) \in [Bytes -> Values] /\ \A i \in Bytes : Cut(file)[i] # 0 => ~ (i >= ROUNDUP(n))
            BY <1>1 DEF Values
        <4>2. /\ \A s \in Threads : call[s].kind = "read" => call'[s] = call[s] /\ pc'[s] = pc[s]
              /\ \A s \in Threads : call'[s].kind = "read" => call[s].kind = "read"
            BY <1>0, <2>1, <2>5
        <4>3. data' = Cut(file) /\ Change(Cut(file))
            BY <1>2, <2>2, <3>1
        <4>4. ROUNDUP(n) \in Nat
            BY <1>1, RoundUp
        <4> HIDE DEF Cut
        <4>5. file' = Cut(file) /\ may' \in [Threads -> [Bytes -> SUBSET Values]] /\ ReadSoFar'
            BY <1>0, <2>1, <4>1, <4>2, <4>3, ReadersKept
        <4>6. \A i \in Bytes : file'[i] # 0 => i < ROUNDUP(n)
            BY <4>1, <4>4, <4>5 DEF Bytes
        <4> QED
            BY <4>1, <4>3, <4>5, <4>6
      <3>2. CASE ~ (n < size)
        <4>1. data' = data /\ file' = file /\ may' = may
            BY <2>3, <3>2
        <4>2. size <= n /\ size \in Nat
          <5> HIDE DEF n
          <5> QED
              BY <1>1, <3>2, Numbers
        <4>3. ROUNDUP(size) <= ROUNDUP(n) /\ ROUNDUP(size) \in Nat /\ ROUNDUP(n) \in Nat
            BY <1>1, <4>2, RoundUp
        <4>4. \A i \in Bytes : file'[i] # 0 => i < ROUNDUP(n)
            BY <4>1, <4>3 DEF NothingBehind, Bytes
        <4>5. ReadSoFar'
          <5>1. \A s \in Threads : call[s].kind = "read" => pc'[s] = pc[s] /\ (Moving(s)' <=> Moving(s))
              BY <1>0, <2>5, <2>6
          <5> QED
              BY <1>0, <2>1, <4>1, <5>1 DEF ReadSoFar
        <4>6. may \in [Threads -> [Bytes -> SUBSET Values]]
            BY DEF TypeOK
        <4> QED
            BY <1>1, <1>2, <4>1, <4>4, <4>5, <4>6
      <3> QED
          BY <3>1, <3>2
    <2>8. TypeOK'
        BY <1>0, <2>1, <2>4, <2>5, <2>7 DEF TypeOK
    <2>9. OnlyTheVeryEndDies' /\ CallsRun' /\ OneChanger'
        BY <1>0, <1>2, <2>1, <2>5, <2>6 DEF OnlyTheVeryEndDies, CallsRun, OneChanger
    <2>10. TransferInRange'
        BY <2>1, <2>5, <2>6 DEF TransferInRange
    <2>11. WrittenSoFar'
        BY <1>2, <2>5, <2>6, <2>7 DEF WrittenSoFar
    <2>12. NothingBehind'
        BY <2>1, <2>7 DEF NothingBehind
    <2> QED
        BY <2>7, <2>8, <2>9, <2>10, <2>11, <2>12
  <1> QED
      BY <1>3, <1>4

\* A call returns; a change is then what was before the next one.
LEMMA ReturnInv == ASSUME DataInv, NEW t \in Threads, Return(t) PROVE DataInv'
  <1> USE DEF DataInv
  <1>0. /\ pc[t] = "done" /\ err = "none" /\ pc' = [pc EXCEPT ![t] = "idle"]
        /\ call' = [call EXCEPT ![t] = NoCall] /\ may' = [may EXCEPT ![t] = NoMay]
        /\ before' = IF call[t].kind = "read" THEN before ELSE file
        /\ UNCHANGED <<data, size, lock, file, ncalls, err>>
      BY DEF Return
  <1>1. NoCall \in CallRecords /\ NoCall.kind = "none" /\ NoMay \in [Bytes -> SUBSET Values]
      BY DEF NoCall, CallRecords, Values, NoMay
  <1>2. /\ call' \in [Threads -> CallRecords] /\ pc' \in [Threads -> Labels]
        /\ may' \in [Threads -> [Bytes -> SUBSET Values]] /\ before' \in [Bytes -> Values]
        /\ pc'[t] = "idle" /\ call'[t].kind = "none"
        /\ \A s \in Threads \ {t} : pc'[s] = pc[s] /\ call'[s] = call[s] /\ may'[s] = may[s]
    <2>1. /\ call \in [Threads -> CallRecords] /\ pc \in [Threads -> Labels]
          /\ may \in [Threads -> [Bytes -> SUBSET Values]]
          /\ before \in [Bytes -> Values] /\ file \in [Bytes -> Values]
        BY DEF TypeOK
    <2> QED
        BY <1>0, <1>1, <2>1 DEF Labels
  <1>3. /\ \A s \in Threads \ {t} : /\ Changes(s)' <=> Changes(s)
                                    /\ Moving(s)' <=> Moving(s)
                                    /\ Position(s)' = Position(s)
        /\ ~ Changes(t)' /\ ~ Moving(t)'
      BY <1>2 DEF Changes, Moving, Position
  <1>4. call[t].kind \in {"read", "write", "truncate"}
      BY <1>0 DEF CallsRun, TypeOK, CallRecords
  <1>5. CASE call[t].kind = "read"
    <2>1. ~ Changes(t) /\ before' = before
        BY <1>0, <1>5 DEF Changes
    <2>2. WrittenSoFar'
        BY <1>0, <1>2, <1>3, <2>1 DEF WrittenSoFar
    <2>3. ReadSoFar'
        BY <1>0, <1>2, <1>3, <2>1 DEF ReadSoFar
    <2> QED
        BY <1>0, <1>2, <1>3, <2>2, <2>3
           DEF TypeOK, OnlyTheVeryEndDies, CallsRun, OneChanger, TransferInRange, NothingBehind
  <1>6. CASE call[t].kind # "read"
    <2>1. Changes(t) /\ before' = file
        BY <1>0, <1>4, <1>6 DEF Changes
    <2>2. data = file /\ \A s \in Threads : ~ Changes(s)'
        BY <1>0, <1>3, <2>1 DEF WrittenSoFar, OneChanger
    <2>3. WrittenSoFar'
        BY <1>0, <2>1, <2>2 DEF WrittenSoFar
    <2>4. ReadSoFar'
        BY <1>0, <1>2, <1>3, <2>1 DEF ReadSoFar
    <2> QED
        BY <1>0, <1>2, <1>3, <2>3, <2>4
           DEF TypeOK, OnlyTheVeryEndDies, CallsRun, OneChanger, TransferInRange, NothingBehind
  <1> QED
      BY <1>5, <1>6

-----------------------------------------------------------------------------
(* The theorems.                                                           *)

LEMMA StepInv == ASSUME DataInv, [Next]_vars PROVE DataInv'
  <1>1. CASE Next
    <2>1. PICK t \in Threads :
            \/ \E off \in Offsets, n \in Lengths : Call(t, "read", off, n, 0)
            \/ \E off \in Offsets, n \in Lengths, v \in Vals : Call(t, "write", off, n, v)
            \/ \E n \in TruncSizes : Call(t, "truncate", 0, n, 0)
            \/ StartWrite(t) \/ StartRead(t) \/ FirstBlock(t) \/ Loop(t) \/ LastBlock(t)
            \/ restart_op_on(t) \/ itrunc2size(t) \/ Unlock(t) \/ Return(t)
        BY <1>1 DEF Next
    <2>2. Offsets \subseteq Nat /\ Lengths \subseteq Nat /\ TruncSizes \subseteq Nat
        BY DataAssumption
    <2>3. ASSUME NEW off \in Offsets, NEW n \in Lengths, Call(t, "read", off, n, 0) PROVE DataInv'
      <3>1. off \in Nat /\ n \in Nat /\ 0 \in Values
          BY <2>2 DEF Values
      <3> QED
          BY <2>3, <3>1, CallInv
    <2>4. ASSUME NEW off \in Offsets, NEW n \in Lengths, NEW v \in Vals, Call(t, "write", off, n, v)
          PROVE  DataInv'
      <3>1. off \in Nat /\ n \in Nat /\ v \in Values
          BY <2>2 DEF Values
      <3> QED
          BY <2>4, <3>1, CallInv
    <2>5. ASSUME NEW n \in TruncSizes, Call(t, "truncate", 0, n, 0) PROVE DataInv'
      <3>1. 0 \in Nat /\ n \in Nat /\ 0 \in Values
          BY <2>2 DEF Values
      <3> QED
          BY <2>5, <3>1, CallInv
    <2> QED
        BY <2>1, <2>3, <2>4, <2>5, StartWriteInv, StartReadInv, FirstBlockInv, LoopInv, LastBlockInv,
           RestartInv, TruncInv, UnlockInv, ReturnInv
  <1>2. CASE UNCHANGED vars
    <2>1. UNCHANGED <<data, size, lock, pc, call, file, before, may, ncalls, err>>
        BY <1>2 DEF vars
    <2>2. TypeOK' /\ OnlyTheVeryEndDies' /\ CallsRun' /\ OneChanger' /\ NothingBehind'
        BY <2>1 DEF DataInv, TypeOK, OnlyTheVeryEndDies, CallsRun, OneChanger, Changes, NothingBehind
    <2>3. TransferInRange' /\ ReadSoFar' /\ WrittenSoFar'
        BY <2>1 DEF DataInv, TransferInRange, ReadSoFar, WrittenSoFar, Moving, Position, Changes
    <2> QED
        BY <2>2, <2>3 DEF DataInv
  <1> QED
      BY <1>1, <1>2

\* inode_write_nbytes_locked(), inode_read_nbytes_locked() and itrunc2size()
\* keep every transfer inside the largest file and the bytes before and after
\* its position apart, for every block size, file size, offset and length, and
\* whatever runs while a transfer has given ip->lock up.
THEOREM TransfersInRange == Spec => []DataInv
  <1>1. Init => DataInv
      BY InitInv
  <1>2. DataInv /\ [Next]_vars => DataInv'
      BY StepInv
  <1> QED
      BY <1>1, <1>2, PTL DEF Spec

\* With no write or truncation under way the blocks of the file hold exactly
\* what the calls wrote and left.
THEOREM ContentKept == Spec => []ContentExact
  <1>1. DataInv => ContentExact
    <2> SUFFICES ASSUME DataInv, \A t \in Threads : call[t].kind \in {"none", "read"}
                 PROVE  data = file /\ \A i \in Bytes : data[i] # 0 => i < ROUNDUP(size)
        BY DEF ContentExact
    <2>1. data = file
        BY DEF DataInv, WrittenSoFar, Changes
    <2> QED
        BY <2>1 DEF DataInv, NothingBehind
  <1> QED
      BY <1>1, TransfersInRange, PTL

\* A read returns the bytes it announced, each a value its byte had while the
\* read ran, although it may have given ip->lock up between two blocks.
THEOREM ReadsAgree == Spec => []ReadExact
  <1>1. DataInv => ReadExact
      BY DEF DataInv, ReadSoFar, ReadExact
  <1> QED
      BY <1>1, TransfersInRange, PTL
=============================================================================
