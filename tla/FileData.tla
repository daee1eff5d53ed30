------------------------------ MODULE FileData ------------------------------
(***************************************************************************)
(* The bytes of a file: inode_write_nbytes_locked(),                       *)
(* inode_read_nbytes_locked() and itrunc2size() of src/src/inode.c against *)
(* an array of bytes.                                                      *)
(*                                                                         *)
(* A transfer goes block by block: a first, perhaps partial one, whole     *)
(* ones, a last one.  Between two blocks it may restart its operation and  *)
(* give ip->lock up; BlockMap says when, here it may at every test.        *)
(* itrunc2size() keeps the lock and is one step.                           *)
(***************************************************************************)
EXTENDS Integers, Sequences, FiniteSets

CONSTANTS
    Threads,
    BSIZE,
    MAXFILE_BLOCKS,
    Vals,           \* what a write fills its bytes with
    Offsets, Lengths, TruncSizes,
    MaxCalls,       \* bound on the number of calls
    Nobody

ASSUME DataAssumption ==
    /\ {BSIZE, MAXFILE_BLOCKS, MaxCalls} \subseteq Nat \ {0}
    /\ 0 \notin Vals /\ Nobody \notin Threads
    /\ Offsets \cup Lengths \cup TruncSizes \subseteq Nat

MAXFILE_SIZE == MAXFILE_BLOCKS * BSIZE
Bytes == 0 .. MAXFILE_SIZE - 1
Zeros == [i \in Bytes |-> 0]
ROUNDUP(n) == ((n + BSIZE - 1) \div BSIZE) * BSIZE
Less(a, b) == IF a < b THEN a ELSE b

VARIABLES
    data,       \* [Bytes -> values]: the blocks of the file; 0 where there is none
    size,       \* ip->size
    lock,       \* holder of ip->lock
    pc,         \* [Threads -> Labels]
    call,       \* [Threads -> the locals of its transfer]
    file,       \* the bytes as the completed and running calls leave them
    before,     \* the bytes before the running write or truncation
    may,        \* [Threads -> [Bytes -> values a byte had during the read]]
    ncalls,
    err

vars == <<data, size, lock, pc, call, file, before, may, ncalls, err>>

Labels == {"idle", "start", "first", "loop", "last", "out", "done"}
NoCall == [kind |-> "none", off |-> 0, nbytes |-> 0, n |-> 0, blockno |-> 0, val |-> 0, got |-> <<>>]
NoMay == [i \in Bytes |-> {}]

Init ==
    /\ data = Zeros /\ size = 0 /\ lock = Nobody
    /\ pc = [t \in Threads |-> "idle"]
    /\ call = [t \in Threads |-> NoCall]
    /\ file = Zeros /\ before = Zeros
    /\ may = [t \in Threads |-> NoMay]
    /\ ncalls = 0 /\ err = "none"

\* The kernel lets one call at a time change a file; reads run beside it.
MayCall(kind) == kind = "read" \/ \A s \in Threads : call[s].kind \in {"none", "read"}

Call(t, kind, off, nbytes, val) ==
    /\ pc[t] = "idle" /\ ncalls < MaxCalls
    /\ MayCall(kind)
    /\ pc' = [pc EXCEPT ![t] = "start"]
    /\ call' = [call EXCEPT ![t] =
        [NoCall EXCEPT !.kind = kind, !.off = off, !.nbytes = nbytes, !.n = nbytes, !.val = val]]
    /\ ncalls' = ncalls + 1
    /\ UNCHANGED <<data, size, lock, file, before, may, err>>

\* Each byte that changes may be read as it was or as it becomes.
Change(new) ==
    /\ file' = new
    /\ may' = [t \in Threads |-> IF call[t].kind = "read" /\ pc[t] # "start"
                                 THEN [i \in Bytes |-> may[t][i] \cup {new[i]}] ELSE may[t]]

Lock(t) == lock = Nobody /\ lock' = t

-----------------------------------------------------------------------------
(* Transfers.                                                              *)

\* Mutant: a write may end behind the largest file.
WriteLength_Uncut(c) == c.nbytes

WriteLength(c) == IF c.off + c.nbytes > MAXFILE_SIZE THEN MAXFILE_SIZE - c.off ELSE c.nbytes

\* inode_write_nbytes_locked() cuts off what is too much and sets the size.
StartWrite(t) ==
    LET c == call[t]
        n == WriteLength(c)
    IN
    /\ pc[t] = "start" /\ c.kind = "write"
    /\ Lock(t)
    /\ IF c.off > MAXFILE_SIZE
       THEN /\ pc' = [pc EXCEPT ![t] = "out"]
            /\ call' = [call EXCEPT ![t].n = 0]
            /\ UNCHANGED <<size, file, may>>
       ELSE /\ pc' = [pc EXCEPT ![t] = "first"]
            /\ call' = [call EXCEPT ![t].nbytes = n, ![t].n = n, ![t].blockno = c.off \div BSIZE]
            /\ size' = IF size < c.off + n THEN c.off + n ELSE size
            /\ Change([i \in Bytes |-> IF i \in c.off .. c.off + n - 1 THEN c.val ELSE file[i]])
    /\ UNCHANGED <<data, before, ncalls, err>>

\* inode_read_nbytes_locked() reads no further than the size.
StartRead(t) ==
    LET c == call[t]
        n == IF c.off + c.nbytes > size THEN size - c.off ELSE c.nbytes
    IN
    /\ pc[t] = "start" /\ c.kind = "read"
    /\ Lock(t)
    /\ IF c.off > size
       THEN /\ pc' = [pc EXCEPT ![t] = "out"]
            /\ call' = [call EXCEPT ![t].n = 0]
       ELSE /\ pc' = [pc EXCEPT ![t] = "first"]
            /\ call' = [call EXCEPT ![t].nbytes = n, ![t].n = n, ![t].blockno = c.off \div BSIZE]
    /\ may' = [may EXCEPT ![t] = [i \in Bytes |-> {file[i], before[i]}]]
    /\ UNCHANGED <<data, size, file, before, ncalls, err>>

\* Mutant: a read stays at its first block.
Move_SameBlock(t, from, n) ==
    LET c == call[t]
        start == c.blockno * BSIZE + from
    IN  IF c.kind = "write"
        THEN /\ data' = [i \in Bytes |-> IF i \in start .. start + n - 1 THEN c.val ELSE data[i]]
             /\ call' = [call EXCEPT ![t].nbytes = @ - n, ![t].blockno = @ + 1]
        ELSE /\ call' = [call EXCEPT ![t].nbytes = @ - n,
                                     ![t].got = @ \o [k \in 1 .. n |-> data[start + k - 1]]]
             /\ UNCHANGED data

\* Move n bytes between the caller and the block, from byte "from" of it.
Move(t, from, n) ==
    LET c == call[t]
        start == c.blockno * BSIZE + from
    IN  IF c.kind = "write"
        THEN /\ data' = [i \in Bytes |-> IF i \in start .. start + n - 1 THEN c.val ELSE data[i]]
             /\ call' = [call EXCEPT ![t].nbytes = @ - n, ![t].blockno = @ + 1]
        ELSE /\ call' = [call EXCEPT ![t].nbytes = @ - n, ![t].blockno = @ + 1,
                                     ![t].got = @ \o [k \in 1 .. n |-> data[start + k - 1]]]
             /\ UNCHANGED data

\* imap2blockno() ends the process for a block past the last.
TooBig(t) == call[t].blockno >= MAXFILE_BLOCKS
err_exit ==
    /\ err' = "imap2blockno: inode too big"
    /\ pc' = [t \in Threads |-> "done"]
    /\ UNCHANGED <<data, call>>

Holds(t) == lock \in {t, Nobody}

\* Mutant: the offset in the first block is forgotten.
n_left_Whole(t) == BSIZE

\* What the first block has room for.
n_left(t) == BSIZE - (call[t].off % BSIZE)

FirstBlock(t) ==
    /\ pc[t] = "first" /\ Holds(t)
    /\ IF TooBig(t) THEN err_exit
       ELSE /\ Move(t, call[t].off % BSIZE, Less(n_left(t), call[t].nbytes))
            /\ pc' = [pc EXCEPT ![t] = IF call[t].nbytes <= n_left(t) THEN "out" ELSE "loop"]
            /\ err' = err
    /\ lock' = t
    /\ UNCHANGED <<size, file, before, may, ncalls>>

\* The condition of the loop over whole blocks.
MoreBlocks(t) == call[t].nbytes > BSIZE

Loop(t) ==
    /\ pc[t] = "loop" /\ Holds(t)
    /\ IF MoreBlocks(t)
       THEN IF TooBig(t) THEN err_exit ELSE Move(t, 0, BSIZE) /\ UNCHANGED <<pc, err>>
       ELSE pc' = [pc EXCEPT ![t] = "last"] /\ UNCHANGED <<data, call, err>>
    /\ lock' = t
    /\ UNCHANGED <<size, file, before, may, ncalls>>

LastBlock(t) ==
    /\ pc[t] = "last" /\ Holds(t)
    /\ IF TooBig(t) THEN err_exit
       ELSE /\ Move(t, 0, call[t].nbytes)
            /\ pc' = [pc EXCEPT ![t] = "out"]
            /\ err' = err
    /\ lock' = t
    /\ UNCHANGED <<size, file, before, may, ncalls>>

\* restart_op_on(): a read makes its first test after its first block.
restart_op_on(t) ==
    /\ \/ pc[t] \in {"loop", "last"}
       \/ pc[t] = "first" /\ call[t].kind = "write"
    /\ lock = t
    /\ lock' = Nobody
    /\ UNCHANGED <<data, size, pc, call, file, before, may, ncalls, err>>

-----------------------------------------------------------------------------

\* Blocks behind the new end are freed; a block that is allocated is zero.
\* What the last block holds behind the new end stays.  A file that would need
\* more blocks than there are ends the process in imap2blockno().
itrunc2size(t) ==
    LET n == call[t].nbytes
        Cut(bytes, end) == [i \in Bytes |-> IF i >= end THEN 0 ELSE bytes[i]]
    IN
    /\ pc[t] = "start" /\ call[t].kind = "truncate"
    /\ lock = Nobody
    /\ IF n > MAXFILE_SIZE THEN err_exit /\ UNCHANGED <<size, file, may>>
       ELSE /\ IF n < size THEN data' = Cut(data, ROUNDUP(n)) /\ Change(Cut(file, ROUNDUP(n)))
               ELSE UNCHANGED <<data, file, may>>
            /\ size' = n
            /\ pc' = [pc EXCEPT ![t] = "done"]
            /\ UNCHANGED <<call, err>>
    /\ UNCHANGED <<lock, before, ncalls>>

Unlock(t) ==
    /\ pc[t] = "out"
    /\ lock' = Nobody
    /\ pc' = [pc EXCEPT ![t] = "done"]
    /\ UNCHANGED <<data, size, call, file, before, may, ncalls, err>>

Return(t) ==
    /\ pc[t] = "done" /\ err = "none"
    /\ pc' = [pc EXCEPT ![t] = "idle"]
    /\ call' = [call EXCEPT ![t] = NoCall]
    /\ before' = IF call[t].kind = "read" THEN before ELSE file
    /\ may' = [may EXCEPT ![t] = NoMay]
    /\ UNCHANGED <<data, size, lock, file, ncalls, err>>

Next ==
    \E t \in Threads :
        \/ \E off \in Offsets, n \in Lengths : Call(t, "read", off, n, 0)
        \/ \E off \in Offsets, n \in Lengths, v \in Vals : Call(t, "write", off, n, v)
        \/ \E n \in TruncSizes : Call(t, "truncate", 0, n, 0)
        \/ StartWrite(t) \/ StartRead(t) \/ FirstBlock(t) \/ Loop(t) \/ LastBlock(t)
        \/ restart_op_on(t) \/ itrunc2size(t) \/ Unlock(t) \/ Return(t)

Spec == Init /\ [][Next]_vars

-----------------------------------------------------------------------------
(* Properties.                                                             *)

Values == Vals \cup {0}
CallRecords ==
    [kind : {"none", "read", "write", "truncate"}, off : Nat, nbytes : Nat, n : Nat, blockno : Nat,
     val : Values, got : Seq(Values)]

\* No file is larger than what its map can hold, and no count of bytes is
\* negative.
TypeOK ==
    /\ data \in [Bytes -> Values] /\ file \in [Bytes -> Values] /\ before \in [Bytes -> Values]
    /\ size \in 0 .. MAXFILE_SIZE
    /\ lock \in Threads \cup {Nobody} /\ pc \in [Threads -> Labels]
    /\ call \in [Threads -> CallRecords]
    /\ may \in [Threads -> [Bytes -> SUBSET Values]]
    /\ ncalls \in Nat /\ err \in {"none", "imap2blockno: inode too big"}

\* With no write or truncation under way the blocks hold what the calls so far
\* wrote and left, and nothing behind the last block of the file.
ContentExact ==
    (\A t \in Threads : call[t].kind \in {"none", "read"}) =>
        /\ data = file
        /\ \A i \in Bytes : data[i] # 0 => i < ROUNDUP(size)

\* A read returns as many bytes as it said, each one a value that this byte
\* had during the read, also when the read gave its lock up halfway.
ReadExact ==
    \A t \in Threads : pc[t] = "done" /\ call[t].kind = "read" /\ err = "none" =>
        /\ Len(call[t].got) = call[t].n
        /\ \A k \in DOMAIN call[t].got : call[t].got[k] \in may[t][call[t].off + k - 1]

\* The tests of offset and length keep every transfer inside the largest file,
\* but for one that starts exactly at its end: the test lets it through and
\* imap2blockno() ends the process, as it does for a truncation to a larger
\* size.
OnlyTheVeryEndDies ==
    err # "none" => \E t \in Threads :
        \/ call[t].off = MAXFILE_SIZE
        \/ call[t].kind = "truncate" /\ call[t].nbytes > MAXFILE_SIZE

\* A thread that is not idle runs one call; a dead process runs none on.
CallsRun ==
    IF err = "none" THEN \A t \in Threads : pc[t] = "idle" <=> call[t].kind = "none"
    ELSE \A t \in Threads : pc[t] = "done"

Changes(t) == call[t].kind \in {"write", "truncate"}
OneChanger == \A s, t \in Threads : Changes(s) /\ Changes(t) => s = t

\* A transfer between its start and its last block: the bytes that are left
\* begin at Position(t), and they end where the transfer ends.
Moving(t) == pc[t] \in {"first", "loop", "last"}
Position(t) == IF pc[t] = "first" THEN call[t].off ELSE call[t].blockno * BSIZE
TransferInRange ==
    \A t \in Threads : Moving(t) =>
        LET c == call[t] IN
        /\ c.kind \in {"read", "write"}
        /\ Position(t) + c.nbytes = c.off + c.n
        /\ c.nbytes <= c.n /\ c.off + c.n <= MAXFILE_SIZE
        /\ IF pc[t] = "first" THEN c.blockno = c.off \div BSIZE ELSE c.nbytes > 0
        /\ pc[t] = "last" => c.nbytes <= BSIZE

\* The bytes that a read has so far, and those it may still meet.
ReadSoFar ==
    \A t \in Threads : call[t].kind = "read" =>
        LET c == call[t] IN
        /\ pc[t] = "start" => c.got = <<>>
        /\ Moving(t) => Len(c.got) = c.n - c.nbytes
        /\ pc[t] \in {"out", "done"} /\ err = "none" => Len(c.got) = c.n
        /\ \A k \in DOMAIN c.got : c.off + k - 1 \in Bytes /\ c.got[k] \in may[t][c.off + k - 1]
        /\ Moving(t) => \A i \in Bytes : {file[i], before[i]} \subseteq may[t][i]

\* A write replaces the bytes before it by its own, block after block; what
\* has not started has changed nothing, what is over has changed everything.
WrittenSoFar ==
    /\ (\A t \in Threads : Changes(t) => pc[t] = "start") => data = file /\ before = file
    /\ \A t \in Threads : Changes(t) =>
        LET c == call[t] IN
        /\ pc[t] \in {"out", "done"} /\ err = "none" => data = file
        /\ Moving(t) => \A i \in Bytes :
            /\ i \in c.off .. c.off + c.n - 1 => file[i] = c.val
            /\ \/ data[i] = file[i]
               \/ i \in Position(t) .. Position(t) + c.nbytes - 1 /\ data[i] = before[i]

\* Nothing is left behind the last block of the file.
NothingBehind == \A i \in Bytes : file[i] # 0 => i < ROUNDUP(size)

\* Sizes and transfers stay inside the largest file, and every transfer has
\* moved what it should have so far, whatever ran while it had given its lock
\* up.
DataInv ==
    /\ TypeOK
    /\ OnlyTheVeryEndDies
    /\ CallsRun
    /\ OneChanger
    /\ TransferInRange
    /\ ReadSoFar
    /\ WrittenSoFar
    /\ NothingBehind
=============================================================================
