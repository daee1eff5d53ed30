------------------------------ MODULE BlockMap ------------------------------
(***************************************************************************)
(* The blocks of a file: imap2blockno(), itrunc(), itrunc2size() and the   *)
(* loops of inode_read_nbytes_locked() and inode_write_nbytes_locked() of  *)
(* src/src/inode.c, and the leak report of diagnostic/disk-diagnostic.cc.  *)
(*                                                                         *)
(* An inode has NDIRECT block addresses and three trees of indirect blocks *)
(* of depth 1, 2 and 3.  A call works on it under ip->lock, inside an      *)
(* operation of the log.  When n_log_wrote nears MAXOPBLOCKS the call      *)
(* restarts its operation: reads and writes save the inode and let the     *)
(* lock go first, itrunc2size() does neither.                              *)
(*                                                                         *)
(* Sizes and offsets count blocks (bytes are in FileData).  The work on    *)
(* one file block is one step.  The log is the store of TxnStore: whoever  *)
(* ends the last open operation commits everything, and a crash takes the  *)
(* disk back to the last commit.                                           *)
(***************************************************************************)
EXTENDS Integers, Sequences, SequencesExt, FiniteSets, Functions

CONSTANTS
    Threads,
    NDIRECT,        \* direct addresses of an inode
    NINDIRECT1,     \* addresses in an indirect block
    NBlocks,        \* data blocks of the disk
    MAXOPBLOCKS,
    Offsets,        \* first blocks of the reads and writes
    Lengths,        \* their lengths
    TruncSizes,     \* sizes that files are truncated to
    BPB,            \* blocks per bitmap block
    MaxCalls,       \* bound on the number of calls and crashes
    Nobody

ASSUME MapAssumption ==
    /\ IsFiniteSet(Threads) /\ Nobody \notin Threads
    /\ NDIRECT \in Nat /\ NINDIRECT1 \in Nat \ {0}
    /\ NBlocks \in Nat \ {0} /\ MAXOPBLOCKS \in Nat /\ MAXOPBLOCKS > 6
    /\ BPB \in Nat \ {0}
    /\ MaxCalls \in Nat

NINDIRECT2 == NINDIRECT1 * NINDIRECT1
NINDIRECT3 == NINDIRECT2 * NINDIRECT1
MAXFILE_BLOCKS == NDIRECT + NINDIRECT1 + NINDIRECT2 + NINDIRECT3

ASSUME BoundsAssumption ==
    /\ Offsets \subseteq 0 .. (MAXFILE_BLOCKS - 1)
    /\ Lengths \subseteq 1 .. MAXFILE_BLOCKS
    /\ TruncSizes \subseteq 0 .. MAXFILE_BLOCKS

Blocks == 1 .. NBlocks
None == 0                       \* the address of no block
\* The members of the set of logged blocks.
BBLOCK(b) == <<"bitmap", b \div BPB>>
IBLOCK == <<"inode", 0>>
Data(b) == <<"data", b>>
Bitmaps == {BBLOCK(b) : b \in Blocks}
Slots == 0 .. (NDIRECT + 2)
Index == 0 .. (NINDIRECT1 - 1)
Zeros == [i \in Index |-> None]
UserData == [i \in Index |-> 1]   \* what a user writes, read as addresses

VARIABLES
    fs,         \* the file: addrs and size in memory, daddrs and dsize in the
                \* inode of the disk, ind (contents of blocks), used (bitmap);
                \* whole: FALSE if it was read from half a truncation (history)
    durable,    \* the last committed daddrs, dsize, ind, used and whole
    lock,       \* holder of ip->lock
    pc,         \* [Threads -> Labels]
    call,       \* [Threads -> [kind, first, next, last]], blocks left to work on
    op,         \* [Threads -> [n, logged]]: n_log_wrote, and the blocks logged
    ncalls,     \* number of calls and crashes so far
    err         \* the message of the err_exit() that ended the process

vars == <<fs, durable, lock, pc, call, op, ncalls, err>>

Labels == {"idle", "start", "block", "out", "end"}
Kinds == {"none", "read", "write", "grow", "shrink"}
NoCall == [kind |-> "none", first |-> 0, next |-> 0, last |-> 0]
NewOp == [n |-> 0, logged |-> {}]
Addresses == Blocks \cup {None}

Contents == [Blocks -> [Index -> Addresses]]
Files ==
    [addrs : [Slots -> Addresses], size : 0 .. MAXFILE_BLOCKS,
     daddrs : [Slots -> Addresses], dsize : 0 .. MAXFILE_BLOCKS,
     ind : Contents, used : SUBSET Blocks, whole : BOOLEAN]
Disks ==
    [addrs : [Slots -> Addresses], size : 0 .. MAXFILE_BLOCKS, ind : Contents,
     used : SUBSET Blocks, whole : BOOLEAN]
FileBlocks == 0 .. MAXFILE_BLOCKS
IsOp(o) == o = [n |-> o.n, logged |-> o.logged] /\ o.n \in Nat /\ IsFiniteSet(o.logged)

TypeOK ==
    /\ fs \in Files
    /\ durable \in Disks
    /\ lock \in Threads \cup {Nobody}
    /\ pc \in [Threads -> Labels]
    /\ call \in [Threads -> [kind : Kinds, first : FileBlocks, next : FileBlocks, last : FileBlocks]]
    /\ op = [t \in Threads |-> op[t]] /\ \A t \in Threads : IsOp(op[t])
    /\ ncalls \in 0 .. MaxCalls
    /\ err \in {"none", "too many blocks in one op", "no more free space in disk!"}

EmptyFile ==
    [addrs |-> [i \in Slots |-> None], size |-> 0,
     daddrs |-> [i \in Slots |-> None], dsize |-> 0,
     ind |-> [b \in Blocks |-> Zeros], used |-> {}, whole |-> TRUE]

\* What a commit of the file makes durable.
OnDisk(f) ==
    [addrs |-> f.daddrs, size |-> f.dsize, ind |-> f.ind, used |-> f.used, whole |-> f.whole]

Init ==
    /\ fs = EmptyFile
    /\ durable = OnDisk(EmptyFile)
    /\ lock = Nobody
    /\ pc = [t \in Threads |-> "idle"]
    /\ call = [t \in Threads |-> NoCall]
    /\ op = [t \in Threads |-> NewOp]
    /\ ncalls = 0
    /\ err = "none"

-----------------------------------------------------------------------------
(* The map.  A work record w has the file and the operation of a thread.   *)

\* Mutant: the entry and the offset of the second tree are swapped.
Path_Swapped(bn) ==
    LET b1 == bn - NDIRECT  b2 == b1 - NINDIRECT1  b3 == b2 - NINDIRECT2 IN
    IF bn < NDIRECT THEN <<bn>>
    ELSE IF b1 < NINDIRECT1 THEN <<NDIRECT, b1>>
    ELSE IF b2 < NINDIRECT2 THEN <<NDIRECT + 1, b2 % NINDIRECT1, b2 \div NINDIRECT1>>
    ELSE <<NDIRECT + 2, b3 \div NINDIRECT2, (b3 % NINDIRECT2) \div NINDIRECT1,
           (b3 % NINDIRECT2) % NINDIRECT1>>

\* Where the address of file block bn is: the slot of ip->addrs, then the
\* entry of each indirect block on the way.
Path(bn) ==
    LET b1 == bn - NDIRECT  b2 == b1 - NINDIRECT1  b3 == b2 - NINDIRECT2 IN
    IF bn < NDIRECT THEN <<bn>>
    ELSE IF b1 < NINDIRECT1 THEN <<NDIRECT, b1>>
    ELSE IF b2 < NINDIRECT2 THEN <<NDIRECT + 1, b2 \div NINDIRECT1, b2 % NINDIRECT1>>
    ELSE <<NDIRECT + 2, b3 \div NINDIRECT2, (b3 % NINDIRECT2) \div NINDIRECT1,
           (b3 % NINDIRECT2) % NINDIRECT1>>

\* Entry i of block p, or of the inode.
Inode == 0
Entry(addrs, ind, p, i) == IF p = Inode THEN addrs[i] ELSE ind[p][i]
EntryOf(w, p, i) == Entry(w.fs.addrs, w.fs.ind, p, i)

\* The work record with another file.
WithFile(w, f) == [w EXCEPT !.fs = f]

logged_write(w, b) ==
    [w EXCEPT !.op = [n |-> w.op.n + 1, logged |-> w.op.logged \cup {b}]]

\* A change of an entry is logged, unless it is in the inode: that is for
\* iupdate() to do.
SetEntry(w, p, i, b) ==
    IF p = Inode THEN WithFile(w, [w.fs EXCEPT !.addrs[i] = b])
    ELSE logged_write(WithFile(w, [w.fs EXCEPT !.ind[p][i] = b]), Data(p))

\* Set the bit of block b and zero the block: two logged writes.
block_alloc(w, b) ==
    LET f == [w.fs EXCEPT !.used = @ \cup {b}, !.ind[b] = Zeros]
    IN logged_write(logged_write(WithFile(w, f), BBLOCK(b)), Data(b))
FreeBlock(w) == CHOOSE b \in Blocks \ w.fs.used : \A c \in Blocks \ w.fs.used : b <= c

\* Taking the last free block ends the process.
NoSpace(w) == w.fs.used \cup {FreeBlock(w)} = Blocks

block_free(w, b) == logged_write(WithFile(w, [w.fs EXCEPT !.used = @ \ {b}]), BBLOCK(b))

\* Load an entry, allocating if necessary: the work record, and in "at" the
\* block number, NoWay if the process ends.
NoWay == -3
Load(w, p, i) ==
    IF EntryOf(w, p, i) # None THEN [w |-> w, at |-> EntryOf(w, p, i)]
    ELSE IF NoSpace(w) THEN [w |-> w, at |-> NoWay]
    ELSE [w |-> SetEntry(block_alloc(w, FreeBlock(w)), p, i, FreeBlock(w)), at |-> FreeBlock(w)]

\* Along a path, which has at most four elements.
LoadNext(a, path, k) ==
    IF k > Len(path) \/ a.at = NoWay THEN a ELSE Load(a.w, a.at, path[k])
LoadAll(w, path) ==
    LoadNext(LoadNext(LoadNext(LoadNext([w |-> w, at |-> Inode], path, 1), path, 2), path, 3), path, 4)
imap2blockno(w, bn) == LoadAll(w, Path(bn))

\* The block that a path leads to; NoWay if an address on the way is missing.
FollowNext(w, p, path, k) ==
    IF k > Len(path) \/ p = NoWay THEN p
    ELSE IF EntryOf(w, p, path[k]) = None THEN NoWay ELSE EntryOf(w, p, path[k])
Follow(w, path) ==
    FollowNext(w, FollowNext(w, FollowNext(w, FollowNext(w, Inode, path, 1), path, 2), path, 3), path, 4)

\* The root of the second tree is allocated if it is missing.
LoadRoot(w, path) ==
    IF Len(path) = 3 THEN Load(w, Inode, path[1]) ELSE [w |-> w, at |-> Inode]

\* Mutant: the entry of the freed block is not cleared.
imap2blockno_free_Stale(w, bn) ==
    LET v == LoadRoot(w, Path(bn))
        p == Follow(v.w, Front(Path(bn)))
        i == Last(Path(bn))
    IN IF v.at = NoWay \/ p = NoWay THEN v
       ELSE IF EntryOf(v.w, p, i) = None THEN v
       ELSE [w |-> block_free(v.w, EntryOf(v.w, p, i)), at |-> v.at]

\* Free the block and clear its entry.  block_free_safe() does not restart:
\* n_log_wrote was tested at the start, and nothing is logged before a block
\* that is found.
imap2blockno_free(w, bn) ==
    LET v == LoadRoot(w, Path(bn))
        p == Follow(v.w, Front(Path(bn)))
        i == Last(Path(bn))
    IN IF v.at = NoWay \/ p = NoWay THEN v
       ELSE IF EntryOf(v.w, p, i) = None THEN v
       ELSE [w |-> SetEntry(block_free(v.w, EntryOf(v.w, p, i)), p, i, None), at |-> v.at]

iupdate(w) ==
    logged_write(WithFile(w, [w.fs EXCEPT !.daddrs = w.fs.addrs, !.dsize = w.fs.size]), IBLOCK)

\* All positions of the trees, those of indirect blocks included: the loops of
\* itrunc().
Positions ==
    {<<s>> : s \in Slots}
    \cup {<<s, i>> : s \in {NDIRECT, NDIRECT + 1, NDIRECT + 2}, i \in Index}
    \cup {<<s, i, j>> : s \in {NDIRECT + 1, NDIRECT + 2}, i \in Index, j \in Index}
    \cup {<<NDIRECT + 2, i, j, k>> : i \in Index, j \in Index, k \in Index}
Mapped(w) == {q \in Positions : Follow(w, q) # NoWay}

\* Free every block, data and indirect, in one operation, whatever their number.
itrunc(w) ==
    LET blocks == {Follow(w, q) : q \in Mapped(w)}
    IN iupdate([fs |-> [w.fs EXCEPT !.used = @ \ blocks, !.addrs = EmptyFile.addrs, !.size = 0],
                op |-> [n |-> w.op.n + Cardinality(Mapped(w)),
                        logged |-> w.op.logged \cup {BBLOCK(b) : b \in blocks}]])

-----------------------------------------------------------------------------
(* Operations, the lock and the end of the process.                        *)

Work(t) == [fs |-> fs, op |-> op[t]]
Done(t, w) ==
    /\ fs' = w.fs
    /\ op' = [op EXCEPT ![t] = w.op]

\* end_op() commits if no other operation is open.
end_op(t, w) ==
    durable' = IF \A s \in Threads \ {t} : pc[s] = "idle" THEN OnDisk(w.fs) ELSE durable

\* The process dies; the next mount finds what was committed.
Die ==
    /\ fs' = [addrs |-> durable.addrs, size |-> durable.size, daddrs |-> durable.addrs,
              dsize |-> durable.size, ind |-> durable.ind, used |-> durable.used,
              whole |-> durable.whole]
    /\ lock' = Nobody
    /\ pc' = [t \in Threads |-> "idle"]
    /\ call' = [t \in Threads |-> NoCall]
    /\ op' = [t \in Threads |-> NewOp]
    /\ UNCHANGED durable

Crash ==
    /\ \E t \in Threads : pc[t] # "idle"
    /\ ncalls < MaxCalls
    /\ ncalls' = ncalls + 1
    /\ Die
    /\ UNCHANGED err

\* assert_no_need_to_restart_op_in_imap2blockno() ends the process.
TooMany(w) == w.op.n >= MAXOPBLOCKS - 1 - 3
err_exit(message) == Die /\ err' = message /\ UNCHANGED ncalls

\* How the work on a file block ends; r is what it makes of the work record.
Message(t, r) ==
    IF TooMany(Work(t)) THEN "too many blocks in one op"
    ELSE IF r.at = NoWay THEN "no more free space in disk!" ELSE "none"

\* Mutant: the counter is reset although the operation goes on.
Restarted_InPlace(o) == [o EXCEPT !.n = 0]

\* What begin_op() leaves of the operation before a restart.
Restarted(o) == NewOp

\* The kernel lets one call at a time change a file; reads run beside it.
MayCall(kind) ==
    kind = "read" \/ \A s \in Threads : call[s].kind \in {"none", "read"}

Call(t, kind, first, last) ==
    /\ pc[t] = "idle"
    /\ ncalls < MaxCalls
    /\ MayCall(kind)
    /\ pc' = [pc EXCEPT ![t] = "start"]
    /\ call' = [call EXCEPT ![t] = [kind |-> kind, first |-> first, next |-> first, last |-> last]]
    /\ op' = [op EXCEPT ![t] = NewOp]
    /\ ncalls' = ncalls + 1
    /\ UNCHANGED <<fs, durable, lock, err>>

\* Work on the next file block is over; w is the work record so far.
NextBlock(t, w) ==
    LET c == call[t] IN
    /\ IF c.next = c.last
       THEN Done(t, iupdate(w)) /\ pc' = [pc EXCEPT ![t] = "out"] /\ UNCHANGED call
       ELSE Done(t, w) /\ call' = [call EXCEPT ![t] = [c EXCEPT !.next = c.next + 1]] /\ UNCHANGED pc

\* The thread works on file block call[t].next with the lock.
AtBlock(t, kinds) ==
    /\ pc[t] = "block"
    /\ call[t].kind \in kinds
    /\ lock \in {t, Nobody}

Unlock(t) ==
    /\ pc[t] = "out"
    /\ lock' = Nobody
    /\ pc' = [pc EXCEPT ![t] = "end"]
    /\ UNCHANGED <<fs, durable, call, op, ncalls, err>>

End(t) ==
    /\ pc[t] = "end"
    /\ end_op(t, Work(t))
    /\ pc' = [pc EXCEPT ![t] = "idle"]
    /\ call' = [call EXCEPT ![t] = NoCall]
    /\ op' = [op EXCEPT ![t] = NewOp]
    /\ UNCHANGED <<fs, lock, ncalls, err>>

-----------------------------------------------------------------------------
(* Reads and writes.                                                       *)

\* Mutant: the margin of a restart is lost.
RestartAt_NoMargin(t) == MAXOPBLOCKS

\* n_log_wrote at which restart_op_on() restarts before the next block.  A
\* read starts without the test; the last block of a write has a test of its
\* own.
RestartAt(t) ==
    LET c == call[t] IN
    IF c.kind = "read" THEN IF c.next = c.first THEN MAXOPBLOCKS + 1 ELSE MAXOPBLOCKS - 1 - 3 - 1
    ELSE IF c.next = c.last /\ c.next # c.first THEN MAXOPBLOCKS - 3 - 1 - 1
    ELSE MAXOPBLOCKS - 1 - 3 - 1 - 1

\* Mutant: the inode is not saved before the restart.
SaveInode_Not(w) == w
SaveInode(w) == iupdate(w)

\* Save the inode, give the lock up, end the operation and begin a new one.
restart_op_on(t) ==
    /\ AtBlock(t, {"read", "write"})
    /\ op[t].n >= RestartAt(t)
    /\ end_op(t, SaveInode(Work(t)))
    /\ fs' = SaveInode(Work(t)).fs
    /\ op' = [op EXCEPT ![t] = Restarted(@)]
    /\ lock' = Nobody
    /\ UNCHANGED <<pc, call, ncalls, err>>

WriteEnd(t) == call[t].last + 1

\* inode_write_nbytes_locked() sets the size before it writes.
StartWrite(t) ==
    LET end == WriteEnd(t)
        w == WithFile(Work(t), [fs EXCEPT !.size = IF @ < end THEN end ELSE @])
    IN
    /\ pc[t] = "start" /\ call[t].kind = "write"
    /\ lock = Nobody
    /\ lock' = t
    /\ Done(t, iupdate(w))
    /\ pc' = [pc EXCEPT ![t] = "block"]
    /\ UNCHANGED <<durable, call, ncalls, err>>

\* inode_read_nbytes_locked() cuts the length at the size; a read at the very
\* end of the file still maps one block.
StartRead(t) ==
    LET c == call[t] IN
    /\ pc[t] = "start" /\ c.kind = "read"
    /\ lock = Nobody
    /\ lock' = t
    /\ IF c.first > fs.size
       THEN pc' = [pc EXCEPT ![t] = "out"] /\ UNCHANGED call
       ELSE /\ pc' = [pc EXCEPT ![t] = "block"]
            /\ call' = [call EXCEPT ![t] = [c EXCEPT !.last =
                IF c.last < fs.size THEN c.last ELSE IF c.first = fs.size THEN c.first ELSE fs.size - 1]]
    /\ UNCHANGED <<fs, durable, op, ncalls, err>>

\* Map the block; a read leaves it as it is, a write fills and logs it.
TransferBlock(t) ==
    LET m == imap2blockno(Work(t), call[t].next)
        w == IF call[t].kind = "write"
             THEN logged_write(WithFile(m.w, [m.w.fs EXCEPT !.ind[m.at] = UserData]), Data(m.at))
             ELSE m.w
    IN
    /\ AtBlock(t, {"read", "write"})
    /\ op[t].n < RestartAt(t)
    /\ IF Message(t, m) # "none" THEN err_exit(Message(t, m))
       ELSE lock' = t /\ NextBlock(t, w) /\ UNCHANGED <<durable, ncalls, err>>

-----------------------------------------------------------------------------
(* itrunc2size.                                                            *)

NeedsRestart(t) == op[t].n >= MAXOPBLOCKS - 1 - 3

\* call[t].last is the new size until the work is known.
StartTruncate(t) ==
    LET size == call[t].last
        set == WithFile(Work(t), [fs EXCEPT !.size = size])
    IN
    /\ pc[t] = "start" /\ call[t].kind \in {"grow", "shrink"}
    /\ lock = Nobody
    /\ lock' = t
    /\ IF size = fs.size \/ size = 0
       THEN /\ Done(t, IF size = fs.size THEN iupdate(set) ELSE iupdate(itrunc(Work(t))))
            /\ pc' = [pc EXCEPT ![t] = "out"]
            /\ UNCHANGED call
       ELSE /\ pc' = [pc EXCEPT ![t] = "block"]
            /\ call' = [call EXCEPT ![t] =
                IF size > fs.size
                THEN [kind |-> "grow", first |-> fs.size, next |-> fs.size, last |-> size - 1]
                ELSE [kind |-> "shrink", first |-> size, next |-> size, last |-> fs.size - 1]]
            /\ UNCHANGED <<fs, op>>
    /\ UNCHANGED <<durable, ncalls, err>>

\* End the operation and begin a new one, with the lock held and the inode
\* not saved.
itrunc2size_log_op_restart_helper(t) ==
    /\ AtBlock(t, {"grow", "shrink"})
    /\ NeedsRestart(t)
    /\ end_op(t, WithFile(Work(t), [fs EXCEPT !.whole = FALSE]))
    /\ op' = [op EXCEPT ![t] = Restarted(@)]
    /\ UNCHANGED <<fs, lock, pc, call, ncalls, err>>

\* The size changes with the last block.
TruncateBlock(t) ==
    LET c == call[t]
        r == IF c.kind = "grow" THEN imap2blockno(Work(t), c.next)
             ELSE imap2blockno_free(Work(t), c.next)
        size == IF c.next # c.last THEN fs.size ELSE IF c.kind = "grow" THEN c.last + 1 ELSE c.first
    IN
    /\ AtBlock(t, {"grow", "shrink"})
    /\ ~NeedsRestart(t)
    /\ IF Message(t, r) # "none" THEN err_exit(Message(t, r))
       ELSE /\ NextBlock(t, WithFile(r.w, [r.w.fs EXCEPT !.size = size]))
            /\ UNCHANGED <<durable, lock, ncalls, err>>

-----------------------------------------------------------------------------

Step(t) ==
    \/ StartWrite(t)
    \/ StartRead(t)
    \/ TransferBlock(t)
    \/ restart_op_on(t)
    \/ StartTruncate(t)
    \/ TruncateBlock(t)
    \/ itrunc2size_log_op_restart_helper(t)
    \/ Unlock(t)
    \/ End(t)

NewCall(t) ==
    \/ \E off \in Offsets, len \in Lengths :
        /\ off + len <= MAXFILE_BLOCKS
        /\ Call(t, "read", off, off + len - 1) \/ Call(t, "write", off, off + len - 1)
    \/ \E size \in TruncSizes : Call(t, "grow", 0, size)

Finished == ncalls = MaxCalls /\ (\A t \in Threads : pc[t] = "idle") /\ UNCHANGED vars

Next ==
    \/ \E t \in Threads : Step(t) \/ NewCall(t)
    \/ Crash
    \/ Finished

Spec == Init /\ [][Next]_vars

-----------------------------------------------------------------------------
(* The diagnostic tool, run on a disk d: the blocks that the map of the    *)
(* inode reaches, and the allocated blocks that it does not reach.         *)

AddressesIn(d, blocks) == {d.ind[b][i] : b \in blocks, i \in 0 .. (NINDIRECT1 - 1)}

print_direct_map(addrs) == addrs \ {None}

print_indirect1_map(d, addrs) ==
    LET pages == addrs \ {None} IN pages \cup print_direct_map(AddressesIn(d, pages))

print_indirect2_map(d, addrs) ==
    LET pages == addrs \ {None} IN pages \cup print_indirect1_map(d, AddressesIn(d, pages))

print_indirect3_map(d, addrs) ==
    LET pages == addrs \ {None} IN pages \cup print_indirect2_map(d, AddressesIn(d, pages))

output_dinode(d) ==
    print_direct_map({d.addrs[i] : i \in 0 .. (NDIRECT - 1)})
        \cup print_indirect1_map(d, {d.addrs[NDIRECT]})
        \cup print_indirect2_map(d, {d.addrs[NDIRECT + 1]})
        \cup print_indirect3_map(d, {d.addrs[NDIRECT + 2]})

count_leakblock(d) == d.used \ output_dinode(d)

-----------------------------------------------------------------------------
(* Properties.                                                             *)

\* The address arithmetic of imap2blockno() agrees with a walk of the trees:
\* file block i is the i-th data address met when the direct addresses and
\* then the three trees are read from left to right.
WalkAgrees ==
    LET Under1(b) == [i \in 1 .. NINDIRECT1 |-> IF b = None THEN None ELSE fs.ind[b][i - 1]]
        Under2(b) == FlattenSeq([i \in 1 .. NINDIRECT1 |-> Under1(Under1(b)[i])])
        Under3(b) == FlattenSeq([i \in 1 .. NINDIRECT1 |-> Under2(Under1(b)[i])])
        Walk == [i \in 1 .. NDIRECT |-> fs.addrs[i - 1]] \o Under1(fs.addrs[NDIRECT])
                \o Under2(fs.addrs[NDIRECT + 1]) \o Under3(fs.addrs[NDIRECT + 2])
    IN \A i \in 0 .. (MAXFILE_BLOCKS - 1) :
        Walk[i + 1] = LET b == Follow([fs |-> fs], Path(i)) IN IF b = NoWay THEN None ELSE b

\* No block is in the map twice: two positions never lead to one block.
NoSharing(addrs, ind) ==
    LET w == [fs |-> [addrs |-> addrs, ind |-> ind]]
    IN IsInjective([q \in Mapped(w) |-> Follow(w, q)])

\* While calls run, restart and interleave, the map in memory and the bitmap
\* agree, also after a crash: the allocated blocks are those that the map
\* reaches, each once.
MapExact ==
    fs.whole =>
        /\ NoSharing(fs.addrs, fs.ind)
        /\ {Follow([fs |-> fs], q) : q \in Mapped([fs |-> fs])} = fs.used

\* What a commit leaves on the disk is a whole file system: the diagnostic
\* tool finds no leaked block, the inode reaches no free block, and no block
\* is reached twice.  The commits that itrunc2size() makes on its way do not
\* have the inode; all others do.
WholeOnDisk ==
    /\ count_leakblock(durable) = {}
    /\ output_dinode(durable) \subseteq durable.used
    /\ NoSharing(durable.addrs, durable.ind)
DurableConsistent == durable.whole => WholeOnDisk

\* No call, whatever blocks it has to allocate, ends the process: the restarts
\* come before the assertion of imap2blockno() fires.
NoErrExit == err # "too many blocks in one op"

\* A call works on file blocks that there are, one after the other; an
\* operation has logged nothing before that, and a read not before its first
\* block, at which it does not test for a restart.
CallsInRange ==
    \A t \in Threads :
        LET c == call[t] IN
        /\ pc[t] = "idle" <=> c = NoCall
        /\ pc[t] \in {"idle", "start"} => op[t] = NewOp
        /\ pc[t] = "start" /\ c.kind \in {"read", "write"} =>
            c.next = c.first /\ c.first <= c.last /\ c.last < MAXFILE_BLOCKS
        /\ pc[t] = "block" => c.first <= c.next /\ c.next <= c.last /\ c.last < MAXFILE_BLOCKS
        /\ pc[t] = "block" /\ c.kind = "read" /\ c.next = c.first => op[t] = NewOp

\* Only a call that works on a block has an inode that is not saved.
InodeSaved ==
    (\A t \in Threads : pc[t] # "block") => fs.daddrs = fs.addrs /\ fs.dsize = fs.size

\* The last free block is never taken, nor committed as taken.
SpaceLeft == fs.used # Blocks /\ durable.used # Blocks

\* The sizes and addresses stay in range, no call dies in imap2blockno(), and
\* what is not saved or not counted belongs to a call that is at work.
MapInv == TypeOK /\ NoErrExit /\ CallsInRange /\ InodeSaved /\ SpaceLeft

\* If the bitmap is counted as one block, an operation logs no more blocks than
\* begin_op() reserved for it, the inode included that a restart or the end of
\* the call still has to save, although imap2blockno() may write far more than
\* the restarts leave room for.  It is the bitmap only that can go beyond the
\* reservation: itrunc() logs as many of its blocks as the file has bits in,
\* which are several on a disk of more than BPB blocks.
ReservationHolds ==
    \A t \in Threads : Cardinality((op[t].logged \ Bitmaps) \cup {IBLOCK}) + 1 <= MAXOPBLOCKS

-----------------------------------------------------------------------------
(* What does not hold.                                                     *)

\* Every commit leaves a whole file system.
EveryCommitConsistent == WholeOnDisk

\* An operation logs no more blocks than begin_op() reserved for it, on a disk
\* of any size.
ReservationAlwaysHolds ==
    \A t \in Threads : Cardinality(op[t].logged \cup {IBLOCK}) <= MAXOPBLOCKS

\* "3 is the max imap2blockno will write", the comment that the margins of
\* the restarts rest on.
ThreeWritesPerMap ==
    \A t \in Threads :
        pc[t] = "block" => imap2blockno(Work(t), call[t].next).w.op.n <= op[t].n + 3
=============================================================================
