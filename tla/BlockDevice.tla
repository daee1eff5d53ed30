---------------------------- MODULE BlockDevice -----------------------------
(***************************************************************************)
(* The block device of myfuse: src/src/block_device.c.                     *)
(*                                                                         *)
(* All threads share one file descriptor and its read-write position.  A   *)
(* read or a write of a block takes disk_lock, moves the position with     *)
(* lseek(), transfers the block and gives the lock back.  lseek() fails on *)
(* a block number behind the end of the device, and then the function      *)
(* returns at once.                                                        *)
(*                                                                         *)
(* Each system call is one step.  read_block_raw_nbytes() differs from     *)
(* read_block_raw() in the length it reads only.                           *)
(***************************************************************************)
EXTENDS Integers

CONSTANTS
    Threads,    \* threads that read and write blocks
    NBlocks,    \* blocks of the device
    NAsked,     \* the block numbers asked for are 0 .. NAsked - 1
    Vals,       \* contents of a block
    Nobody      \* holder of a free lock

ASSUME DeviceAssumption ==
    /\ NBlocks \in Nat \ {0}
    /\ NAsked \in Nat /\ NBlocks <= NAsked
    /\ Nobody \notin Threads

Blocks == 0 .. (NBlocks - 1)
Asked == 0 .. (NAsked - 1)

VARIABLES
    disk,       \* [Blocks -> Vals]
    off,        \* the read-write position of device_fd, in blocks
    disk_lock,  \* holder of the lock
    pc,         \* [Threads -> Labels]
    op,         \* [Threads -> {"none", "read", "write"}]
    block_id,   \* [Threads -> Asked], the argument
    buf,        \* [Threads -> Vals], the buffer
    content     \* history: [Blocks -> Vals], what the calls have written

vars == <<disk, off, disk_lock, pc, op, block_id, buf, content>>

Labels == {"idle", "lock", "lseek", "transfer", "unlock"}

TypeOK ==
    /\ disk \in [Blocks -> Vals]
    /\ off \in 0 .. NBlocks
    /\ disk_lock \in Threads \cup {Nobody}
    /\ pc \in [Threads -> Labels]
    /\ op \in [Threads -> {"none", "read", "write"}]
    /\ block_id \in [Threads -> Asked]
    /\ buf \in [Threads -> Vals]
    /\ content \in [Blocks -> Vals]

\* block_device_init().
Init ==
    /\ disk \in [Blocks -> Vals]
    /\ off = 0
    /\ disk_lock = Nobody
    /\ pc = [t \in Threads |-> "idle"]
    /\ op = [t \in Threads |-> "none"]
    /\ block_id = [t \in Threads |-> 0]
    /\ buf \in {[t \in Threads |-> v] : v \in Vals}
    /\ content = disk

Call(t, o, b, v) ==
    /\ pc[t] = "idle"
    /\ pc' = [pc EXCEPT ![t] = "lock"]
    /\ op' = [op EXCEPT ![t] = o]
    /\ block_id' = [block_id EXCEPT ![t] = b]
    /\ buf' = [buf EXCEPT ![t] = v]
    /\ UNCHANGED <<disk, off, disk_lock, content>>

write_block_raw(t, b, v) == Call(t, "write", b, v)
read_block_raw(t, b) == Call(t, "read", b, buf[t])

\* Mutant: no lock.
Lock_None(t) ==
    /\ pc[t] = "lock"
    /\ pc' = [pc EXCEPT ![t] = "lseek"]
    /\ UNCHANGED <<disk, off, disk_lock, op, block_id, buf, content>>

Lock(t) ==
    /\ pc[t] = "lock"
    /\ disk_lock = Nobody
    /\ disk_lock' = t
    /\ pc' = [pc EXCEPT ![t] = "lseek"]
    /\ UNCHANGED <<disk, off, op, block_id, buf, content>>

\* A failure returns -1, with disk_lock still held.
Lseek(t) ==
    /\ pc[t] = "lseek"
    /\ IF block_id[t] \in Blocks
       THEN /\ off' = block_id[t]
            /\ pc' = [pc EXCEPT ![t] = "transfer"]
            /\ UNCHANGED op
       ELSE /\ pc' = [pc EXCEPT ![t] = "idle"]
            /\ op' = [op EXCEPT ![t] = "none"]
            /\ UNCHANGED off
    /\ UNCHANGED <<disk, disk_lock, block_id, buf, content>>

\* read() and write() work at the position and move it by one block.
Transfer(t) ==
    /\ pc[t] = "transfer"
    /\ IF op[t] = "write"
       THEN /\ disk' = [disk EXCEPT ![off] = buf[t]]
            /\ content' = [content EXCEPT ![block_id[t]] = buf[t]]
            /\ UNCHANGED buf
       ELSE /\ buf' = [buf EXCEPT ![t] = disk[off]]
            /\ UNCHANGED <<disk, content>>
    /\ off' = off + 1
    /\ pc' = [pc EXCEPT ![t] = "unlock"]
    /\ UNCHANGED <<disk_lock, op, block_id>>

\* Mutant: the lock is kept.
Unlock_Keeps(t) ==
    /\ pc[t] = "unlock"
    /\ pc' = [pc EXCEPT ![t] = "idle"]
    /\ op' = [op EXCEPT ![t] = "none"]
    /\ UNCHANGED <<disk, off, disk_lock, block_id, buf, content>>

Unlock(t) ==
    /\ pc[t] = "unlock"
    /\ disk_lock' = Nobody
    /\ pc' = [pc EXCEPT ![t] = "idle"]
    /\ op' = [op EXCEPT ![t] = "none"]
    /\ UNCHANGED <<disk, off, block_id, buf, content>>

Step(t) == Lock(t) \/ Lseek(t) \/ Transfer(t) \/ Unlock(t)

Next ==
    \E t \in Threads :
        \/ Step(t)
        \/ \E b \in Asked : read_block_raw(t, b)
        \/ \E b \in Asked, v \in Vals : write_block_raw(t, b, v)

Spec == Init /\ [][Next]_vars

\* The lock starves nobody, and system calls return.
FairSpec == Spec /\ \A t \in Threads : SF_vars(Step(t))

-----------------------------------------------------------------------------

\* "after the lseek before the write the read-write position may be changed by
\* other threads" (block_device.c): the lock prevents that, so what was
\* written to a block is in that block, and a read returns it.
TransfersHitTheirBlock ==
    /\ disk = content
    /\ \A t \in Threads :
        pc[t] = "unlock" /\ op[t] = "read" => buf[t] = content[block_id[t]]

\* The inductive invariant behind it: only the holder of the lock works with
\* the file descriptor, and the position is the one that it asked for.
LockProtectsPosition ==
    \A t \in Threads :
        /\ pc[t] \in {"lseek", "transfer", "unlock"} => disk_lock = t
        /\ pc[t] \in {"transfer", "unlock"} => block_id[t] \in Blocks
        /\ pc[t] = "transfer" => off = block_id[t]

DeviceInv == TypeOK /\ LockProtectsPosition /\ TransfersHitTheirBlock

\* Every call returns, as long as no lseek() fails: after one that does,
\* disk_lock is never given back and nobody gets past it.
CallReturns ==
    [](\A t \in Threads : block_id[t] \in Blocks)
        => \A t \in Threads : pc[t] = "lock" ~> pc[t] = "idle"
=============================================================================
