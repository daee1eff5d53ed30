------------------------- MODULE BlockDeviceProofs --------------------------
(***************************************************************************)
(* disk_lock protects the read-write position, for any number of threads,  *)
(* blocks and contents, also when lseek() fails.                           *)
(***************************************************************************)
EXTENDS BlockDevice, TLAPS

\* block_device_init() establishes the invariant.
LEMMA InitDevice == Init => DeviceInv
  <1> SUFFICES ASSUME Init PROVE DeviceInv
      OBVIOUS
  <1>1. TypeOK
      BY DeviceAssumption DEF Init, TypeOK, Blocks, Asked, Labels
  <1>2. LockProtectsPosition /\ TransfersHitTheirBlock
      BY DEF Init, LockProtectsPosition, TransfersHitTheirBlock
  <1> QED
      BY <1>1, <1>2 DEF DeviceInv

\* A call that begins touches neither the lock nor the position.
LEMMA CallKeepsInv ==
    ASSUME NEW t \in Threads, NEW o \in {"read", "write"}, NEW b \in Asked, NEW v \in Vals,
           DeviceInv, Call(t, o, b, v)
    PROVE  DeviceInv'
  <1>1. TypeOK'
      BY DEF DeviceInv, TypeOK, Call, Labels
  <1>2. \A s \in Threads : s # t =>
            pc'[s] = pc[s] /\ op'[s] = op[s] /\ block_id'[s] = block_id[s] /\ buf'[s] = buf[s]
      BY DEF DeviceInv, TypeOK, Call
  <1>3. pc'[t] = "lock"
      BY DEF DeviceInv, TypeOK, Call
  <1>4. LockProtectsPosition' /\ TransfersHitTheirBlock'
      BY <1>2, <1>3 DEF DeviceInv, LockProtectsPosition, TransfersHitTheirBlock, Call
  <1> QED
      BY <1>1, <1>4 DEF DeviceInv

\* Nor does a thread that takes the lock.
LEMMA LockKeepsInv ==
    ASSUME NEW t \in Threads, DeviceInv, Lock(t)
    PROVE  DeviceInv'
  <1>1. TypeOK'
      BY DEF DeviceInv, TypeOK, Lock, Labels
  <1>2. \A s \in Threads : s # t => pc'[s] = pc[s]
      BY DEF DeviceInv, TypeOK, Lock
  <1>3. pc'[t] = "lseek"
      BY DEF DeviceInv, TypeOK, Lock
  <1>4. \A s \in Threads : pc[s] \notin {"lseek", "transfer", "unlock"}
      BY DeviceAssumption DEF DeviceInv, LockProtectsPosition, Lock
  <1>5. LockProtectsPosition' /\ TransfersHitTheirBlock'
      BY <1>2, <1>3, <1>4 DEF DeviceInv, LockProtectsPosition, TransfersHitTheirBlock, Lock
  <1> QED
      BY <1>1, <1>5 DEF DeviceInv

\* lseek() moves the position for the holder of the lock, or fails.
LEMMA LseekKeepsInv ==
    ASSUME NEW t \in Threads, DeviceInv, Lseek(t)
    PROVE  DeviceInv'
  <1>1. TypeOK'
      BY DeviceAssumption DEF DeviceInv, TypeOK, Lseek, Labels, Blocks
  <1>2. \A s \in Threads : s # t => pc'[s] = pc[s] /\ op'[s] = op[s]
      BY DEF DeviceInv, TypeOK, Lseek
  <1>3. \A s \in Threads : s # t => pc[s] \notin {"lseek", "transfer", "unlock"}
      BY DEF DeviceInv, LockProtectsPosition, Lseek
  <1>4. \/ pc'[t] = "idle"
        \/ pc'[t] = "transfer" /\ block_id[t] \in Blocks /\ off' = block_id[t]
      BY DEF DeviceInv, TypeOK, Lseek
  <1>5. disk_lock' = t
      BY DEF DeviceInv, LockProtectsPosition, Lseek
  <1>6. LockProtectsPosition' /\ TransfersHitTheirBlock'
      BY <1>2, <1>3, <1>4, <1>5
      DEF DeviceInv, LockProtectsPosition, TransfersHitTheirBlock, Lseek
  <1> QED
      BY <1>1, <1>6 DEF DeviceInv

\* The transfer works on the block that the call names.
LEMMA TransferKeepsInv ==
    ASSUME NEW t \in Threads, DeviceInv, Transfer(t)
    PROVE  DeviceInv'
  <1>0. off = block_id[t] /\ block_id[t] \in Blocks /\ disk_lock = t
      BY DEF DeviceInv, LockProtectsPosition, Transfer
  <1>1. TypeOK'
      <2>1. off' \in 0 .. NBlocks
          BY <1>0, DeviceAssumption DEF Transfer, Blocks
      <2>2. disk' \in [Blocks -> Vals] /\ content' \in [Blocks -> Vals]
          BY DEF DeviceInv, TypeOK, Transfer
      <2>3. disk[off] \in Vals
          BY <1>0 DEF DeviceInv, TypeOK
      <2>4. buf' \in [Threads -> Vals]
          BY <2>3 DEF DeviceInv, TypeOK, Transfer
      <2> QED
          BY <2>1, <2>2, <2>4 DEF DeviceInv, TypeOK, Transfer, Labels
  <1>2. \A s \in Threads : s # t => pc'[s] = pc[s] /\ buf'[s] = buf[s]
      BY DEF DeviceInv, TypeOK, Transfer
  <1>3. \A s \in Threads : s # t => pc[s] \notin {"lseek", "transfer", "unlock"}
      BY <1>0 DEF DeviceInv, LockProtectsPosition
  <1>4. pc'[t] = "unlock"
      BY DEF DeviceInv, TypeOK, Transfer
  <1>5. disk' = content'
      BY <1>0 DEF DeviceInv, TransfersHitTheirBlock, Transfer
  <1>6. op[t] = "read" => buf'[t] = content'[block_id[t]]
      BY <1>0 DEF DeviceInv, TypeOK, TransfersHitTheirBlock, Transfer
  <1>7. LockProtectsPosition'
      BY <1>0, <1>2, <1>3, <1>4 DEF LockProtectsPosition, Transfer
  <1>8. TransfersHitTheirBlock'
      BY <1>2, <1>3, <1>5, <1>6 DEF TransfersHitTheirBlock, Transfer
  <1> QED
      BY <1>1, <1>7, <1>8 DEF DeviceInv

\* The call returns and gives the lock back.
LEMMA UnlockKeepsInv ==
    ASSUME NEW t \in Threads, DeviceInv, Unlock(t)
    PROVE  DeviceInv'
  <1>1. TypeOK'
      BY DEF DeviceInv, TypeOK, Unlock, Labels
  <1>2. \A s \in Threads : s # t =>
            pc'[s] = pc[s] /\ pc[s] \notin {"lseek", "transfer", "unlock"}
      BY DEF DeviceInv, TypeOK, LockProtectsPosition, Unlock
  <1>3. pc'[t] = "idle"
      BY DEF DeviceInv, TypeOK, Unlock
  <1>4. LockProtectsPosition' /\ TransfersHitTheirBlock'
      BY <1>2, <1>3 DEF DeviceInv, LockProtectsPosition, TransfersHitTheirBlock, Unlock
  <1> QED
      BY <1>1, <1>4 DEF DeviceInv

\* The inductive invariant of block_device.c: types, the lock's protection of
\* the position, and every transfer at its block.
THEOREM DeviceInvariance == Spec => []DeviceInv
  <1>1. Init => DeviceInv
      BY InitDevice
  <1>2. DeviceInv /\ [Next]_vars => DeviceInv'
      <2> SUFFICES ASSUME DeviceInv, [Next]_vars PROVE DeviceInv'
          OBVIOUS
      <2>1. CASE UNCHANGED vars
          BY <2>1 DEF vars, DeviceInv, TypeOK, LockProtectsPosition, TransfersHitTheirBlock
      <2>2. ASSUME NEW t \in Threads, Step(t) PROVE DeviceInv'
          BY <2>2, LockKeepsInv, LseekKeepsInv, TransferKeepsInv, UnlockKeepsInv DEF Step
      <2>3. ASSUME NEW t \in Threads, NEW b \in Asked, read_block_raw(t, b) PROVE DeviceInv'
          <3>1. buf[t] \in Vals
              BY DEF DeviceInv, TypeOK
          <3> QED
              BY <2>3, <3>1, CallKeepsInv DEF read_block_raw
      <2>4. ASSUME NEW t \in Threads, NEW b \in Asked, NEW v \in Vals, write_block_raw(t, b, v)
            PROVE  DeviceInv'
          BY <2>4, CallKeepsInv DEF write_block_raw
      <2> QED
          BY <2>1, <2>2, <2>3, <2>4 DEF Next
  <1> QED
      BY <1>1, <1>2, PTL DEF Spec

\* What a thread writes to a block is in that block and what it reads is the
\* content of the block it asked for, whatever the other threads do between
\* its lseek() and its read() or write().
THEOREM Transfers == Spec => []TransfersHitTheirBlock
  <1>1. DeviceInv => TransfersHitTheirBlock
      BY DEF DeviceInv
  <1> QED
      BY <1>1, DeviceInvariance, PTL
=============================================================================
