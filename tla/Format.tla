------------------------------- MODULE Format -------------------------------
(***************************************************************************)
(* Formatting a disk (src/mkfs), mounting it (myfuse_init() in             *)
(* src/src/main.c) and what statfs and the diagnostic tool then read.      *)
(*                                                                         *)
(* The disk is a file that mkfs may extend.  mkfs may be killed between    *)
(* any two of its writes, and be run again.  An operation of the log is    *)
(* one step: Log shows that a crash does not split it.                     *)
(***************************************************************************)
EXTENDS Integers, FiniteSets, FiniteSetsExt

CONSTANTS
    MinBlocks,      \* mkfs refuses a disk of at most this many blocks
    NLOG,
    BPB,            \* bits in a block of the bitmap
    IPB,            \* inodes in a block
    Ratio,          \* one block of inodes for so many blocks
    UintRange,      \* 2 ^ the width of a uint
    Sizes,          \* disk sizes in blocks
    MaxBlocks       \* what a disk may grow to

ASSUME FormatAssumption ==
    /\ {MinBlocks, NLOG, BPB, IPB, Ratio, UintRange, MaxBlocks} \subseteq Nat
    /\ NLOG >= 1 /\ BPB >= 2 /\ IPB >= 2 /\ Ratio >= 1 /\ UintRange >= 1
    /\ Sizes \subseteq 0 .. MaxBlocks

ROOTINO == 1

VARIABLES
    size,       \* size of the disk
    oldfs,      \* the disk holds a file system of an earlier format
    disk,       \* [0 .. MaxBlocks - 1 -> blocks]
    cache,      \* bmap_cache of the running program, the bits that are set
    phase,      \* the loop or step of mkfs, or what the mounted program does
    i           \* the counter of the loop

vars == <<size, oldfs, disk, cache, phase, i>>

-----------------------------------------------------------------------------
(* The layout.                                                             *)

Nbitmap(n) == (n + BPB - 1) \div BPB

init_super_block(n) ==
    LET ninode_blocks == n \div Ratio + 1
        nmeta == 2 + NLOG + ninode_blocks + Nbitmap(n)
    IN  [size |-> n, ninodes |-> ninode_blocks * IPB, nblocks |-> (n - nmeta) % UintRange,
         logstart |-> 2, inodestart |-> 2 + NLOG, bmapstart |-> 2 + NLOG + ninode_blocks]

IBLOCK(sb, inum) == inum \div IPB + sb.inodestart
BBLOCK(sb, b) == b \div BPB + sb.bmapstart
nmeta_blocks(sb) == (sb.size - sb.nblocks) % UintRange

-----------------------------------------------------------------------------
(* The disk: a block of the disk before mkfs, the super block, or a set: the
   bits of a bitmap block, the inodes in use of an inode block.            *)

Block(kind, set) == [kind |-> kind, set |-> set]
Old == Block("old", {ROOTINO})      \* seen as a block of inodes, it has a root
Zeros == Block("data", {})
Super(sb) == Block("super", {sb.size})

S == init_super_block(size)

Bits == UNION {{k * BPB + b : b \in disk[S.bmapstart + k].set} : k \in 0 .. Nbitmap(S.size) - 1}

SetBit(b) ==
    /\ cache' = cache \cup {b}
    /\ disk' = [disk EXCEPT ![BBLOCK(S, b)].set = @ \cup {b % BPB}]

\* count_inodes() of the diagnostic tool, and the search of ialloc()
InodesInUse ==
    {inum \in 1 .. S.ninodes - 1 : inum % IPB \in disk[IBLOCK(S, inum)].set}

\* myfuse_statfs()
statfs == [f_blocks |-> S.nblocks, f_bfree |-> Cardinality((0 .. S.size - 1) \ cache)]

-----------------------------------------------------------------------------

Init ==
    /\ size \in Sizes
    /\ oldfs \in BOOLEAN
    /\ disk = [b \in 0 .. MaxBlocks - 1 |-> Old]
    /\ cache = {}
    /\ phase = "off"
    /\ i = 0

Goto(p, n) == phase' = p /\ i' = n

Start ==
    /\ phase = "off"
    /\ size > MinBlocks
    /\ Goto("zero", 0)
    /\ UNCHANGED <<size, oldfs, disk, cache>>

\* Mutant: the super block goes first.
ZeroBlock_SuperFirst ==
    /\ phase = "zero" /\ i < nmeta_blocks(S)
    /\ disk' = [disk EXCEPT ![i] = IF i = 1 THEN Super(S) ELSE Zeros]
    /\ i' = i + 1
    /\ UNCHANGED <<size, oldfs, cache, phase>>

ZeroBlock ==
    /\ phase = "zero" /\ i < nmeta_blocks(S)
    /\ disk' = [disk EXCEPT ![i] = Zeros]
    /\ i' = i + 1
    /\ UNCHANGED <<size, oldfs, cache, phase>>

\* The super block is written, and the log and the allocator are set up.
WriteSuper ==
    /\ phase = "zero" /\ i = nmeta_blocks(S)
    /\ disk' = [disk EXCEPT ![1] = Super(S)]
    /\ Goto("zero_bitmap", 0)
    /\ UNCHANGED <<size, oldfs, cache>>

ZeroBitmap ==
    /\ phase = "zero_bitmap" /\ i < Nbitmap(S.size)
    /\ disk' = [disk EXCEPT ![S.bmapstart + i] = Zeros]
    /\ i' = i + 1
    /\ UNCHANGED <<size, oldfs, cache, phase>>

block_allocator_refresh ==
    /\ phase = "zero_bitmap" /\ i = Nbitmap(S.size)
    /\ cache' = Bits
    /\ Goto("mark_meta", 0)
    /\ UNCHANGED <<size, oldfs, disk>>

\* Mutant: the last block of the bitmap stays free.
MarkMeta_OffByOne ==
    /\ phase = "mark_meta"
    /\ IF i < nmeta_blocks(S) - 1
       THEN SetBit(i) /\ Goto("mark_meta", i + 1)
       ELSE Goto("mark_tail", S.size) /\ UNCHANGED <<disk, cache>>
    /\ UNCHANGED <<size, oldfs>>

\* init_meta_blocks_bmap()
MarkMeta ==
    /\ phase = "mark_meta"
    /\ IF i < nmeta_blocks(S)
       THEN SetBit(i) /\ Goto("mark_meta", i + 1)
       ELSE Goto("mark_tail", S.size) /\ UNCHANGED <<disk, cache>>
    /\ UNCHANGED <<size, oldfs>>

MarkTail ==
    /\ phase = "mark_tail"
    /\ IF i < Nbitmap(S.size) * BPB
       THEN SetBit(i) /\ Goto("mark_tail", i + 1)
       ELSE cache' = Bits /\ Goto("super", 0) /\ UNCHANGED disk
    /\ UNCHANGED <<size, oldfs>>

WriteSuperAgain ==
    /\ phase = "super"
    /\ disk' = [disk EXCEPT ![1] = Super(S)]
    /\ Goto("root", 0)
    /\ UNCHANGED <<size, oldfs, cache>>

\* Its assertion says that ialloc() found ROOTINO.
add_rootinode ==
    /\ phase = "root"
    /\ LET inum == Min((1 .. S.ninodes - 1) \ InodesInUse)
       IN  disk' = [disk EXCEPT ![IBLOCK(S, inum)].set = @ \cup {inum % IPB}]
    /\ Goto("done", 0)
    /\ UNCHANGED <<size, oldfs, cache>>

\* The program ends or is killed.
Stop ==
    /\ phase # "off"
    /\ Goto("off", 0)
    /\ cache' = {}
    /\ UNCHANGED <<size, oldfs, disk>>

\* A disk with another magic number ends myfuse_init().
HasMagic == disk[1].kind = "super" \/ (disk[1].kind = "old" /\ oldfs)

myfuse_init ==
    /\ phase = "off"
    /\ HasMagic
    /\ cache' = Bits
    /\ Goto("mounted", 0)
    /\ UNCHANGED <<size, oldfs, disk>>

\* The first call reads the root: ilock() ends the process if it is unused.
Serve ==
    /\ phase = "mounted"
    /\ IF ROOTINO \in InodesInUse THEN Goto("serving", 0) ELSE Goto("off", 0)
    /\ UNCHANGED <<size, oldfs, disk, cache>>

Next == \/ Start \/ ZeroBlock \/ WriteSuper \/ ZeroBitmap \/ block_allocator_refresh
        \/ MarkMeta \/ MarkTail \/ WriteSuperAgain \/ add_rootinode
        \/ Stop \/ myfuse_init \/ Serve

Spec == Init /\ [][Next]_vars

-----------------------------------------------------------------------------
(* Properties.                                                             *)

\* The copy of the bitmap in memory has no bit past its last block.
TypeOK ==
    /\ size \in Sizes /\ oldfs \in BOOLEAN
    /\ disk \in [0 .. MaxBlocks - 1 -> [kind : {"old", "data", "super"}, set : SUBSET Nat]]
    /\ cache \subseteq 0 .. Nbitmap(size) * BPB - 1
    /\ phase \in {"off", "zero", "zero_bitmap", "mark_meta", "mark_tail", "super", "root", "done",
                  "mounted", "serving"}
    /\ i \in 0 .. MaxBlocks + BPB

\* The regions follow each other and the last one ends on the disk: every
\* inode has its place between inodestart and bmapstart, the bit of every
\* block is between bmapstart and the first data block.
LayoutOf(sb) ==
    /\ sb.logstart + NLOG = sb.inodestart
    /\ \A inum \in 0 .. sb.ninodes - 1 : IBLOCK(sb, inum) \in sb.inodestart .. sb.bmapstart - 1
    /\ \A b \in 0 .. sb.size - 1 : BBLOCK(sb, b) \in sb.bmapstart .. nmeta_blocks(sb) - 1
    /\ nmeta_blocks(sb) + sb.nblocks = sb.size

\* What is marked: the metadata, and the bits past the end of the disk.
BitmapExact ==
    Bits = (0 .. nmeta_blocks(S) - 1) \cup (S.size .. Nbitmap(S.size) * BPB - 1)

\* A program that serves calls has either the file system from before mkfs,
\* untouched, or a finished one: wherever mkfs was killed, a mount never
\* gives out a block of metadata and never installs an old log.
ServingIsSound ==
    phase = "serving" =>
        \/ oldfs /\ \A b \in 1 .. S.size - 1 : disk[b] = Old
        \/ /\ disk[1] = Super(S) /\ disk[S.logstart] = Zeros
           /\ BitmapExact
           /\ InodesInUse = {ROOTINO}

\* What mkfs leaves is laid out on the disk, nothing is in use but the root,
\* and the free blocks that statfs counts are the data blocks.
FormatComplete ==
    phase = "done" =>
        /\ LayoutOf(S)
        /\ BitmapExact
        /\ InodesInUse = {ROOTINO}
        /\ statfs.f_bfree = statfs.f_blocks

\* Every disk has room for its metadata, and its size is a uint.  mkfs does
\* not test the first.
MetaEnd(n) == init_super_block(n).bmapstart + Nbitmap(n)
LayoutFits == \A n \in Sizes : MetaEnd(n) <= n /\ n < UintRange

\* What mkfs may find or leave: the disk from before, one without the magic
\* number, one with a super block and no inode yet, and a complete one.
Zeroed(from, to) == \A b \in from .. to - 1 : disk[b] = Zeros
Untouched == \A b \in 1 .. size - 1 : disk[b] = Old
NoMagic == disk[1] = Zeros
NoRoot == disk[1] = Super(S) /\ Zeroed(2, S.bmapstart)
Finished ==
    /\ disk[1] = Super(S) /\ Zeroed(2, S.inodestart)
    /\ disk[S.inodestart] = Block("data", {ROOTINO}) /\ Zeroed(S.inodestart + 1, S.bmapstart)
    /\ BitmapExact
AnyDisk == Untouched \/ NoMagic \/ NoRoot \/ Finished

\* How far each loop of mkfs has come.  The first block is not part of the
\* file system, so that up to the second nothing is lost.
MkfsProgress ==
    /\ phase = "off" => AnyDisk
    /\ phase = "zero" => i <= MetaEnd(size) /\ IF i < 2 THEN AnyDisk ELSE Zeroed(1, i)
    /\ phase = "zero_bitmap" => i <= Nbitmap(size) /\ NoRoot /\ Zeroed(S.bmapstart, MetaEnd(size))
    /\ phase = "mark_meta" => i <= MetaEnd(size) /\ NoRoot /\ Bits = 0 .. i - 1
    /\ phase = "mark_tail" =>
        i >= size /\ i <= Nbitmap(size) * BPB /\ NoRoot /\ Bits = (0 .. MetaEnd(size) - 1) \cup (size .. i - 1)
    /\ phase \in {"super", "root"} => NoRoot /\ BitmapExact
    /\ phase = "done" => Finished
    /\ phase = "mounted" => (oldfs /\ Untouched) \/ NoRoot \/ Finished
    /\ phase = "serving" => (oldfs /\ Untouched) \/ Finished

\* The bits of the bitmap are in its blocks, and in memory.
BitsInBlocks == \A b \in S.bmapstart .. MetaEnd(size) - 1 : disk[b].set \subseteq 0 .. BPB - 1
CacheCurrent ==
    phase \in {"mark_meta", "mark_tail", "super", "root", "done", "mounted", "serving"} => cache = Bits

\* No bit is set behind the bitmap, what mkfs leaves is complete, and
\* wherever it is killed the disk has no root or no magic number.
FormatInv == TypeOK /\ MkfsProgress /\ BitsInBlocks /\ CacheCurrent /\ FormatComplete

-----------------------------------------------------------------------------
(* What does not hold.                                                     *)

\* A disk that mkfs does not refuse as too small has a block to give out.
FormattedHasRoom == phase = "done" => statfs.f_bfree > 0
=============================================================================
