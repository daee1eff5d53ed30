# A TLA+ model of myfuse

myfuse is a small file system on FUSE in the manner of xv6: a file layer over
directories, inodes, a write-ahead log, a buffer cache and a block device. This
directory holds TLA+ modules that model its layers from the code, TLC
configurations that check them on small instances, and proofs, checked by
TLAPS, that hold for every size. Source paths below are relative to the
repository.

## The system

Many threads serve calls at a time (the FUSE library starts them). A call opens
an operation of the log, works on inodes through the buffer cache, and closes the
operation. All state on disk changes through the log.

| component | state | operations | who uses it |
|---|---|---|---|
| block device (`src/block_device.c`) | one file descriptor with a position, `disk_lock` | read, write a block | buffer cache, mount |
| buffer cache (`src/buf_cache.c`) | hash buckets with spin locks; buffers with block number, reference count, mutex, data | `bread`, `bwrite`, `brelse`, `bpin`, `bunpin` | log, and through it all others |
| log (`src/log.c`) | header in memory and on disk, `outstanding`, `committing`, the log blocks | `begin_op`, `end_op`, `logged_write`, recovery | every call |
| block allocator (`src/block_allocator.c`) | bitmap on disk, copy and summaries in memory | `block_alloc`, `block_free`, refresh | inode content |
| inode table (`src/inode.c`) | entries with number, reference count, mutex, copy of the inode | `iget`, `ialloc`, `ilock`, `iupdate`, `iput` | directories, files |
| inode content (`src/inode.c`) | block addresses, three levels of indirect blocks, size | `imap2blockno`, `itrunc`, `itrunc2size`, read, write | directories, files |
| directories and paths (`src/directory.c`) | entries in the content of an inode | `dirlookup`, `dirlink`, `namex` | files |
| files (`src/file.c`) | table of open files | the FUSE handlers | FUSE |
| mkfs, mount (`mkfs/`, `src/main.c`) | superblock, initial bitmap, root inode | format, mount | |
| diagnostic tool (`diagnostic/`) | none | prints a disk | |

What is hard in it, and where the hazards of `PROJECT.json` come from:

* *Crashes.* The process may die between any two writes, also during recovery.
* *Steps between two locks.* `commit()` runs without the lock of the log,
  `brelse()` unlocks before it drops its reference, `iput()` gives the table up to
  free an inode, `block_alloc()` zeroes its block after its unlock.
* *Lock order.* Spin locks of two buckets; a mutex under a spin lock; inode before
  directory in one call and directory before inode in another.
* *Bounds.* The room in the log, the number of buffers, the last free block, the
  number of inodes.
* *Wakeups* of threads that wait for room in the log.

What makes each part correct: the device transfers the block asked for; the cache
has one buffer per block and shows its last content; the log makes operations
atomic and durable; the allocator neither loses a block nor hands one out twice;
the inode table keeps an inode alive for whoever refers to it and frees it
afterwards; the block map, the bitmap and the indirect blocks agree, in memory and
after every commit; a file is an array of bytes; the directories are a tree whose
names change one at a time, with exact link counts; calls end their operation, stay
inside its reservation, release their locks and never wait for each other in a
circle; what is mounted is a complete file system.

## The modules

| module | models | extends |
|---|---|---|
| `TxnStore` | what the log promises: an atomic block store (`include/log.h`) | |
| `Log` | `src/log.c` | instantiates `TxnStore` |
| `LogProofs` | theorems about `Log` | `Log` |
| `LogLeak` | the log under the calls of `src/file.c` that return without `end_op()` | `Log` |
| `BufCache`, `BufCacheProofs` | `src/buf_cache.c` and its theorems | |
| `BlockAllocator`, `BlockAllocatorProofs` | `src/block_allocator.c` over the atomic store, and its theorems | |
| `InodeTable`, `InodeTableProofs` | the table part of `src/inode.c` under create, lookup, unlink, release, and its theorems | |
| `BlockDevice`, `BlockDeviceProofs` | `src/block_device.c` and its theorems | |
| `BlockMap`, `BlockMapProofs` | the map from file blocks to disk blocks in `src/inode.c`, the walk of `diagnostic/` over it, and theorems | |
| `FileData`, `FileDataProofs` | the bytes that reads, writes and truncations of `src/inode.c` move, and theorems | |
| `PathNames` | paths and names as bytes, `src/directory.c` | |
| `Namespace` | what the calls on names promise: a tree | |
| `NameOps` | `src/file.c`, `src/directory.c` and the inode table, one step per call | instantiates `Namespace` |
| `CallLocks` | the order of `ilock`, `begin_op` and their ends in the calls of `src/file.c` | |
| `Format`, `FormatProofs` | `mkfs/`, the mount in `src/main.c`, `statfs`, `count_inodes`, and theorems | |
| `MC...` | symmetry sets for TLC | the module they are named after |

### Log

A section under `fslog.lock` is one action. The loops of `write_from_cache_to_log`
and `install_transaction` take one step per block, because they run without the
lock and every iteration writes to the disk. `disk`, `dlog` and `dhdr` are on disk;
the rest is memory and is lost in `Crash`. The buffer cache appears as one content
per block, `cache`, with `pins`; any block without a pin may be evicted at any
moment. Reading, changing and `logged_write`-ing a block is one step since the
buffer stays locked. The log header is written by one `bwrite` and is atomic in
the model. `Crash` is the death of the process: writes reach the disk in the order
in which they were issued, as the page cache of the kernel has them. A power failure
is not modelled.

`err` records the `err_exit` that ended the process, which then behaves as after
a crash. `OpLimit` bounds the calls of `logged_write` in one operation, and the runs use
`MAXOPBLOCKS - 1`. It is an assumption about the callers, which they keep in blocks and not
in calls: one `imap2blockno()` may call it eleven times and `itrunc()` any number of times,
mostly for blocks that the log has already, and a call for such a block takes no room. How
many blocks an operation logs is in `BlockMap`.

`LogLeak` adds one action, the return of `myfuse_open`, `myfuse_access`,
`myfuse_chmod` or `myfuse_rename` with `-ENOENT` inside an operation.

### BufCache

A section under one spin lock is one action; the step from the lock of a bucket to
the lock of the next one is an action of its own, so that two threads may spin for
each other's bucket. A bucket is the set of its buffers: the order of its list
decides only which free buffer is taken, and the model lets any be taken. Block 0 is
never read in the code, and an empty buffer has number 0.

A thread may hold up to `MaxHeld` buffers (`held`) and ask for one more, as the code does:
`log.c` has a log block and asks for its home block (`log.c:43`, `log.c:134`), `inode.c` has
an indirect block and asks for the one it leads to and for the bitmap (`inode.c:259`,
`inode.c:361`), up to four at a time. It asks in the order `Level`: log blocks before home
blocks, an indirect block before what it leads to, the bitmap last. The order is a constant,
although a block may serve as another kind later: it changes its kind only when it is free
and nobody holds it. The log is in the guards of `BrelseUnlock`, `logged_write` and `bunpin`:
a changed buffer is released only when it is pinned or written, and the pin is taken under
`fslog.lock`, with the mutex of the buffer held.

### BlockAllocator

`block_alloc` up to its unlock and `block_free` are one action each. The bitmap is
a set of bits; a write copies one byte of the copy in memory to disk, as the code
does. `durable` is what the log keeps: the last `end_op` commits everything, and a
crash goes back to it. `owned` stands for the blocks that inodes refer to. The
arithmetic of `unsigned int` is modulo `UINT`: block number `-1 + 0 * BPB` is
`UINT - 1`, no bit of the bitmap, and setting it is a memory fault
(`block_alloc_dies`). Taking the last free block ends the process as well.

### InodeTable

Each section under `itable.lock`, each access to an inode of the disk under the
lock of its buffer, and each mutex operation is an action. `iput` of the last
reference to an unlinked inode takes four: lock the entry; truncate, mark unused
and `iupdate`; clear `valid` and unlock; drop the reference. `myfuse_unlink` gives the
directory up last, except when another thread has unlinked the file before it: then first.
`ialloc` looks at one
inode per step. All files are in one directory: `linked` is the set of inodes with
an entry, `dir` the lock of the directory. `myfuse_unlink` looks the name up once
more while it holds a reference and both locks; that extra reference comes and goes
without being seen and is left out. There are no hard links, so names are left out
too: two creates of the same name are kept apart by the kernel. `gen` and `seen`
are history variables that tell two lives of an inode number apart; they count
modulo `NGen`, and 2 is enough, since the first reuse already shows.

### BlockDevice

One action per system call, the same four for the three functions, which differ in
the direction and the length of the transfer. `lseek` fails on block numbers behind
the device's end.

### BlockMap

A file with `NDIRECT` direct addresses and trees of depth 1, 2 and 3. `Path(bn)` is
the index arithmetic of `imap2blockno()`. A path has at most four elements, and the
function is a chain of four steps along it, each of which loads an entry and allocates
the block that is missing; `imap2blockno_free()` follows the path without allocating,
except for the root of the second tree, as its code does (a read allocates). `Positions`
are the places that the loops of `itrunc()` visit, those of indirect blocks included.
Taking the last free block ends the process, and so does the assertion at the start of
`imap2blockno()`; `err` keeps the message, and the next mount finds what was committed.
The work on one file block is a step. `op` counts `n_log_wrote`
and keeps the set of blocks logged; an operation that nears `MAXOPBLOCKS` is ended
and begun again, by reads and writes with `iupdate()` and without the lock, by
`itrunc2size()` with the lock and without `iupdate()`. The log is the atomic store.
The kernel's lock of an inode (a write or a truncation excludes other calls that
change the file, not reads) is the guard `MayCall`. The ghost field `whole` turns false
when `itrunc2size()` commits in the middle of its work, which is known to leave the
disk inconsistent until the truncation ends, and for ever after a crash; `MapExact` and
`DurableConsistent` are claimed for everything else.

### FileData

The same loops, for the bytes: first, whole and last block with `BSIZE` bytes each,
against a reference array. A read gives up its lock between blocks, so what it
returns must be, byte by byte, something the file had during the call. Truncation
keeps the bytes of the last block behind the new end, and a later extension shows
them again: the reference follows the code in this, which differs from POSIX. A
truncation to more than the largest size ends the process in `imap2blockno()`, which
`itrunc2size()` calls for the blocks that the file has not yet, and so does a transfer
at exactly the largest size.

### PathNames

Names are sequences of bytes in buffers of `DIRSIZE` that need not end in NUL and
that hold the bytes of the element before. The reference takes a path apart by its
slashes. One directory stands for the one that the walk ends in. That the buffers keep their
size is part of the model's types and no result; where the code copies a name with `strcpy()`
(`directory.c:13`, `file.c:142`) `listing` has what a missing NUL adds to it, and the room in
`file_name` is not modelled.

### NameOps and Namespace

Each call is a function from the state of the process and the disk to the state after
it, built from `iget`, `ilock`, `dirlookup`, `namex` and the others as the code is,
with every early return. `err` records an `err_exit` or a lock that is never
released. An index of the table stands for a `struct inode *`; an entry keeps the
type of the inode that was in it before, which `myfuse_truncate()` reads. A crash
clears memory. The ghost field `lost` holds the inodes of which the code is known never to
give a reference back (`myfuse_rmdir()`, `-EISDIR` of `myfuse_truncate()`), and the
files that were open without a name when the process died; `RefExact` and `Reclaimed`
are claimed but for these, so any other leak breaks them. `Kernel` says whether calls come from the kernel, which has looked the
names up (it asks for `mkdir` only where there is no entry), or from anywhere, as in
the tests. `Namespace` is the abstract specification: a set of entries to which one is
added, from which one is removed, or in which one is moved, and which stays a tree. What
`myfuse_rename()` makes of a target that exists is not what its callers expect, and
`Namespace` says what it is: `Displace` (onto a file the source loses its name and gets no
other), `Move` (onto a directory the source moves into it, under its old name, and is
displaced if that is taken there) and `Exchange` (the two change their directories, both
under the name of the source, and the second is displaced if that is one place). The ghost
`displaced` has the inodes that lost their name like this; `LinkCountExact` and `Reclaimed`
say what becomes of them. `myfuse_rename()` reads the type of the target without its lock, so
it may be that of the inode that had the entry of the table before: a source may be linked
into a file, where it is no name. The modules follow the build without `DEBUG`; with it,
`dirlink()` and an assertion of `myfuse_rename()` (`file.c:614`) would end the process there.

### CallLocks

A call is a sequence of `begin_op`, `ilock`, `iunlock`, `end_op` on a tree of six
inodes (a directory and a file in the root, a directory and two files in that directory, of
which one is being created); a rename goes to a free name, onto each other file or directory,
and exchanges; room in the log is counted in reservations. `NoDeadlock` says that whenever
somebody waits, some thread can go on. What the kernel locks around calls (parent
directories of `create`, `unlink`, `rmdir`, `rename`) is `Compatible`: without it
`unlink` and `rmdir` could lock two inodes in opposite orders.

### Format

mkfs takes one step per block or operation and may be killed before each of them and
run again, on a disk that has anything on it before. `uint` arithmetic is modulo
`UintRange`. The mount tests the magic number, recovers, refreshes and serves.
`LayoutFits` says that a disk has room for its metadata. mkfs does not test it: it
accepts disks of more than 100 blocks, and the log alone has 1016.

## The runs

| run | instance | shows |
|---|---|---|
| `log` | 2 threads, 3 blocks of 2 values, room for 2 operations | `AtomicStore` (refinement of `TxnStore`), durability, pins, eviction, exclusion of commits, the inductive invariant `LogInv`; the reservation is enough for operations that keep to it, sleepers are woken |
| `log_leak` (violation) | 2 threads | operations left open by `-ENOENT` block the file system |
| `buf_cache` | 2 threads with up to 2 buffers each, 2 buffers, 4 blocks, 3 buckets, 1 pin | one buffer per block, exact counts, no stale content; threads come to a stop in two ways only, both in the search of `bget()` |
| `allocator` | 2 threads, 3 bitmap blocks of 4 bits, 7 data blocks, 2 bits to a byte | exact ownership and summaries across crashes; the hint stays good once it is |
| `inode_table` | 3 threads, 2 inodes, a table of 1 entry that grows to 4 | exact references, inodes kept and freed correctly, no deadlock |
| `device` | 2 threads, 2 blocks, 1 number behind the end | transfers hit their block; calls return as long as no `lseek` fails |
| `block_map` | 2 threads, 1 direct address, 2 addresses per block (15 file blocks), a disk of 24 blocks, 3 calls or crashes | map, bitmap and diagnostic walk agree, in memory and in what is committed; on a disk with 13 bitmap blocks, no operation exceeds its reservation by anything but bitmap blocks |
| `file_data` | 2 threads, 4 blocks of 2 bytes, 3 calls | content and reads are those of an array of bytes; the process ends only for a transfer at exactly the largest size or a truncation behind it |
| `path_names` | all paths of up to 5 bytes, `DIRSIZE` 3, 2 entries | walks, directories and listings of short names are exact |
| `names` | 2 names, 3 inodes, depth 2, 2 open files, all calls of the kernel and crashes | refinement of `Namespace`, link counts, lookups, references, reclaimed inodes, with what renames onto existing targets lose |
| `call_locks` | 3 threads, 6 inodes, room for 3 operations | no deadlock among locks and log space |
| `format` | 10 disk sizes around bitmap and inode block boundaries | what is mounted is the old or a complete new file system |

The type invariant of a module is a conjunct of the property that is closest to it
(`LogInv`, `CacheInv`, `AllocatorInv`, `TableInv`, `MapInv`, `NamesInv`, `LocksInv`,
`FormatInv`, `PathInv`, `DataInv`).

Bounds. In `log` two threads are enough to commit beside an operation and to crash in
every position; two blocks of one transaction are needed to see it torn, and a third
to see one that is not in it; the log has room for two operations, so that `begin_op()`
waits for room and for a commit. Two buffers for four blocks in three buckets make
hits, recycling and stealing happen, also of a buffer that another thread is about to
release; with two buffers held each, a thread waits for a buffer while it holds one, and all
buffers may be in use. Two threads spin for each other's bucket, or one searches on and on
while the other spins for its bucket. (The same holds of 3 threads, 2 buffers, 3 blocks and 2
buckets, which was checked once.) Three bitmap blocks
are needed to choose among the others when one is full; meta blocks share the first
and bits behind the disk the last. Three threads in the inode table let one free an
inode, one reuse it and one refer to it. Two addresses per indirect block give each of
the three trees more than one branch at every level, and 3 calls suffice to write,
shrink and write or read again; the offsets and sizes lie in different trees. A whole
file has 26 blocks with its indirect ones, so a disk of 24 is large enough for all shapes
of the trees and still fills up, and with `BPB` 2 its bits are in 13 bitmap blocks. Two names
and three inodes give a directory in the root with a file that moves between them, renames
onto it and exchanges, and reuse of an inode and of an entry. An exchange between two
directories, and a rename into a directory where the name is taken, need a fourth inode:
`NInodes = 4`, `NSlots = 5`, `MaxOpen = 1` with the calls that change names was checked once
(165,575 states). `FileData` has transfers of one to four blocks,
aligned and not, that end before, at and behind the largest size, and truncations to the
middle and the end of a block and behind the largest size. In `Format` sizes just
at, below and above multiples of a bitmap block and of the inode ratio are taken.
`DIRSIZE` 3 and paths of 5 bytes make names shorter than, as long as and longer than the
buffer.

Deadlock is checked in every run except `buf_cache` and `device`, where the code can
stop, in the ways that their properties name; and `format` and `file_data`, where a
refused disk, an ended process or the bound on calls ends the behaviour.

Fairness. `Log!FairSpec` assumes that a thread inside a call goes on when it can
(weak fairness of its steps; the scheduler runs every thread, and a call that has
begun ends its operation). It forces no new call, no write, no spurious wakeup and
no crash. In `BlockDevice` the mutex may be taken by others again and again, so the
steps have strong fairness: nobody is starved by a lock that is free infinitely often.

## The finding

`log_leak`: `file.c` returns `-ENOENT` inside an operation in four handlers, and
`begin_op()` then sleeps for ever, where `log.h` promises that it sleeps until the last
`end_op()` commits.

## What does not hold

What the code, its comments or the shape of the system suggest and the modules refute.
The runs check the nearest statement that does hold. The last column says how to see
the refutation: the property to put into the run's configuration, and the constants to
change.

| what does not hold | where | how to see it |
|---|---|---|
| Two misses never wait for each other: `bget()` takes the spin locks of two buckets in either order | `buf_cache.c:99` | `buf_cache` with the deadlock check |
| A search ends: with every buffer in use `bget()` searches on and on with its bucket locked, and `brelse()` and `bpin()` of a buffer in that bucket spin for ever | `buf_cache.c:91` | `buf_cache`: `\A t \in Threads : ~Loops(t)` |
| Calls of the device return: a failed `lseek()` keeps `disk_lock` | `block_device.c:43` | `device`: `\A t \in Threads : pc[t] = "lock" ~> pc[t] = "idle"` |
| The allocator's hint is good at a mount: `block_allocator_refresh()` does not set `first_free_cache` | `block_allocator.c:40` | `allocator`: `HintHasRoom` |
| `iput()` frees what has no name and no reference: the inode may be reused before the reference is dropped | `inode.c:208` | `inode_table`: `NoOrphan` |
| Every commit is a whole file system: `itrunc2size()` commits in the middle without `iupdate()` | `inode.c:428` | `block_map`: `EveryCommitConsistent` |
| `imap2blockno()` logs at most 3 writes: it is up to 11, most of them on the same blocks | `inode.c:648` | `block_map`: `ThreeWritesPerMap` |
| `itrunc()` stays inside its reservation: it logs every bitmap block in which the file has a bit (a disk of more than 32768 blocks, such as that of the inode test, has several) | `inode.c:352` | `block_map`: `ReservationAlwaysHolds` |
| A truncation may wait for the log: `itrunc2size()` calls `begin_op()` with `ip->lock` held | `inode.c:430` | `call_locks`: `TruncateRestarts = {2}` |
| `myfuse_rmdir()` gives its references back; a file unlinked while open is freed after a crash | `file.c:407`, `file.c:353` | `names`: `RefExact` and `Reclaimed` without `lost` |
| `myfuse_truncate()` refuses directories only: it reads the type of an entry that is not valid | `file.c:445` | `names`: `TruncateRefusesDirs` |
| `myfuse_rename()` onto a target that exists leaves every inode a name | `file.c:596`, `file.c:622` | `names`: `fs.displaced = {}` |
| `myfuse_mkdir()` of a taken name leaves nothing locked (the kernel never asks for it) | `file.c:291` | `names`: `Kernel = FALSE`, `Calls = {"mkdir"}`, `RefExact` |
| `myfuse_open()` with `O_CREAT`, which a test calls, counts its link | `file.c:220` | `names`: `Kernel = FALSE`, `Calls = {"open_creat"}`, `LinkCountExact` |
| A disk that mkfs accepts has room | `mkfs.myfuse.cc:59` | `format`: `FormattedHasRoom` with `NLOG = 10`, `BPB = 32` |
| Names of `DIRSIZE` bytes are listed as they are | `directory.c:13` | `path_names`: `NamesListed` |
| The assertion of `skiptoend()` | `directory.c:154` | `path_names`: `SkiptoendAssertion` |
| A transfer at the very end of the largest file returns | `inode.c:613` | `file_data`: `err = "none"` |

The hint matters on large disks: when the meta blocks fill the first bitmap block (more
than about 1.5 million blocks, 6 GiB), the first allocation after a mount fails.

## The proofs

`LogProofs` proves for all threads, blocks, contents and sizes that satisfy
`LogAssumption`:

* `Invariance`: `LogInv` is an invariant. It is inductive: the properties alone are
  not, because what a crash leaves in the middle of a commit depends on how far the
  loops are. `HeaderInv` ties the header on disk to the one in memory (empty, except
  from the commit point to its clearing); `CopyInv` says which log blocks equal the
  cached and the installed contents at each position of the loops;
  `RecoveryRunsAlone`, `CommitRunsAlone` and `OutstandingIsCount` exclude the
  interleavings in which the loops would read something that changes;
  `PinnedWhileLogged`, `PinnedIsCached` and `EvictionLosesNothing` keep the logged
  contents in the cache until they are installed.
* `Atomicity`: `Log` implements `TxnStore`. The refinement mapping takes `durable`
  to what recovery would leave (`Durable`) and `view` to what a read returns. Only
  the write of the header changes `Durable`; each iteration of an installation
  rewrites a block with the content that `Durable` already has.
* `Durability`, `NoLostWakeup`, `CommitExclusion`, `PinExactness`, `TypeCorrectness`
  follow from `LogInv`.

The number of logged writes per operation plays no part in them: they hold also
for operations that break their limit, which then end the process. `ReservationSuffices`
is about those that keep it, under `RoomForAll`: `OpLimit` is less than `MAXOPBLOCKS` by
what the log area, whose first block is the header, is short of `NLOG` (by 1, since
`sb.nlog` is `NLOG`). Its invariant counts what the open operations have reserved
and not used, as the set `Unspent` of pairs of an operation and a call that is left to it:
the blocks in the header and these fit in `NLOG`. A call of `logged_write()` takes one
pair away and adds at most one block; `begin_op()` adds `MAXOPBLOCKS` pairs where it has
tested that there is room for them beside the full share of every open operation. The
pairs that are left to the caller of `logged_write()` then cover the block of the header.

`BlockDeviceProofs` proves `DeviceInvariance` and `Transfers`: only the holder of
`disk_lock` works with the position, so every transfer is at its block.

`BufCacheProofs`, for any threads, buffers, blocks and buckets
(`CacheAssumption`): `CacheInv`, `RefcntExact` and `HolderSeesContent` are inductive
together. A recycled buffer is free because its count is exact; the count stays exact
because a buffer does not change its block under a thread that refers to it
(`RefersToItsBlock`), which needs the count. That two threads do not bring one block in
twice rests on `SpinHeld`: whoever searches other buckets keeps the lock of its own, so
the block stays uncached. `LockHeld`, `DataCurrent` and `DiskCurrent` carry the content:
what the disk lacks is in a buffer that is pinned or held, so a recycled buffer can be
read again. `OnlyDeadlock` is about any set of threads of which each waits for a lock that
another of them holds, or searches in vain. If none searches in vain, look at those that wait
for the mutex of a buffer: the one that waits for the block of the highest `Level` waits for a
holder that is in the set too and asks for nothing later, so it waits for a bucket or for
`fslog.lock` (`CallsInOrder`); whoever holds `fslog.lock` waits for a bucket, in `bpin()`; and
a bucket is held by a search, which waits for the bucket of another search (`SpinHeld`). So
the searches of the set wait for each other. `ExhaustedByPins` says when a search is in vain:
the pins of the log and the buffers that the threads may hold add up to the whole cache.

`InodeTableProofs`, for any threads, inodes and table (`TableAssumption`): `TableInv`,
`RefExact` and `ReferenceKeepsInode` are inductive together. The difficulty is `iput()`,
which frees an inode on disk before it drops its reference, and `ialloc()`, which may
take the inode again in between. `CreatorAlone` says that nobody else relies on an inode
that is being created or freed; `LinksHeld` that a thread gets at an inode by a name only
while it holds the directory; `CopyExact` that the entry agrees with the disk except
between those two steps (`Freed`). `FreeingNeverWaits` follows from the exact count: with
`ref` 1 no other thread has a pointer, so none holds the lock.

`BlockAllocatorProofs`, for any threads, bitmap and meta blocks
(`AllocatorAssumption`): `AllocatorInv` and `AllocatedIsOwned` are inductive together.
`CountersExact` makes the victim of `block_alloc()` a clear bit; `FullHintIsMount` is
needed because the hint of a mount may name a full bitmap block, from which the victim is
`UINT - 1` only if that block is number 0: elsewhere it would be the last block of the
bitmap block before. `DurableOwned` is what a crash goes back to. `HintKept` proves the
action property: only a mount makes the hint bad.

`FileDataProofs`, for any block and file size, threads, offsets, lengths and bytes
(`DataAssumption`): `DataInv` is inductive. `TransferInRange` ties the
three counters of a transfer (offset, remaining bytes, block number) to one position,
which the divisions and remainders of the code keep. `WrittenSoFar` says that a byte has
its new value, except that between the position and the end it may have the one from
before; `ReadSoFar` that each byte read was there during the read. `OneChanger` is the
kernel's lock of the file. `ContentKept` and `ReadsAgree` follow.

`BlockMapProofs`, for any threads, any number of direct addresses and of addresses in an
indirect block, any disk and any offsets and lengths (`MapAssumption`,
`BoundsAssumption`): `MapIndInv` is inductive. `MapExact` alone is not: it speaks of paths
from the inode, while a step changes one entry of one block. Its strengthening
`IsTree(f, lev)` is local. Every block in use has a level `lev`: 0 for data, 1 to 3 for
indirect blocks. An entry of the inode or of a block above level 0 that is not empty leads
to a block in use, one level down (`EntriesLead`); no two such entries lead to one block
(`EntriesDiffer`); and every block in use has such an entry (`EntriesCover`). An
allocation gives the new block the level below its parent (`TreeGrows`), a release takes a
block of level 0 away, which no entry of a tree can be below (`TreeShrinks`), and what a
user writes into a block of level 0 does not matter (`TreeFilled`): the levels are what
tells user data, which may look like addresses, from addresses. `ImapIs` follows the four
steps of `imap2blockno()`, `FreeIs` those of `imap2blockno_free()`, and `ItruncIs` the
loops of `itrunc()`, which free exactly what is in use. Back from levels to paths:
two positions that lead to one block end in the same entry of the same block, so they are
equal one element earlier, up to the inode (`TreeNoSharing`); going up from any block, at most three times, finds its position (`TreeReached`); and the
diagnostic tool, which reads the disk level by level, reports exactly the blocks in use
(`TreeReported`). `MapIndInv` asks for the tree in memory and on the disk, unless the
ghost `whole` is false. A commit needs the inode that is in memory: `InodeSaved`
gives it when no call is between two blocks, and `restart_op_on()` saves it.

`ReservationSuffices` of `BlockMapProofs` is about the blocks that an operation logs. The
counter `n_log_wrote` never falls behind the number of blocks (`Counted`), so the tests for a
restart leave room for six more (in a truncation five, but there the bitmap is among what is
logged); a call of `imap2blockno()`, however many of its up to
eleven writes it makes, logs at most four blocks beside the bitmap and the inode, since
each block that it allocates is also the one that it writes to next. The statement counts the
bitmap as one block and holds for any number of bitmap blocks; on a disk of up to 32768 blocks
(128 MiB), which has one, it says that no operation exceeds its reservation. On a larger disk
`itrunc()` does, as the table above shows, and `ReservationBound` says by how much at most:
the number of bitmap blocks less one.

`FormatProofs`, for any sizes with `FormatAssumption` and `LayoutFits`: `FormatInv` has
one clause per phase of mkfs (`MkfsProgress`), saying how far its loop has come, and
`AnyDisk` is what a mkfs that is killed may leave: the old disk, one without the magic
number, one with the super block and no root inode, or a complete one. That the bits of
the bitmap are the ones counted needs `BitsInBlocks` (a bit in a block is below `BPB`),
so that setting bit `b` changes no other. From these `MountSound` follows: a disk without
its root inode is not served.

Only model-checked:

* the liveness properties `SleeperWakes` and `CallReturns`, outside of the prover's
  reach, and the finding of `log_leak`;
* `WalkAgrees` of `BlockMap`: its reference, the walk of the trees from left to right, is a
  concatenation of sequences of sequences, and what that computes for every input needs
  induction over data;
* `NameOps` with its refinement of `Namespace`: a call is a chain of functions on the
  whole state, and walking a path is a fold;
* `PathNames`: sequences of bytes taken apart, recursion over data;
* `CallLocks`: a call is a concatenation of sequences, of which the program counter is
  the part that is left.

## Not modelled

* `myfuse_lseek()` sets `f->off`, which no other call reads; permissions and times are
  stored and returned unchanged. `idup`, `filedup` and `filestat` have no callers.
* `main()` and the options: they set the path of the device and keep no other state.
* Logging, backtraces and the wording and layout of the diagnostic tool's output.
* A power failure. The device is opened without `O_SYNC` and never flushed, so nothing
  in the code orders its writes on the medium, and a header of the log may be there
  without its blocks; the modules cover the death of the process.
* The length of paths against the reservation. Reading a directory updates its inode,
  so every element of a path adds a logged write to the operation, and `iupdate()` ends
  the process near `MAXOPBLOCKS` (`inode.c:220`); `CallLocks` and `NameOps` have short
  paths only.
* In `NameOps` two calls in one step never overlap. What overlaps is in `InodeTable`
  (references and freeing), `CallLocks` (waiting), `Log` (operations), `BlockMap` and
  `FileData` (content).
* How long a commit may be put off by overlapping operations, and whether the log pins
  enough for every buffer to be in use. The cache has as many buffers as the log has blocks
  (`NCACHE_BUF` and `NLOG` are 1016), so that `begin_op()` alone does not exclude it;
  `ExhaustedByPins` has the condition. `Log` over `BufCache` is too large to check together.

## What is left

Proofs of `CallLocks` (one holder per lock, reservations those of the open operations) and
of `OpenKeepsInode` over single calls of `NameOps`, and, should the code come to flush the
device, a log over a device that loses or reorders writes.
