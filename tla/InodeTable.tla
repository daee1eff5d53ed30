----------------------------- MODULE InodeTable -----------------------------
(***************************************************************************)
(* The inode table of myfuse (src/src/inode.c) under the calls that look a *)
(* file up, create it, unlink it and let it go (src/src/file.c).           *)
(*                                                                         *)
(* A table entry is a copy of an inode of the disk.  itable.lock, a spin   *)
(* lock, protects inum and ref of the entries; the lock of an entry, a     *)
(* mutex, protects the rest.  iput() of the last reference to an inode     *)
(* without links frees the inode, after it gave itable.lock up.            *)
(*                                                                         *)
(* A section under itable.lock is one step, and so is a section under the  *)
(* lock of the buffer that holds an inode of the disk.  All files live in  *)
(* one directory, whose entries and lock are in "linked" and "dir".  Names *)
(* are not modelled (there are no hard links: a file has one), nor are     *)
(* content, size, times and permissions, and the disk is what the log      *)
(* shows of it while the process lives.                                    *)
(***************************************************************************)
EXTENDS Integers, FiniteSets

CONSTANTS
    Threads,        \* threads that serve calls
    NINODES,        \* the inodes of the disk are 1 .. NINODES
    NINODE_INIT,    \* entries of the table at the start
    MaxSlots,       \* bound on the entries of the table
    NGen,           \* allocations of an inode are counted modulo NGen
    Nobody          \* holder of a free lock

ASSUME TableAssumption ==
    /\ IsFiniteSet(Threads)
    /\ NINODES \in Nat \ {0}
    /\ NINODE_INIT \in Nat \ {0}
    /\ MaxSlots \in Nat /\ NINODE_INIT <= MaxSlots
    /\ NGen \in Nat /\ NGen > 1
    /\ Nobody \notin Threads

Inums == 1 .. NINODES
Slots == 1 .. MaxSlots

VARIABLES
    dtype,      \* [Inums -> {"unused", "file"}], the inodes of the disk
    dnlink,     \* [Inums -> Nat]
    linked,     \* the inodes that an entry of the directory names
    dir,        \* holder of the lock of the directory
    ninode,     \* itable.ninode
    inum,       \* [Slots -> Inums \cup {0}], the table
    ref,        \* [Slots -> Nat]
    lock,       \* [Slots -> Threads \cup {Nobody}]
    valid,      \* [Slots -> BOOLEAN]
    type,       \* [Slots -> {"unused", "file"}]
    nlink,      \* [Slots -> Int]
    pc,         \* [Threads -> Labels]
    call,       \* [Threads -> Calls], what the thread is doing
    want,       \* [Threads -> Nat], the number of the inode it is after
    ip,         \* [Threads -> Slots \cup {0}], the entry it points to
    err,        \* the message of the err_exit() that ended the process
    gen,        \* history: [Inums -> Nat], how often the inode was allocated
    seen        \* history: [Threads -> Nat], gen when the thread found it

vars == <<dtype, dnlink, linked, dir, ninode, inum, ref, lock, valid, type, nlink,
          pc, call, want, ip, err, gen, seen>>
diskVars == <<dtype, dnlink, linked, gen>>
tableVars == <<ninode, inum, ref, lock, valid, type, nlink>>
threadVars == <<call, want, ip, seen>>

Labels == {"idle", "ialloc", "iget", "ref", "load", "held", "free", "drop", "put"}
Calls == {"none", "use", "create", "unlink"}
Errors == {"none", "too much file on disk!", "ilock: ip is unused"}

TypeOK ==
    /\ dtype \in [Inums -> {"unused", "file"}]
    /\ dnlink \in [Inums -> Nat]
    /\ linked \subseteq Inums
    /\ dir \in Threads \cup {Nobody}
    /\ ninode \in Slots
    /\ inum \in [Slots -> Inums \cup {0}]
    /\ ref \in [Slots -> Nat]
    /\ lock \in [Slots -> Threads \cup {Nobody}]
    /\ valid \in [Slots -> BOOLEAN]
    /\ type \in [Slots -> {"unused", "file"}]
    /\ nlink \in [Slots -> Nat]
    /\ pc \in [Threads -> Labels]
    /\ call \in [Threads -> Calls]
    /\ want \in [Threads -> 0 .. (NINODES + 1)]
    /\ ip \in [Threads -> Slots \cup {0}]
    /\ err \in Errors
    /\ gen \in [Inums -> 0 .. (NGen - 1)]
    /\ seen \in [Threads -> 0 .. (NGen - 1)]

\* An empty file system after inode_init().
Init ==
    /\ dtype = [i \in Inums |-> "unused"]
    /\ dnlink = [i \in Inums |-> 0]
    /\ linked = {}
    /\ dir = Nobody
    /\ ninode = NINODE_INIT
    /\ inum = [s \in Slots |-> 0]
    /\ ref = [s \in Slots |-> 0]
    /\ lock = [s \in Slots |-> Nobody]
    /\ valid = [s \in Slots |-> FALSE]
    /\ type = [s \in Slots |-> "unused"]
    /\ nlink = [s \in Slots |-> 0]
    /\ pc = [t \in Threads |-> "idle"]
    /\ call = [t \in Threads |-> "none"]
    /\ want = [t \in Threads |-> 0]
    /\ ip = [t \in Threads |-> 0]
    /\ err = "none"
    /\ gen = [i \in Inums |-> 0]
    /\ seen = [t \in Threads |-> 0]

Goto(t, label) == pc' = [pc EXCEPT ![t] = label]

-----------------------------------------------------------------------------
(* Getting a reference.                                                    *)

\* namex() locks the directory and finds the name in it (dirlookup).
dirlookup(t, i) ==
    /\ pc[t] = "idle"
    /\ dir = Nobody
    /\ i \in linked
    /\ dir' = t
    /\ call' = [call EXCEPT ![t] = "use"]
    /\ want' = [want EXCEPT ![t] = i]
    /\ seen' = [seen EXCEPT ![t] = gen[i]]
    /\ Goto(t, "iget")
    /\ UNCHANGED <<diskVars, tableVars, ip, err>>

\* myfuse_create() calls ialloc().
Create(t) ==
    /\ pc[t] = "idle"
    /\ call' = [call EXCEPT ![t] = "create"]
    /\ want' = [want EXCEPT ![t] = 1]
    /\ Goto(t, "ialloc")
    /\ UNCHANGED <<diskVars, dir, tableVars, ip, err, seen>>

\* One iteration of ialloc(): take the inode if it is unused.
ialloc(t) ==
    LET i == want[t] IN
    /\ pc[t] = "ialloc"
    /\ i \in Inums
    /\ IF dtype[i] = "unused"
       THEN /\ dtype' = [dtype EXCEPT ![i] = "file"]
            /\ dnlink' = [dnlink EXCEPT ![i] = 0]
            /\ gen' = [gen EXCEPT ![i] = (@ + 1) % NGen]
            /\ seen' = [seen EXCEPT ![t] = gen'[i]]
            /\ Goto(t, "iget")
            /\ UNCHANGED want
       ELSE /\ want' = [want EXCEPT ![t] = @ + 1]
            /\ UNCHANGED <<dtype, dnlink, gen, seen, pc>>
    /\ UNCHANGED <<linked, dir, tableVars, call, ip, err>>

\* Every inode of the disk is in use: err_exit().
ialloc_fails(t) ==
    /\ pc[t] = "ialloc"
    /\ want[t] \notin Inums
    /\ err' = "too much file on disk!"
    /\ UNCHANGED <<diskVars, dir, tableVars, threadVars, pc>>

\* Mutant: an entry that was not read from the disk yet does not count.
Hits_Valid(i) == {s \in 1 .. ninode : inum[s] = i /\ ref[s] > 0 /\ valid[s]}

Hits(i) == {s \in 1 .. ninode : inum[s] = i /\ ref[s] > 0}
Empty == {s \in 1 .. ninode : ref[s] = 0}
Least(S) == CHOOSE s \in S : \A r \in S : s <= r

\* The thread now refers to entry s; namex() unlocks the directory.
Refer(t, s) ==
    /\ ip' = [ip EXCEPT ![t] = s]
    /\ dir' = IF dir = t THEN Nobody ELSE dir
    /\ Goto(t, "ref")

\* Mutant: a hit is not counted.
AddRef_Forgotten(s) == ref' = ref
AddRef(s) == ref' = [ref EXCEPT ![s] = @ + 1]

\* iget(): the first entry for the inode, else the first empty one.
iget(t) ==
    LET i == want[t] IN
    /\ pc[t] = "iget"
    /\ \/ /\ Hits(i) # {}
          /\ AddRef(Least(Hits(i)))
          /\ Refer(t, Least(Hits(i)))
          /\ UNCHANGED <<inum, valid>>
       \/ /\ Hits(i) = {} /\ Empty # {}
          /\ inum' = [inum EXCEPT ![Least(Empty)] = i]
          /\ ref' = [ref EXCEPT ![Least(Empty)] = 1]
          /\ valid' = [valid EXCEPT ![Least(Empty)] = FALSE]
          /\ Refer(t, Least(Empty))
    /\ UNCHANGED <<diskVars, ninode, lock, type, nlink, call, want, err, seen>>

\* iget() of a full table doubles it, unlocks it and starts again.
itable_grow(t) ==
    /\ pc[t] = "iget"
    /\ Hits(want[t]) = {} /\ Empty = {}
    /\ 2 * ninode <= MaxSlots
    /\ ninode' = 2 * ninode
    /\ UNCHANGED <<diskVars, dir, inum, ref, lock, valid, type, nlink, threadVars, pc, err>>

-----------------------------------------------------------------------------
(* Working with an inode.                                                  *)

\* myfuse_unlink() locks the directory before the inode.
Unlink(t) ==
    /\ pc[t] = "ref"
    /\ call[t] = "use"
    /\ dir = Nobody
    /\ dir' = t
    /\ call' = [call EXCEPT ![t] = "unlink"]
    /\ UNCHANGED <<diskVars, tableVars, pc, want, ip, err, seen>>

\* ilock(): take the lock of the entry ...
ilock(t) ==
    /\ pc[t] = "ref"
    /\ lock[ip[t]] = Nobody
    /\ lock' = [lock EXCEPT ![ip[t]] = t]
    /\ Goto(t, "load")
    /\ UNCHANGED <<diskVars, dir, ninode, inum, ref, valid, type, nlink, threadVars, err>>

\* ... and read the inode from the disk unless the entry is valid.
ilock_load(t) ==
    LET s == ip[t] IN
    /\ pc[t] = "load"
    /\ IF valid[s]
       THEN UNCHANGED <<type, nlink, valid, err>>
       ELSE /\ type' = [type EXCEPT ![s] = dtype[inum[s]]]
            /\ nlink' = [nlink EXCEPT ![s] = dnlink[inum[s]]]
            /\ valid' = [valid EXCEPT ![s] = TRUE]
            /\ err' = IF dtype[inum[s]] = "unused" THEN "ilock: ip is unused" ELSE err
    /\ Goto(t, "held")
    /\ UNCHANGED <<diskVars, dir, ninode, inum, ref, lock, threadVars>>

\* iupdate() of an entry whose new type is ty and whose new nlink is n.
iupdate(s, ty, n) ==
    /\ type' = [type EXCEPT ![s] = ty]
    /\ nlink' = [nlink EXCEPT ![s] = n]
    /\ dtype' = [dtype EXCEPT ![inum[s]] = ty]
    /\ dnlink' = [dnlink EXCEPT ![inum[s]] = n]

\* myfuse_create(): nlink++ and iupdate() ...
CreateUpdate(t) ==
    /\ pc[t] = "held"
    /\ call[t] = "create"
    /\ nlink[ip[t]] = 0
    /\ iupdate(ip[t], type[ip[t]], nlink[ip[t]] + 1)
    /\ UNCHANGED <<linked, gen, dir, ninode, inum, ref, lock, valid, threadVars, pc, err>>

\* ... and then dirlink() under the lock of the directory.
CreateLink(t) ==
    /\ pc[t] = "held"
    /\ call[t] = "create"
    /\ nlink[ip[t]] = 1
    /\ dir = Nobody
    /\ linked' = linked \cup {inum[ip[t]]}
    /\ call' = [call EXCEPT ![t] = "use"]
    /\ UNCHANGED <<dtype, dnlink, gen, dir, tableVars, pc, want, ip, err, seen>>

\* myfuse_unlink() with both locks: if somebody else was faster, it changes
\* nothing and unlocks the directory before the inode.
UnlinkUpdate(t) ==
    LET s == ip[t] IN
    /\ pc[t] = "held"
    /\ call[t] = "unlink"
    /\ IF nlink[s] = 0
       THEN /\ dir' = Nobody
            /\ UNCHANGED <<dtype, dnlink, type, nlink, linked>>
       ELSE /\ iupdate(s, type[s], nlink[s] - 1)
            /\ linked' = IF nlink[s] = 1 THEN linked \ {inum[s]} ELSE linked
            /\ UNCHANGED dir
    /\ call' = [call EXCEPT ![t] = "use"]
    /\ UNCHANGED <<gen, ninode, inum, ref, lock, valid, pc, want, ip, err, seen>>

iunlock(t) ==
    /\ pc[t] = "held"
    /\ call[t] = "use"
    /\ lock' = [lock EXCEPT ![ip[t]] = Nobody]
    /\ Goto(t, "ref")
    /\ UNCHANGED <<diskVars, dir, ninode, inum, ref, valid, type, nlink, threadVars, err>>

-----------------------------------------------------------------------------
(* iput.                                                                   *)

\* Mutant: the inode is freed whoever else refers to it.
LastUnlinked_AnyRef(s) == valid[s] /\ nlink[s] = 0

LastUnlinked(s) == ref[s] = 1 /\ valid[s] /\ nlink[s] = 0

\* The call is over; a myfuse_unlink() that took the name away unlocks the
\* directory last.
Release(t) ==
    /\ ref' = [ref EXCEPT ![ip[t]] = @ - 1]
    /\ ip' = [ip EXCEPT ![t] = 0]
    /\ call' = [call EXCEPT ![t] = "none"]
    /\ want' = [want EXCEPT ![t] = 0]
    /\ seen' = [seen EXCEPT ![t] = 0]
    /\ dir' = IF dir = t THEN Nobody ELSE dir
    /\ Goto(t, "idle")
    /\ UNCHANGED <<diskVars, ninode, inum, lock, valid, type, nlink, err>>

\* Others refer to the entry, or the inode has links.
iput(t) ==
    /\ pc[t] = "ref"
    /\ call[t] = "use"
    /\ ~LastUnlinked(ip[t])
    /\ Release(t)

\* The inode is to be freed: lock the entry, unlock the table.
iput_lock(t) ==
    /\ pc[t] = "ref"
    /\ call[t] = "use"
    /\ LastUnlinked(ip[t])
    /\ lock[ip[t]] = Nobody
    /\ lock' = [lock EXCEPT ![ip[t]] = t]
    /\ Goto(t, "free")
    /\ UNCHANGED <<diskVars, dir, ninode, inum, ref, valid, type, nlink, threadVars, err>>

\* itrunc(), the type and iupdate(): ialloc() may take the inode from here.
iput_free(t) ==
    /\ pc[t] = "free"
    /\ iupdate(ip[t], "unused", nlink[ip[t]])
    /\ Goto(t, "drop")
    /\ UNCHANGED <<linked, gen, dir, ninode, inum, ref, lock, valid, threadVars, err>>

\* Mutant: the entry stays valid.
iput_unlock_Valid(t) ==
    /\ pc[t] = "drop"
    /\ lock' = [lock EXCEPT ![ip[t]] = Nobody]
    /\ Goto(t, "put")
    /\ UNCHANGED <<diskVars, dir, ninode, inum, ref, valid, type, nlink, threadVars, err>>

\* valid = 0, and unlock the entry.
iput_unlock(t) ==
    /\ pc[t] = "drop"
    /\ valid' = [valid EXCEPT ![ip[t]] = FALSE]
    /\ lock' = [lock EXCEPT ![ip[t]] = Nobody]
    /\ Goto(t, "put")
    /\ UNCHANGED <<diskVars, dir, ninode, inum, ref, type, nlink, threadVars, err>>

\* Lock the table again and drop the reference.
iput_unref(t) ==
    /\ pc[t] = "put"
    /\ Release(t)

-----------------------------------------------------------------------------

Step(t) ==
    \/ ialloc(t)
    \/ ialloc_fails(t)
    \/ iget(t)
    \/ itable_grow(t)
    \/ ilock(t)
    \/ ilock_load(t)
    \/ CreateUpdate(t)
    \/ CreateLink(t)
    \/ UnlinkUpdate(t)
    \/ iunlock(t)
    \/ iput(t)
    \/ iput_lock(t)
    \/ iput_free(t)
    \/ iput_unlock(t)
    \/ iput_unref(t)

\* err_exit() ended the process.
Exited == err # "none" /\ UNCHANGED vars

Next ==
    \/ /\ err = "none"
       /\ \E t \in Threads :
            \/ Step(t)
            \/ Create(t)
            \/ Unlink(t)
            \/ \E i \in Inums : dirlookup(t, i)
    \/ Exited

Spec == Init /\ [][Next]_vars

-----------------------------------------------------------------------------
(* What makes the table correct.                                           *)

\* An inode has one entry in use: two would be locked independently.
OneEntryPerInode ==
    \A r, s \in Slots :
        ref[r] > 0 /\ ref[s] > 0 /\ inum[r] = inum[s] => r = s

\* ref "tracks the number of in-memory pointers to the entry" (inode.h), also
\* across the part of iput() that runs without the lock of the table.
RefExact == \A s \in Slots : ref[s] = Cardinality({t \in Threads : ip[t] = s})

\* The inode that a thread found is not freed and allocated anew for another
\* file while the thread refers to it, whoever unlinks it meanwhile.
ReferenceKeepsInode ==
    \A t \in Threads : pc[t] \in {"iget", "ref", "load", "held", "free"} =>
        /\ dtype[want[t]] = "file"
        /\ gen[want[t]] = seen[t]
        /\ ip[t] # 0 => inum[ip[t]] = want[t]

\* Whoever holds the lock of an entry sees the inode of the disk (every
\* change was followed by iupdate(), and no stale copy outlives iput()).
HolderSeesDisk ==
    \A t \in Threads : pc[t] = "held" =>
        /\ lock[ip[t]] = t
        /\ type[ip[t]] = dtype[inum[ip[t]]]
        /\ nlink[ip[t]] = dnlink[inum[ip[t]]]

\* When iput() is about to lock the entry it frees, nobody else can hold that
\* lock: it does not wait for a mutex while it holds the spin lock.
FreeingNeverWaits ==
    \A t \in Threads :
        pc[t] = "ref" /\ LastUnlinked(ip[t]) => lock[ip[t]] = Nobody

\* ilock() never meets an inode that was freed ("ilock: ip is unused").
NoUseAfterFree == err # "ilock: ip is unused"

\* From iget() to the last step of iput() a thread is after an inode, from the
\* end of iget() it has a pointer to the entry, and until iput() has freed the
\* inode it relies on it.
Pointing == {"ref", "load", "held", "free", "drop", "put"}
Relying == {"iget", "ref", "load", "held", "free"}
PointersGood ==
    \A t \in Threads :
        /\ IF pc[t] \in Pointing
           THEN ip[t] \in 1 .. ninode /\ inum[ip[t]] = want[t]
           ELSE ip[t] = 0
        /\ pc[t] \in Pointing \cup {"iget"} => want[t] \in Inums

\* The lock of an entry is held from ilock() to iunlock() and while iput()
\* frees the inode; from the load on, the entry is valid.
LockHeld ==
    /\ \A s \in Slots, t \in Threads :
        lock[s] = t <=> pc[t] \in {"load", "held", "free", "drop"} /\ ip[t] = s
    /\ \A t \in Threads : pc[t] \in {"held", "free", "drop"} => valid[ip[t]]

\* A valid entry in use is a copy of its inode, except that iput() may have
\* freed it, and ialloc() taken it again, before the entry becomes invalid.
Freed(s) == \E t \in Threads : pc[t] = "drop" /\ ip[t] = s
CopyExact ==
    \A s \in Slots : ref[s] > 0 /\ valid[s] =>
        /\ nlink[s] = dnlink[inum[s]]
        /\ IF Freed(s) THEN nlink[s] = 0 ELSE type[s] = "file" /\ dtype[inum[s]] = "file"

\* A name refers to an inode with one link; only a holder of the directory
\* takes names away or relies on one that it found.
LinksHeld ==
    /\ \A i \in Inums : dnlink[i] \in {0, 1}
    /\ \A i \in linked : dtype[i] = "file" /\ dnlink[i] = 1
    /\ \A t \in Threads :
        /\ call[t] = "unlink" => dir = t
        /\ pc[t] = "ialloc" => call[t] = "create"
        /\ pc[t] = "iget" =>
            call[t] = "create" \/ (call[t] = "use" /\ dir = t /\ want[t] \in linked)

\* Who creates or frees an inode is alone with it.
Alone(t) ==
    /\ want[t] \notin linked
    /\ \A s \in Threads \ {t} : pc[s] \in Relying => want[s] # want[t]
CreatorAlone ==
    \A t \in Threads :
        /\ pc[t] \in Relying /\ call[t] = "create" => Alone(t)
        /\ pc[t] = "free" => Alone(t) /\ nlink[ip[t]] = 0

\* The structure of the table: an inode has one entry, however the table grows
\* and entries are reused, nobody locks an inode that was freed, and links,
\* locks and copies agree with what the threads are doing.
TableInv ==
    /\ TypeOK
    /\ OneEntryPerInode
    /\ NoUseAfterFree
    /\ PointersGood
    /\ LockHeld
    /\ CopyExact
    /\ LinksHeld
    /\ CreatorAlone

-----------------------------------------------------------------------------
(* What does not hold.                                                     *)

\* iput() "frees if the reference and link counts have fallen to zero"
\* (inode.h): a file without a name is gone once nobody refers to it.
NoOrphan ==
    \A i \in Inums : dtype[i] = "file" =>
        i \in linked \/ \E t \in Threads : pc[t] # "ialloc" /\ want[t] = i
=============================================================================
