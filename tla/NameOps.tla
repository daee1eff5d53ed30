------------------------------ MODULE NameOps ------------------------------
(***************************************************************************)
(* The file system calls of src/src/file.c on names: directories           *)
(* (src/src/directory.c), link counts, references to inodes and open files.*)
(*                                                                         *)
(* Each call is one step: it is one operation of the log, so that a crash  *)
(* keeps all of it or nothing, and the kernel lets one call at a time      *)
(* change a directory.  The steps inside iget(), ilock() and iput() are in *)
(* InodeTable, the order of the locks in CallLocks, the operations that    *)
(* are never ended in LogLeak.                                             *)
(*                                                                         *)
(* The helpers take the state s of the process and the disk and return the *)
(* state after them, some of them in a record with a result.               *)
(***************************************************************************)
EXTENDS Integers, Sequences, SequencesExt, FiniteSets, FiniteSetsExt

CONSTANTS
    Names,
    NInodes,        \* inodes of the disk
    NSlots,         \* bound on the entries of the inode table
    NFILE_INIT,     \* initial size of the file table
    MaxOpen,        \* bound on the number of open files
    MaxDepth,       \* bound on the length of paths
    Calls,          \* the calls that are made
    Kernel,         \* whether they come from the kernel, or from anywhere
    MaxRef          \* bound on the references to one inode

ASSUME NameAssumption ==
    /\ NInodes \in Nat \ {0} /\ NSlots \in Nat /\ NFILE_INIT \in Nat \ {0}
    /\ MaxOpen \in Nat /\ MaxDepth \in Nat /\ MaxRef \in Nat
    /\ Kernel \in BOOLEAN

ROOTINO == 1
Inums == 1 .. NInodes
NULL == 0                   \* no entry of the table
Slots == 0 .. NSlots
Types == {"unused", "dir", "file"}
NoInode == [type |-> "unused", nlink |-> 0]
Paths == UNION {[1 .. k -> Names] : k \in 0 .. MaxDepth}

VARIABLES
    fs,         \* dinode and content: the disk; table, locked: the inode table;
                \* files: the file table; err: the message of an err_exit();
                \* lost: inodes with a reference that no one will drop (history);
                \* displaced: inodes that a rename onto an existing target has
                \* left without a name (history)
    handles     \* the fi->fh that the kernel holds, indexes of files

vars == <<fs, handles>>

\* What a fresh process knows.
FreshTable == [i \in Slots |-> [inum |-> 0, ref |-> 0, valid |-> FALSE,
                                type |-> "unused", nlink |-> 0]]
FreshFiles == [f \in 1 .. NFILE_INIT |-> [ref |-> 0, ip |-> NULL]]
\* Inodes that were unlinked and not freed before the crash stay so.
Mounted(s) ==
    [s EXCEPT !.table = FreshTable, !.locked = {}, !.files = FreshFiles,
              !.lost = {i \in Inums : s.dinode[i].type # "unused" /\ s.dinode[i].nlink = 0}]

\* The disk that mkfs leaves.
Init ==
    /\ fs = [dinode |-> [i \in Inums |-> IF i = ROOTINO THEN [type |-> "dir", nlink |-> 1]
                                         ELSE NoInode],
             content |-> [i \in Inums |-> <<>>],
             table |-> FreshTable, locked |-> {}, files |-> FreshFiles, lost |-> {},
             displaced |-> {}, err |-> "none"]
    /\ handles = {}

-----------------------------------------------------------------------------
(* Inodes in memory.  An index of the table stands for a struct inode *.   *)

\* Go on with a value that the code keeps in a variable.
With(value, Then(_)) == Then(value)

Fail(s, message) == IF s.err = "none" THEN [s EXCEPT !.err = message] ELSE s

\* Find the entry of the inode, or take the first free one, whose type and
\* nlink stay those of the inode before.
iget(s, inum) ==
    LET hits == {i \in Slots : s.table[i].inum = inum /\ s.table[i].ref > 0}
        victim == Min({i \in Slots \ {NULL} : s.table[i].ref = 0})
    IN IF hits # {}
       THEN [s |-> [s EXCEPT !.table[Min(hits)].ref = @ + 1], ip |-> Min(hits)]
       ELSE [s |-> [s EXCEPT !.table[victim] =
                        [@ EXCEPT !.inum = inum, !.ref = 1, !.valid = FALSE]],
             ip |-> victim]

ialloc(s, type) ==
    LET free == {i \in Inums : s.dinode[i].type = "unused"} IN
    IF free = {} THEN [s |-> Fail(s, "too much file on disk!"), ip |-> NULL]
    ELSE iget([s EXCEPT !.dinode[Min(free)] = [type |-> type, nlink |-> 0]], Min(free))

\* Locking an entry that some call before has left locked never returns.
ilock(s, ip) ==
    LET e == s.table[ip]
        d == s.dinode[e.inum]
    IN IF ip = NULL THEN Fail(s, "ilock got invalid inode")
       ELSE IF ip \in s.locked THEN Fail(s, "blocked")
       ELSE IF e.valid THEN [s EXCEPT !.locked = @ \cup {ip}]
       ELSE IF d.type = "unused" THEN Fail(s, "ilock: ip is unused")
       ELSE [s EXCEPT !.locked = @ \cup {ip},
                      !.table[ip] = [@ EXCEPT !.valid = TRUE, !.type = d.type, !.nlink = d.nlink]]

iunlock(s, ip) == [s EXCEPT !.locked = @ \ {ip}]

iupdate(s, ip) ==
    LET e == s.table[ip] IN
    IF ip = NULL THEN s
    ELSE [s EXCEPT !.dinode[e.inum] = [type |-> e.type, nlink |-> e.nlink]]

\* An entry without references.  Of what was in it only the type is ever read
\* again.
Recycled(type) == [inum |-> 0, ref |-> 0, valid |-> FALSE, type |-> type, nlink |-> 0]
Drop(s, ip) ==
    IF s.table[ip].ref > 1 THEN [s EXCEPT !.table[ip].ref = @ - 1]
    ELSE [s EXCEPT !.table[ip] = Recycled(@.type)]

\* Mutant: the inode is freed although it is still open.
iput_Early(s, ip) ==
    LET e == s.table[ip] IN
    IF ip = NULL THEN s
    ELSE IF e.valid /\ e.nlink = 0
    THEN [s EXCEPT !.table[ip] = Recycled("unused"),
                   !.dinode[e.inum] = NoInode,
                   !.content[e.inum] = <<>>]
    ELSE Drop(s, ip)

\* Mutant: nothing is ever freed.
iput_Never(s, ip) == IF ip = NULL THEN s ELSE Drop(s, ip)

\* The last reference to an inode without links frees it.
iput(s, ip) ==
    LET e == s.table[ip] IN
    IF ip = NULL THEN s
    ELSE IF e.ref = 1 /\ e.valid /\ e.nlink = 0
    THEN [s EXCEPT !.table[ip] = Recycled("unused"),
                   !.dinode[e.inum] = NoInode,
                   !.content[e.inum] = <<>>]
    ELSE Drop(s, ip)

iunlockput(s, ip) == iput(iunlock(s, ip), ip)

\* A reference to ip that no call will drop.
Lose(s, ip) == [s EXCEPT !.lost = @ \cup {s.table[ip].inum}]

-----------------------------------------------------------------------------
(* Directories and paths.                                                  *)

Entries(s, dp) == IF s.table[dp].inum = 0 THEN <<>> ELSE s.content[s.table[dp].inum]

\* inode_write_nbytes_locked() with one entry: the inode is written too.
write_de(s, dp, k, e) ==
    LET es == Entries(s, dp) IN
    IF dp = NULL THEN s
    ELSE iupdate([s EXCEPT !.content[s.table[dp].inum] =
                    IF k <= Len(es) THEN [es EXCEPT ![k] = e] ELSE Append(es, e)], dp)
zero_de == [name |-> NULL, inum |-> 0]

\* The entry with the name, a reference to its inode and its place in poff.
\* Reading the directory writes its inode.
dirlookup(s, dp, name) ==
    LET es == Entries(s, dp)
        hits == {k \in DOMAIN es : es[k].inum # 0 /\ es[k].name = name}
        g == iget(iupdate(s, dp), es[Min(hits)].inum)
    IN IF hits = {} THEN [s |-> iupdate(s, dp), ip |-> NULL, poff |-> 0]
       ELSE [s |-> g.s, ip |-> g.ip, poff |-> Min(hits)]

\* Mutant: free entries are not looked for: the last one is overwritten.
FreeEntry_Last(es) == IF es = <<>> THEN 1 ELSE Len(es)

\* The first free entry, or one more.
FreeEntry(es) == Min({k \in 1 .. (Len(es) + 1) : k > Len(es) \/ es[k].inum = 0})

dirlink(s, dp, name, inum) ==
    LET l == dirlookup(s, dp, name) IN
    IF l.ip # NULL THEN [s |-> iput(l.s, l.ip), ok |-> FALSE]
    ELSE [s |-> write_de(l.s, dp, FreeEntry(Entries(s, dp)), [name |-> name, inum |-> inum]),
          ok |-> TRUE]

\* One level of namex(): from a directory to its entry.
Descend(a, name) ==
    IF a.ip = NULL THEN a
    ELSE With(ilock(a.s, a.ip), LAMBDA v :
         IF v.table[a.ip].type # "dir" THEN [s |-> iunlockput(v, a.ip), ip |-> NULL]
         ELSE With(dirlookup(v, a.ip, name), LAMBDA l :
              [s |-> iunlockput(l.s, a.ip), ip |-> l.ip]))

\* Mutant: the walk stops one level early.
path2inode_Early(s, path) ==
    FoldLeft(Descend, iget(s, ROOTINO), IF path = <<>> THEN path ELSE Front(path))

path2inode(s, path) == FoldLeft(Descend, iget(s, ROOTINO), path)

path2parentinode(s, path) ==
    IF path = <<>> THEN [s |-> iput(iget(s, ROOTINO).s, iget(s, ROOTINO).ip), ip |-> NULL]
    ELSE With(FoldLeft(Descend, iget(s, ROOTINO), Front(path)), LAMBDA a :
         IF a.ip = NULL THEN a
         ELSE With(ilock(a.s, a.ip), LAMBDA v :
              IF v.table[a.ip].type # "dir" THEN [s |-> iunlockput(v, a.ip), ip |-> NULL]
              ELSE [s |-> iunlock(v, a.ip), ip |-> a.ip]))

-----------------------------------------------------------------------------
(* Open files.                                                             *)

\* A free file, from a table twice as large if there is none.
filealloc(s, ip) ==
    LET free == {f \in DOMAIN s.files : s.files[f].ref = 0}
        n == Len(s.files)
        grown == s.files \o [f \in 1 .. n |-> [ref |-> 0, ip |-> NULL]]
        f == IF free # {} THEN Min(free) ELSE n + 1
    IN [s |-> [s EXCEPT !.files = [(IF free # {} THEN @ ELSE grown) EXCEPT ![f] = [ref |-> 1, ip |-> ip]]],
        fh |-> f]

\* f->ip stays as it is and is not read before filealloc() hands f out again.
fileclose(s, f) ==
    IF s.files[f].ref > 1 THEN [s EXCEPT !.files[f].ref = @ - 1]
    ELSE iput([s EXCEPT !.files[f] = [ref |-> 0, ip |-> NULL]], s.files[f].ip)

-----------------------------------------------------------------------------
(* The calls: the state after the call, its result, and fi->fh.            *)

Reply(s, res) == [s |-> s, res |-> res, fh |-> 0]

\* Calls that look at an inode, or change what is not modelled of it.
myfuse_getattr(s, path) ==
    LET i == path2inode(s, path) IN
    IF i.ip = NULL THEN Reply(i.s, "ENOENT")
    ELSE Reply(iunlockput(ilock(i.s, i.ip), i.ip), "0")

\* Mutant: the reference is kept.
myfuse_access_NoPut(s, path) ==
    LET i == path2inode(s, path) IN
    IF i.ip = NULL THEN Reply(i.s, "ENOENT") ELSE Reply(i.s, "0")

myfuse_access(s, path) ==
    LET i == path2inode(s, path) IN
    IF i.ip = NULL THEN Reply(i.s, "ENOENT") ELSE Reply(iput(i.s, i.ip), "0")

myfuse_chmod(s, path) ==
    LET i == path2inode(s, path) IN
    IF i.ip = NULL THEN Reply(i.s, "ENOENT")
    ELSE Reply(iunlockput(iupdate(ilock(i.s, i.ip), i.ip), i.ip), "0")

\* The type is read before the lock is taken; -EISDIR keeps the reference.
myfuse_truncate(s, path) ==
    LET i == path2inode(s, path) IN
    IF i.ip = NULL THEN Reply(i.s, "ENOENT")
    ELSE IF i.s.table[i.ip].type = "dir" THEN Reply(Lose(i.s, i.ip), "EISDIR")
    ELSE Reply(iunlockput(iupdate(ilock(i.s, i.ip), i.ip), i.ip), "0")

stat_inum(s, inum) ==
    LET g == iget(s, inum) IN iunlockput(ilock(g.s, g.ip), g.ip)

myfuse_readdir(s, f) ==
    LET dp == s.files[f].ip
        v == iupdate(ilock(s, dp), dp)
    IN Reply(iunlock(FoldLeft(LAMBDA u, e : IF e.inum = 0 THEN u ELSE stat_inum(u, e.inum),
                              v, Entries(v, dp)), dp), "0")

\* myfuse_read() and myfuse_write(), for what they do to the inode.
Transfer(s, f) ==
    LET ip == s.files[f].ip IN Reply(iunlock(iupdate(ilock(s, ip), ip), ip), "0")

OpenFile(s, ip) ==
    LET f == filealloc(s, ip) IN [s |-> iunlock(f.s, ip), res |-> "0", fh |-> f.fh]

myfuse_opendir(s, path) ==
    LET i == path2inode(s, path)
        v == ilock(i.s, i.ip)
    IN IF i.ip = NULL THEN Reply(i.s, "ENOENT")
       ELSE IF v.table[i.ip].type # "dir" THEN Reply(iunlockput(v, i.ip), "ENOTDIR")
       ELSE OpenFile(v, i.ip)

\* With O_CREAT a missing file is created; its link is counted before the
\* inode is read.
myfuse_open(s, path, creat) ==
    With(path2inode(s, path), LAMBDA i :
    IF i.ip # NULL THEN OpenFile(ilock(i.s, i.ip), i.ip)
    ELSE IF ~creat THEN Reply(i.s, "ENOENT")
    ELSE With(path2parentinode(i.s, path), LAMBDA d :
         IF d.ip = NULL THEN Reply(d.s, "ENOENT")
         ELSE With(ialloc(d.s, "file"), LAMBDA n :
              LET v == ilock(iupdate([n.s EXCEPT !.table[n.ip].nlink = @ + 1], d.ip), d.ip)
                  l == dirlink(v, d.ip, Last(path), n.s.table[n.ip].inum)
              IN  OpenFile(ilock(iunlockput(l.s, d.ip), n.ip), n.ip))))

myfuse_create(s, path) ==
    With(path2parentinode(s, path), LAMBDA d :
    IF d.ip = NULL THEN Reply(d.s, "ENOENT")
    ELSE With(ialloc(d.s, "file"), LAMBDA n :
         LET v == iupdate([ilock(n.s, n.ip) EXCEPT !.table[n.ip].nlink = @ + 1], n.ip)
             l == dirlink(ilock(v, d.ip), d.ip, Last(path), v.table[n.ip].inum)
         IN  OpenFile(iunlockput(l.s, d.ip), n.ip)))

\* If the name is taken the parent stays locked and referenced.
myfuse_mkdir(s, path) ==
    With(path2parentinode(s, path), LAMBDA d :
    With(ialloc(d.s, "dir"), LAMBDA n :
    With(ilock(ilock(n.s, n.ip), d.ip), LAMBDA v :
    With(dirlink(v, d.ip, Last(path), v.table[n.ip].inum), LAMBDA l :
        LET u == [iunlockput(l.s, d.ip) EXCEPT !.table[n.ip].nlink = 1] IN
        IF ~l.ok THEN Reply(iunlockput(l.s, n.ip), "EEXIST")
        ELSE Reply(iunlockput(iupdate(u, n.ip), n.ip), "0")))))

\* Clear the entry with the name; ip is the reference from dirlookup().
RemoveEntry(s, dp, name) ==
    LET l == dirlookup(s, dp, name) IN
    IF l.ip = NULL THEN l ELSE [l EXCEPT !.s = write_de(l.s, dp, l.poff, zero_de)]

myfuse_unlink(s, path) ==
    With(path2inode(s, path), LAMBDA i :
    IF i.ip = NULL THEN Reply(i.s, "ENOENT")
    ELSE With(path2parentinode(i.s, path), LAMBDA d :
         With(ilock(ilock(d.s, d.ip), i.ip), LAMBDA v :
         IF v.table[i.ip].nlink = 0
         THEN Reply(iunlockput(iunlockput(v, d.ip), i.ip), "ENOENT")
         ELSE With([v EXCEPT !.table[i.ip].nlink = @ - 1], LAMBDA u :
              With(RemoveEntry(u, d.ip, Last(path)), LAMBDA r :
              LET w == IF u.table[i.ip].nlink = 0 THEN iput(r.s, r.ip) ELSE u
              IN  Reply(iunlockput(iunlockput(iupdate(w, i.ip), i.ip), d.ip), "0"))))))

\* Mutant: directories with entries are removed.
HasEntries_Never(s, dp) == FALSE
HasEntries(s, dp) == \E k \in DOMAIN Entries(s, dp) : Entries(s, dp)[k].inum # 0

\* The reference that dirlookup() returns is kept.
myfuse_rmdir(s, path) ==
    With(path2inode(s, path), LAMBDA i :
    IF i.ip = NULL THEN Reply(i.s, "ENOENT")
    ELSE With(iupdate(ilock(i.s, i.ip), i.ip), LAMBDA v :
         IF HasEntries(v, i.ip) THEN Reply(iunlockput(v, i.ip), "ENOTEMPTY")
         ELSE With(path2parentinode(v, path), LAMBDA d :
              With([ilock(d.s, d.ip) EXCEPT !.table[i.ip].nlink = @ - 1], LAMBDA u :
              LET w == IF u.table[i.ip].nlink = 0
                       THEN Lose(RemoveEntry(u, d.ip, Last(path)).s, i.ip) ELSE u
              IN  Reply(iunlockput(iunlockput(iupdate(w, i.ip), d.ip), i.ip), "0")))))

\* The inodes of S that have no name.
Nameless(s, S) ==
    {i \in S : \A d \in Inums : s.dinode[d].type = "dir" =>
        \A k \in DOMAIN s.content[d] : s.content[d][k].inum # i}

\* Take the source from its directory, then link it at the target if that is
\* free, or in the target if that is a directory, or exchange the two.  The
\* type of the target is read without its lock, so it may be that of the inode
\* that had the entry of the table before: then the source is linked in a file,
\* where it is no name, or not at all.
myfuse_rename(s, from, target, flags) ==
    With(path2inode(s, target), LAMBDA ti :
    With(path2parentinode(ti.s, target), LAMBDA td :
    With(path2inode(td.s, from), LAMBDA fi :
    With(path2parentinode(fi.s, from), LAMBDA fd :
    IF (ti.ip = NULL /\ td.ip = NULL) \/ fi.ip = NULL \/ fd.ip = NULL
    THEN Reply(fd.s, "ENOENT")
    ELSE With(RemoveEntry(ilock(ilock(fd.s, fi.ip), fd.ip), fd.ip, Last(from)), LAMBDA out :
         With(iunlock(iunlock(iput(out.s, out.ip), fd.ip), fi.ip), LAMBDA a :
         With(RemoveEntry(ilock(ilock(a, td.ip), ti.ip), td.ip, Last(target)), LAMBDA back :
         LET Inum(ip) == fd.s.table[ip].inum
             LinkIn(dp, name) == iunlock(dirlink(ilock(a, dp), dp, name, Inum(fi.ip)).s, dp)
             there == dirlink(iput(back.s, back.ip), td.ip, Last(from), Inum(fi.ip)).s
             swapped == dirlink(there, fd.ip, Last(from), Inum(ti.ip)).s
             b == IF ti.ip = NULL THEN LinkIn(td.ip, Last(target))
                  ELSE IF a.table[ti.ip].type = "dir" THEN LinkIn(ti.ip, Last(from))
                  ELSE IF flags = "exchange" THEN iunlock(iunlock(swapped, ti.ip), td.ip)
                  ELSE a
             c == IF ti.ip = NULL THEN b
                  ELSE [b EXCEPT !.displaced = @ \cup Nameless(b, {Inum(fi.ip), Inum(ti.ip)})]
         IN  Reply(iput(iput(iput(iput(c, ti.ip), td.ip), fi.ip), fd.ip),
                   IF ti.ip # NULL /\ a.table[ti.ip].type # "dir" /\ flags = "noreplace"
                   THEN "EEXIST" ELSE "0"))))))))

-----------------------------------------------------------------------------
(* What the kernel asks for.  It has looked names up before, keeps out     *)
(* calls that change the same directory, and answers for itself what it    *)
(* knows to be an error.                                                   *)

Dirs == {d \in Inums : fs.dinode[d].type = "dir"}
Resolve(path) ==
    FoldLeft(LAMBDA d, name :
                LET hits == IF d \notin Dirs THEN {} ELSE {k \in DOMAIN fs.content[d] :
                                fs.content[d][k].inum # 0 /\ fs.content[d][k].name = name}
                IN IF hits = {} THEN 0 ELSE fs.content[d][Min(hits)].inum,
             ROOTINO, path)
TypeAt(path) == IF Resolve(path) = 0 THEN "unused" ELSE fs.dinode[Resolve(path)].type
Absent(path) == path # <<>> /\ TypeAt(Front(path)) = "dir" /\ Resolve(path) = 0
IsChild(path, type) == path # <<>> /\ TypeAt(path) = type

MayRename(from, target, flags) ==
    /\ from # <<>> /\ target # <<>> /\ Resolve(from) # 0
    /\ ~IsPrefix(from, target) /\ ~IsPrefix(target, from)
    /\ CASE Absent(target) -> flags # "exchange"
         [] Resolve(target) # 0 -> \/ flags = "exchange"
                                   \/ flags = "none" /\ TypeAt(from) = TypeAt(target)
         [] OTHER -> FALSE

\* A call takes effect, or ends the process.
Answer(call, r) ==
    /\ call \in Calls
    /\ fs.err = "none"
    /\ \A i \in Slots : fs.table[i].ref <= MaxRef
    /\ IF r.s.err = "none"
       THEN fs' = r.s /\ handles' = handles \cup ({r.fh} \ {0})
       ELSE fs' = [Mounted(fs) EXCEPT !.err = r.s.err] /\ handles' = {}

MayOpen == Cardinality(handles) < MaxOpen
DiskHasRoom == \E i \in Inums : fs.dinode[i].type = "unused"

Look(path) ==
    \/ Answer("getattr", myfuse_getattr(fs, path))
    \/ Answer("access", myfuse_access(fs, path))
    \/ Answer("chmod", myfuse_chmod(fs, path))
    \/ /\ Kernel => TypeAt(path) # "dir"
       /\ Answer("truncate", myfuse_truncate(fs, path))

Open(path) ==
    /\ MayOpen
    /\ \/ Answer("opendir", myfuse_opendir(fs, path))
       \/ \E creat \in BOOLEAN :
            /\ IF creat THEN ~Kernel /\ path # <<>> /\ DiskHasRoom
               ELSE Kernel => TypeAt(path) # "dir"
            /\ Answer(IF creat THEN "open_creat" ELSE "open", myfuse_open(fs, path, creat))
       \/ /\ DiskHasRoom /\ path # <<>>
          /\ Kernel => Absent(path)
          /\ Answer("create", myfuse_create(fs, path))

Change(path) ==
    \/ /\ DiskHasRoom /\ path # <<>>
       /\ Kernel => Absent(path)
       /\ Answer("mkdir", myfuse_mkdir(fs, path))
    \/ /\ Kernel => IsChild(path, "file")
       /\ Answer("unlink", myfuse_unlink(fs, path))
    \/ /\ Kernel => IsChild(path, "dir")
       /\ Answer("rmdir", myfuse_rmdir(fs, path))
    \/ \E target \in Paths, flags \in {"none", "noreplace", "exchange"} :
        /\ MayRename(path, target, flags)
        /\ Answer("rename", myfuse_rename(fs, path, target, flags))

UseHandle(f) ==
    \/ /\ fs.table[fs.files[f].ip].type = "dir"
       /\ Answer("readdir", myfuse_readdir(fs, f))
    \/ /\ fs.table[fs.files[f].ip].type = "file"
       /\ Answer("transfer", Transfer(fs, f))

\* myfuse_release() and myfuse_releasedir().
release_internal(f) ==
    /\ "release" \in Calls
    /\ fs.err = "none"
    /\ fs' = fileclose(fs, f)
    /\ handles' = handles \ {f}

\* The process dies between two calls and the disk is mounted again.
Crash ==
    /\ "crash" \in Calls
    /\ fs.err = "none"
    /\ fs' = Mounted(fs)
    /\ handles' = {}

Next ==
    \/ \E path \in Paths : Look(path) \/ Open(path) \/ Change(path)
    \/ \E f \in handles : UseHandle(f) \/ release_internal(f)
    \/ Crash

Spec == Init /\ [][Next]_vars

-----------------------------------------------------------------------------
(* Properties.                                                             *)

TypeOK ==
    /\ fs.dinode \in [Inums -> [type : Types, nlink : 0 .. 2]]
    /\ \A i \in Inums : \A k \in DOMAIN fs.content[i] : fs.content[i][k].inum \in 0 .. NInodes
    /\ fs.table \in [Slots -> [inum : 0 .. NInodes, ref : 0 .. (MaxRef + 4), valid : BOOLEAN,
                               type : Types, nlink : 0 .. 2]]
    /\ fs.locked \subseteq Slots
    /\ handles \subseteq DOMAIN fs.files

\* The names on the disk.
Places(i) == {<<d, k>> \in Dirs \X (1 .. NInodes) :
                k \in DOMAIN fs.content[d] /\ fs.content[d][k].inum = i}
Tree == UNION {{<<d, e.name, e.inum>> : e \in {x \in Range(fs.content[d]) : x.inum # 0}} :
               d \in Dirs}

\* Whatever calls of the kernel, failures and crashes came before, the link count
\* of an inode is the number of its names, and every name is that of an inode in
\* use.  Only a rename onto a target that exists breaks this, and in one way: it
\* leaves an inode without a name and with a count of one, for ever.  (Open with
\* O_CREAT, which breaks it too, is no call of the kernel: it sends create.)
LinkCountExact ==
    \A i \in Inums \ {ROOTINO} :
        /\ fs.dinode[i].type = "unused" => Places(i) = {} /\ i \notin fs.displaced
        /\ fs.dinode[i].type # "unused" =>
            fs.dinode[i].nlink = Cardinality(Places(i)) + (IF i \in fs.displaced THEN 1 ELSE 0)
        /\ i \in fs.displaced => Places(i) = {}

\* When no call is running no inode is locked, and the references to an entry
\* of the inode table are those of the open files; only rmdir() and the
\* -EISDIR of truncate() keep one more.
RefExact ==
    /\ \A i \in Slots \ {NULL} :
            LET opened == Cardinality({f \in handles : fs.files[f].ip = i}) IN
            \/ fs.table[i].ref = opened
            \/ fs.table[i].ref > opened /\ fs.table[i].inum \in fs.lost
    /\ fs.locked = {}

\* An inode that has no name, and is not open, is free again, unless a
\* reference to it is lost, or was lost in a crash, or a rename onto an existing
\* target has displaced it.
Reclaimed ==
    \A i \in Inums \ (fs.lost \cup fs.displaced \cup {ROOTINO}) :
        fs.dinode[i].type # "unused" /\ Places(i) = {}
            => \E f \in handles : fs.table[fs.files[f].ip].inum = i

\* An open file keeps its inode: it is in use, and the entry of the inode
\* table behind the handle is that of one inode only.
OpenKeepsInode ==
    \A f \in handles :
        LET e == fs.table[fs.files[f].ip] IN
        /\ fs.files[f].ref = 1
        /\ e.ref >= 1 /\ fs.dinode[e.inum].type # "unused"
        /\ e.valid => fs.dinode[e.inum] = [type |-> e.type, nlink |-> e.nlink]

\* Whatever has happened, a path is found iff its names are on the disk, and
\* the file that is opened is the one that they lead to.
LookupFollowsNames ==
    \A path \in Paths :
        /\ myfuse_getattr(fs, path).res = "0" <=> Resolve(path) # 0
        /\ LET r == myfuse_open(fs, path, FALSE)
           IN r.res = "0" => r.s.table[r.s.files[r.fh].ip].inum = Resolve(path)

\* The tables stay in range, and looking a path up follows the names.
NamesInv == TypeOK /\ LookupFollowsNames

\* The directories on the disk are a tree of names: a call adds, removes or
\* moves one name, a rename onto an existing target moves one or two or takes
\* one away, and no call makes a directory its own ancestor or gives a name
\* twice.
Abstract == INSTANCE Namespace WITH Root <- ROOTINO, entries <- Tree, displaced <- fs.displaced
NamesAreATree == Abstract!Spec

-----------------------------------------------------------------------------
(* What does not hold.                                                     *)

\* Only directories are refused with -EISDIR.
TruncateRefusesDirs ==
    \A path \in Paths : myfuse_truncate(fs, path).res = "EISDIR" => TypeAt(path) = "dir"
=============================================================================
