----------------------------- MODULE CallLocks -----------------------------
(***************************************************************************)
(* What the calls of src/src/file.c wait for: the locks of inodes, in the  *)
(* order in which each call takes them, and room in the log.               *)
(*                                                                         *)
(* A call is the sequence of its begin_op(), ilock(), iunlock() and        *)
(* end_op(), on a tree with the root R, in it the directory D and the file *)
(* G, and in D the directory E and the file F; N is an inode that is being *)
(* created in D.  Room in the log is counted in reservations of            *)
(* MAXOPBLOCKS.                                                            *)
(***************************************************************************)
EXTENDS Naturals, Sequences, SequencesExt, FiniteSets

CONSTANTS
    Threads,
    NUnits,             \* reservations that the log has room for
    TransferRestarts,   \* how often a read or write restarts its operation
    TruncateRestarts,   \* how often itrunc2size() does
    Kinds,              \* the kinds of calls that are made
    Nobody

ASSUME LockAssumption ==
    /\ NUnits \in Nat \ {0} /\ Nobody \notin Threads
    /\ TransferRestarts \subseteq Nat /\ TruncateRestarts \subseteq Nat

Inodes == {"R", "D", "E", "F", "G", "N"}
Ancestors(i) == IF i = "R" THEN <<>> ELSE IF i \in {"D", "G"} THEN <<"R">> ELSE <<"R", "D">>
Parent(i) == Last(Ancestors(i))
Children(d) == IF d = "R" THEN <<"D", "G">> ELSE IF d = "D" THEN <<"E", "F">> ELSE <<>>

VARIABLES
    call,       \* [Threads -> calls], NoCall for a thread without one
    prog,       \* [Threads -> the steps that are left of its call]
    holder,     \* [Inodes -> holder of ip->lock]
    inop,       \* threads with an operation open
    used        \* reservations used up since the last commit

vars == <<call, prog, holder, inop, used>>

-----------------------------------------------------------------------------
(* The calls.                                                              *)

Step(do, on) == [do |-> do, on |-> on]
begin_op == <<Step("begin", "R")>>
end_op == <<Step("end", "R")>>
ilock(i) == <<Step("lock", i)>>
iunlock(i) == <<Step("unlock", i)>>
Visit(i) == ilock(i) \o iunlock(i)
VisitAll(s) == FlattenSeq([k \in DOMAIN s |-> Visit(s[k])])

\* path2inode() and path2parentinode() lock one directory at a time.
namex(i) == VisitAll(Ancestors(i))

\* Mutant: restart_op_on() keeps the lock.
restart_op_on_Locked(i) == end_op \o begin_op

restart_op_on(i) == iunlock(i) \o end_op \o begin_op \o ilock(i)
itrunc2size_log_op_restart_helper(i) == end_op \o begin_op
Times(n, s) == FlattenSeq([k \in 1 .. n |-> s])

getattr(i) == begin_op \o namex(i) \o Visit(i) \o end_op

readdir(d) == begin_op \o ilock(d) \o VisitAll(Children(d)) \o iunlock(d) \o end_op

\* myfuse_create() and myfuse_mkdir(): the new inode, then its directory.
create(i) ==
    begin_op \o namex(i) \o ilock(i) \o Visit(Parent(i)) \o iunlock(i) \o end_op

unlink(i) ==
    begin_op \o namex(i) \o namex(i) \o ilock(Parent(i)) \o Visit(i) \o iunlock(Parent(i)) \o end_op

\* The directory that goes is locked while its parent is looked up and locked.
rmdir(i) ==
    begin_op \o namex(i) \o ilock(i) \o namex(i) \o Visit(Parent(i)) \o iunlock(i) \o end_op

\* From its directory to the place of j.  What is locked there depends on it:
\* the directory if the name is free; j if its type, read without its lock, is
\* that of a directory; directory and j for an exchange; else nothing.
rename(i, j, there) ==
    begin_op \o namex(j) \o namex(j) \o namex(i) \o namex(i)
        \o ilock(i) \o Visit(Parent(i)) \o iunlock(i) \o there \o end_op
ToFree(j) == Visit(Parent(j))
Exchange(j) == ilock(Parent(j)) \o Visit(j) \o iunlock(Parent(j))
ToTaken(i, j) == {Visit(j), Exchange(j)} \cup (IF "E" \in {i, j} THEN {} ELSE {<<>>})

transfer(i, n) ==
    begin_op \o ilock(i) \o Times(n, restart_op_on(i)) \o iunlock(i) \o end_op

truncate(i, n) ==
    begin_op \o namex(i) \o ilock(i) \o Times(n, itrunc2size_log_op_restart_helper(i))
        \o iunlock(i) \o end_op

\* A call, and the directories and files that the kernel locks around it, for
\* itself (excl) or together with other readers (shared).
Call(kind, steps, excl, shared) == [kind |-> kind, steps |-> steps, excl |-> excl, shared |-> shared]
NoCall == Call("none", <<>>, {}, {})
AllCalls ==
    {Call("getattr", getattr(i), {}, {}) : i \in {"R", "D", "E", "F"}}
    \cup {Call("readdir", readdir(d), {}, {d}) : d \in {"R", "D"}}
    \cup {Call("create", create("N"), {"D"}, {})}
    \cup {Call("unlink", unlink("F"), {"D", "F"}, {})}
    \cup {Call("rmdir", rmdir("E"), {"D", "E"}, {})}
    \cup {Call("rename", rename(i, "G", ToFree("G")), {"R", "D", i}, {}) : i \in {"E", "F"}}
    \cup UNION {{Call("rename_onto", rename(p[1], p[2], there),
                      {Parent(p[1]), Parent(p[2]), p[1], p[2]}, {}) : there \in ToTaken(p[1], p[2])} :
                p \in {q \in {"E", "F", "G"} \X {"E", "F", "G"} : q[1] # q[2]}}
    \cup {Call("read", transfer("F", n), {}, {}) : n \in TransferRestarts}
    \cup {Call("write", transfer("F", n), {"F"}, {}) : n \in TransferRestarts}
    \cup {Call("truncate", truncate("F", n), {"F"}, {}) : n \in TruncateRestarts}
MyCalls == {c \in AllCalls : c.kind \in Kinds}

-----------------------------------------------------------------------------

Init ==
    /\ call = [t \in Threads |-> NoCall]
    /\ prog = [t \in Threads |-> <<>>]
    /\ holder = [i \in Inodes |-> Nobody]
    /\ inop = {}
    /\ used = 0

\* The kernel's locks let the two calls run beside each other.
Compatible(c, d) == c.excl \cap (d.excl \cup d.shared) = {} /\ d.excl \cap c.shared = {}

Start(t) ==
    /\ call[t] = NoCall
    /\ \E c \in MyCalls :
        /\ \A s \in Threads : Compatible(c, call[s])
        /\ call' = [call EXCEPT ![t] = c]
        /\ prog' = [prog EXCEPT ![t] = c.steps]
    /\ UNCHANGED <<holder, inop, used>>

Head1(t) == Head(prog[t])
Running(t, do) == prog[t] # <<>> /\ Head1(t).do = do
Advance(t) == prog' = [prog EXCEPT ![t] = Tail(@)]

HasRoom == used + Cardinality(inop) + 1 <= NUnits

Begin(t) ==
    /\ Running(t, "begin")
    /\ HasRoom
    /\ inop' = inop \cup {t}
    /\ Advance(t)
    /\ UNCHANGED <<call, holder, used>>

\* The last operation to end commits; the others leave what they have logged.
End(t) ==
    /\ Running(t, "end")
    /\ inop' = inop \ {t}
    /\ IF inop = {t} THEN used' = 0 ELSE \E n \in {0, 1} : used' = used + n
    /\ Advance(t)
    /\ UNCHANGED <<call, holder>>

Lock(t) ==
    /\ Running(t, "lock")
    /\ holder[Head1(t).on] = Nobody
    /\ holder' = [holder EXCEPT ![Head1(t).on] = t]
    /\ Advance(t)
    /\ UNCHANGED <<call, inop, used>>

Unlock(t) ==
    /\ Running(t, "unlock")
    /\ holder' = [holder EXCEPT ![Head1(t).on] = Nobody]
    /\ Advance(t)
    /\ UNCHANGED <<call, inop, used>>

Return(t) ==
    /\ call[t] # NoCall /\ prog[t] = <<>>
    /\ call' = [call EXCEPT ![t] = NoCall]
    /\ UNCHANGED <<prog, holder, inop, used>>

Next == \E t \in Threads : Start(t) \/ Begin(t) \/ End(t) \/ Lock(t) \/ Unlock(t) \/ Return(t)

Spec == Init /\ [][Next]_vars

-----------------------------------------------------------------------------
(* Properties.                                                             *)

\* The log never holds more than it has room for.
TypeOK ==
    /\ call \in [Threads -> MyCalls \cup {NoCall}]
    /\ holder \in [Inodes -> Threads \cup {Nobody}]
    /\ inop \subseteq Threads
    /\ used + Cardinality(inop) <= NUnits

\* Thread t can only go on after a thread of S has.
Waits(t, S) ==
    \/ Running(t, "lock") /\ holder[Head1(t).on] \in S
    \/ Running(t, "begin") /\ ~HasRoom /\ inop # {} /\ inop \subseteq S

\* No calls wait for each other, for locks, for room in the log, or for one
\* of each.
NoDeadlock == ~\E S \in SUBSET Threads : S # {} /\ \A t \in S : Waits(t, S)

\* The log never holds more than it has room for, and nobody waits in a circle.
LocksInv == TypeOK /\ NoDeadlock
=============================================================================
