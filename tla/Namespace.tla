----------------------------- MODULE Namespace -----------------------------
(***************************************************************************)
(* What the calls that change directories promise: a tree of names.  An    *)
(* entry <<d, n, i>> says that directory d has inode i under the name n.   *)
(* A call adds, removes or moves one name; what rename() makes of a target *)
(* that exists is less than that, and is said by Displace and Exchange.    *)
(***************************************************************************)
EXTENDS Naturals

CONSTANTS Inums, Names, Root

VARIABLES
    entries,
    displaced       \* the inodes that have lost their name to a rename

vars == <<entries, displaced>>

Taken(d, n) == \E i \in Inums : <<d, n, i>> \in entries
Named(i) == \E d \in Inums, n \in Names : <<d, n, i>> \in entries
Empty(d) == \A e \in entries : e[1] # d

\* The sets of inodes that hold every directory with an entry for a member:
\* d is below i iff i is in each such set that d is in.
Upward(S) == \A e \in entries : e[3] \in S => e[1] \in S
Below(d, i) == \A S \in SUBSET Inums : (d \in S /\ Upward(S)) => i \in S

\* A new inode gets its name.
Link(d, n, i) ==
    /\ ~Taken(d, n) /\ ~Named(i) /\ Empty(i)
    /\ i # Root /\ i # d /\ i \notin displaced
    /\ d = Root \/ Named(d)
    /\ entries' = entries \cup {<<d, n, i>>}
    /\ UNCHANGED displaced

\* A file, or an empty directory, loses its name.
Unlink(e) ==
    /\ Empty(e[3])
    /\ entries' = entries \ {e}
    /\ UNCHANGED displaced

\* An inode changes its name, for one that is free and not below itself.
Move(e, d, n) ==
    /\ ~Taken(d, n)
    /\ d = Root \/ Named(d)
    /\ ~Below(d, e[3])
    /\ entries' = (entries \ {e}) \cup {<<d, n, e[3]>>}
    /\ UNCHANGED displaced

\* A rename onto another name takes the source's name away and gives it none.
Displace(e) ==
    /\ \E f \in entries : f[3] # e[3]
    /\ entries' = entries \ {e}
    /\ displaced' = displaced \cup {e[3]}

\* Two inodes, neither below the other, exchange their directories: first that
\* of e, then that of f, each under the name of e, and without one if it is taken.
Exchange(e, f) ==
    LET Enter(E, d, i) ==
            IF \E h \in Inums : <<d, e[2], h>> \in E THEN E ELSE E \cup {<<d, e[2], i>>}
    IN
    /\ e # f /\ ~Below(f[1], e[3]) /\ ~Below(e[1], f[3])
    /\ entries' = Enter(Enter(entries \ {e, f}, f[1], e[3]), e[1], f[3])
    /\ displaced' = displaced \cup {i \in {e[3], f[3]} : \A g \in entries' : g[3] # i}

Next ==
    /\ entries' # entries
    /\ \/ \E d \in Inums, n \in Names, i \in Inums : Link(d, n, i)
       \/ \E e \in entries :
            \/ Unlink(e)
            \/ Displace(e)
            \/ \E d \in Inums, n \in Names : Move(e, d, n)
            \/ \E f \in entries : Exchange(e, f)

Init == entries = {} /\ displaced = {}
Spec == Init /\ [][Next]_vars
=============================================================================
