------------------------------ MODULE TxnStore ------------------------------
(***************************************************************************)
(* What the write-ahead log of myfuse promises to the layers above it,     *)
(* without a log (src/include/log.h).                                      *)
(*                                                                         *)
(* The layers above see a block store.  They open operations, write blocks *)
(* and close operations.  What survives a crash is always the view of the  *)
(* store at some moment at which no operation was open: an operation is    *)
(* durable with all of its writes or with none of them.                    *)
(***************************************************************************)

CONSTANTS
    Threads,    \* the threads that serve file system calls
    Blocks,     \* block numbers outside the log area
    Vals        \* contents of a block

VARIABLES
    durable,    \* [Blocks -> Vals]: what a crash at this moment leaves
    view,       \* [Blocks -> Vals]: what logged_read returns
    active,     \* the threads inside begin_op() .. end_op()
    up          \* the file system is mounted

vars == <<durable, view, active, up>>

TypeOK ==
    /\ durable \in [Blocks -> Vals]
    /\ view \in [Blocks -> Vals]
    /\ active \subseteq Threads
    /\ up \in BOOLEAN

Init ==
    /\ durable \in [Blocks -> Vals]
    /\ view = durable
    /\ active = {}
    /\ up = FALSE

Recover ==
    /\ ~up
    /\ up' = TRUE
    /\ UNCHANGED <<durable, view, active>>

Begin(t) ==
    /\ up
    /\ t \notin active
    /\ active' = active \cup {t}
    /\ UNCHANGED <<durable, view, up>>

Write(t, b, v) ==
    /\ up
    /\ t \in active
    /\ view' = [view EXCEPT ![b] = v]
    /\ UNCHANGED <<durable, active, up>>

End(t) ==
    /\ up
    /\ t \in active
    /\ active' = active \ {t}
    /\ UNCHANGED <<durable, view, up>>

\* One instant at which everything written so far becomes durable.
Commit ==
    /\ up
    /\ active = {}
    /\ durable' = view
    /\ UNCHANGED <<view, active, up>>

Crash ==
    /\ up
    /\ up' = FALSE
    /\ view' = durable
    /\ active' = {}
    /\ UNCHANGED durable

Next ==
    \/ Recover
    \/ \E t \in Threads :
        \/ Begin(t)
        \/ End(t)
        \/ \E b \in Blocks, v \in Vals : Write(t, b, v)
    \/ Commit
    \/ Crash

Spec == Init /\ [][Next]_vars
=============================================================================
