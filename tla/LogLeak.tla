------------------------------ MODULE LogLeak -------------------------------
(***************************************************************************)
(* The log under the file system calls that return without end_op().       *)
(*                                                                         *)
(* myfuse_open, myfuse_access, myfuse_chmod and myfuse_rename of           *)
(* src/src/file.c call begin_op(), look the path up, and return -ENOENT    *)
(* without end_op() when it does not exist.  The thread then serves other  *)
(* calls, and fslog.outstanding counts an operation that nobody will end.  *)
(***************************************************************************)
EXTENDS Log

\* `if ((ip = namei(path)) == NULL) { return -ENOENT; }` inside an operation.
ReturnENOENT(t) ==
    /\ pc[t] = "op"
    /\ pc' = [pc EXCEPT ![t] = "idle"]
    /\ UNCHANGED <<disk, dlog, dhdr, cache, pins, lh, outstanding, committing,
                   tail, nwrote, up, err>>

LeakNext == Next \/ \E t \in Threads : ReturnENOENT(t)

LeakSpec ==
    /\ Init
    /\ [][LeakNext]_vars
    /\ \A t \in Threads : WF_vars(Progress(t))
=============================================================================
