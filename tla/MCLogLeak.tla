----------------------------- MODULE MCLogLeak ------------------------------
(* Two threads, room for two operations: two leaked ones fill the log.     *)
EXTENDS LogLeak
=============================================================================
