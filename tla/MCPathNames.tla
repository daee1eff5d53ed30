---------------------------- MODULE MCPathNames ----------------------------
(* PathNames for TLC. *)
EXTENDS PathNames
=============================================================================
