------------------------------ MODULE MCFormat ------------------------------
(* Format for TLC.  The sizes are set in the configurations. *)
EXTENDS Format
=============================================================================
