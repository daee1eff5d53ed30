---------------------------- MODULE MCBlockDevice ---------------------------
(* The block device on small instances.                                    *)
EXTENDS BlockDevice
=============================================================================
