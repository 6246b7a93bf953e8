------------------------------ MODULE MCDriverApp ------------------------------
(***************************************************************************)
(* DriverApp for TLC.  MaxEntries bounds the queue; no symmetry, because   *)
(* one of its properties is liveness.                                      *)
(***************************************************************************)
EXTENDS DriverAppRequirements
================================================================================
