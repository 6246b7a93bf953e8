---------------------------- MODULE MCOrderLifecycle ----------------------------
(***************************************************************************)
(* OrderLifecycle for TLC: the constants are model values of the cfg       *)
(* files, and only the symmetry is added, and what clients ask for where   *)
(* two orders have to stay small: a road that fails before the pickup, its *)
(* retry by a new assignment, and CANCELLED as the end.                    *)
(***************************************************************************)
EXTENDS OrderRequirements, TLC

Shortened ==
  {"PLACED", "ACCEPTED", "EN_ROUTE_TO_PICKUP", "FAILED", "RETRY_SCHEDULED", "CANCELLED"}

Symmetry == Permutations(Orders) \cup Permutations(Drivers) \cup Permutations(Procs)
================================================================================
