------------------------------- MODULE MCSessions -------------------------------
(***************************************************************************)
(* Sessions for TLC.  Tokens are recycled, so the instance is finite as it *)
(* stands; no symmetry, because two of its properties are liveness.        *)
(***************************************************************************)
EXTENDS SessionsRequirements
================================================================================
