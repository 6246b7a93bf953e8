------------------------------- MODULE MCDispatch -------------------------------
(***************************************************************************)
(* Dispatch for TLC: one order, one page, and a road to the customer that  *)
(* goes through an assignment.                                             *)
(***************************************************************************)
EXTENDS DispatchRequirements

Road == {"ACCEPTED", "EN_ROUTE_TO_PICKUP", "PICKED_UP", "OUT_FOR_DELIVERY"}
================================================================================
