------------------------------- MODULE MCDelivery -------------------------------
(***************************************************************************)
(* Delivery for TLC.  The transition endpoint is asked for the statuses    *)
(* of the happy path up to the delivery, ASSIGNED included, which gives an *)
(* order no driver.                                                        *)
(***************************************************************************)
EXTENDS DeliveryRequirements, TLC

HappyPath == {"ACCEPTED", "ASSIGNED", "EN_ROUTE_TO_PICKUP", "PICKED_UP", "OUT_FOR_DELIVERY",
              "RETRY_SCHEDULED"}

HandlerSymmetry == Permutations(Http) \cup Permutations(Workers)
================================================================================
