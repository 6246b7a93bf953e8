------------------------------ MODULE OrderStatus ------------------------------
(***************************************************************************)
(* The order-status state machine shared by the API and the dashboards     *)
(* (packages/shared/src/state-machine/order-status.ts).  The table is the  *)
(* data every handler of the order modules consults; the handlers          *)
(* themselves are in OrderLifecycle and Delivery.                          *)
(***************************************************************************)

(* OrderStatus in enums.ts. *)
Status ==
  {"DRAFT", "SCHEDULED", "PLACED", "ACCEPTED", "ASSIGNED", "EN_ROUTE_TO_PICKUP",
   "PICKED_UP", "OUT_FOR_DELIVERY", "DELIVERED", "FAILED", "RETRY_SCHEDULED",
   "RETURNED", "CANCELLED", "REFUNDED"}

(* The absent value of a nullable status column, and of an order without a row. *)
NoStatus == "none"

(* ORDER_TRANSITIONS: where the generic transition endpoint may move an order. *)
Transitions ==
  [s \in Status |->
     CASE s = "DRAFT"              -> {"PLACED", "SCHEDULED", "CANCELLED"}
       [] s = "SCHEDULED"          -> {"PLACED", "CANCELLED"}
       [] s = "PLACED"             -> {"ACCEPTED", "CANCELLED"}
       [] s = "ACCEPTED"           -> {"ASSIGNED", "CANCELLED"}
       [] s = "ASSIGNED"           -> {"EN_ROUTE_TO_PICKUP", "ACCEPTED", "CANCELLED"}
       [] s = "EN_ROUTE_TO_PICKUP" -> {"PICKED_UP", "FAILED", "CANCELLED"}
       [] s = "PICKED_UP"          -> {"OUT_FOR_DELIVERY", "FAILED"}
       [] s = "OUT_FOR_DELIVERY"   -> {"DELIVERED", "FAILED"}
       [] s = "FAILED"             -> {"RETRY_SCHEDULED", "RETURNED", "CANCELLED"}
       [] s = "RETRY_SCHEDULED"    -> {"OUT_FOR_DELIVERY", "ASSIGNED", "RETURNED"}
       [] s \in {"DELIVERED", "RETURNED", "CANCELLED"} -> {"REFUNDED"}
       [] s = "REFUNDED"           -> {}]

(* canTransition.  The mutant lets an order also step back along the table. *)
CanTransitionEitherWay(from, to) ==
  from \in Status /\ to \in Status /\ (to \in Transitions[from] \/ from \in Transitions[to])

CanTransition(from, to) == from \in Status /\ to \in Transitions[from]

(* TERMINAL_ORDER_STATUSES, read by isTerminal. *)
Terminal == {"DELIVERED", "RETURNED", "CANCELLED", "REFUNDED"}

(* The statuses from which AssignmentService.assign accepts an order. *)
Assignable == {"ACCEPTED", "RETRY_SCHEDULED"}

(* DriverStatus in enums.ts. *)
DriverStatus == {"OFFLINE", "AVAILABLE", "BUSY", "ON_BREAK"}

(* The statuses a freshly created order can have, OrdersService.create. *)
InitialStatus == {"DRAFT", "SCHEDULED", "PLACED"}

(* The statuses of an order nobody has accepted yet. *)
Unaccepted == {"DRAFT", "SCHEDULED", "PLACED"}
================================================================================
