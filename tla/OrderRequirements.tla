--------------------------- MODULE OrderRequirements ---------------------------
(***************************************************************************)
(* What must hold of OrderLifecycle, grouped by the traffic it holds       *)
(* under: any interleaving (Spec), or no two requests about one order      *)
(* overlapping (CalmSpec).                                                 *)
(***************************************************************************)
EXTENDS OrderLifecycle

Changed(o) == orders'[o].status # orders[o].status

(* The shape of the tables and of a request in flight. *)
TypeOK ==
  /\ orders \in [Orders -> OrderRow]
  /\ drivers \in [Drivers -> DriverRow]
  /\ audit \in [Orders -> Event]
  /\ view \in [Orders -> Status \cup {NoStatus}]
  /\ req \in [Procs -> Request]

--------------------------------------------------------------------------------
(* Under any interleaving.                                                 *)

(* The audit log explains the row: the status an order has is the toStatus *)
(* of its last status event, because every handler writes both in one      *)
(* transaction.                                                            *)
AuditExplainsStatus == \A o \in Orders : audit[o].to = orders[o].status

(* Whatever overlaps, an event of the audit log names a step the table     *)
(* allows or the return of an order to the pool: the log stays plausible   *)
(* even where the row has jumped.                                          *)
AuditIsPlausible ==
  \A o \in Orders :
    audit[o].from # NoStatus =>
      \/ CanTransition(audit[o].from, audit[o].to)
      \/ audit[o].to = "ACCEPTED"

(* An order changes hands only in a transaction that also sets its status  *)
(* to ASSIGNED or ACCEPTED, never by a status change of its own: a         *)
(* transition racing an assignment cannot lose the driver.                 *)
DriverChangesAreAssignments ==
  [][\A o \in Orders :
       orders'[o].driverId # orders[o].driverId =>
         orders'[o].status = (IF orders'[o].driverId = NoDriver
                              THEN "ACCEPTED" ELSE "ASSIGNED")]_vars

--------------------------------------------------------------------------------
(* When no two requests about one order overlap.                           *)

(* The snapshot a handler writes from is the row as it still is: the event *)
(* it logs and the driver it releases are the current ones, across every   *)
(* await between its read and its transaction.                             *)
Fresh(r) ==
  r.pc \in {"commitTransition", "pick", "assign", "commitAssign", "commitUnassign"} =>
    /\ orders[r.order].status = r.from
    /\ r.pc # "commitTransition" => orders[r.order].driverId = r.prev

SnapshotFresh == \A p \in Procs : Fresh(req[p])

(* A driver's active order is an order that is assigned to that driver: a  *)
(* pointer left behind would keep the driver out of every later assignment *)
(* (commitAssignment refuses it, the nearest-driver query skips it).       *)
ActiveOrderIsHeld ==
  \A d \in Drivers :
    LET o == drivers[d].activeOrderId IN
    o # NoOrder => orders[o].driverId = d

(* Nobody is driving an order that was never accepted. *)
DriverOnlyAfterAcceptance ==
  \A o \in Orders :
    orders[o].status \in Unaccepted \cup {NoStatus} => orders[o].driverId = NoDriver

(* The last status broadcast to an order's room is the status it has, or a *)
(* request has yet to broadcast; a room is empty since the process died.   *)
RoomUpToDate(o) ==
  \/ view[o] \in {NoStatus, orders[o].status}
  \/ \E p \in Procs : req[p].pc = "emit" /\ req[p].order = o

(* Only the webhook of a payment leaves a room behind its order: no        *)
(* handler, error or crash ends without the broadcast of what it has       *)
(* committed, and none broadcasts a status the order no longer has.        *)
OnlyPaymentsMisleadRooms ==
  [][\A o \in Orders :
       RoomUpToDate(o) /\ ~AnnouncePaid(o) => RoomUpToDate(o)']_vars

(* The audit log is a chain: an event that names where it came from        *)
(* continues where the event before it ended.                              *)
AuditIsAChain ==
  [][\A o \in Orders :
       audit'[o] # audit[o] => audit'[o].from \in {NoStatus, audit[o].to}]_vars

(* "Terminal states - an order can never leave these" (enums.ts) is not    *)
(* what the code does: unassign asks for a driver and not for the status,  *)
(* and an order keeps its driver when it ends.  Nothing else brings an     *)
(* order back that has ended: no transition, assignment, error or crash.   *)
OnlyUnassignReopens ==
  [][\A o \in Orders :
       orders[o].status \in Terminal /\ orders'[o].status \notin Terminal =>
         /\ orders[o].driverId # NoDriver /\ orders'[o].driverId = NoDriver
         /\ orders'[o].status = "ACCEPTED"]_vars

(* The whole promise: each order is one atomic state machine (OrderMachine) *)
(* with the row as its state; every read, check, broadcast and failure is a *)
(* stutter of it.                                                           *)
Machine ==
  INSTANCE OrderMachine WITH
    status <- [o \in Orders |-> orders[o].status],
    holder <- [o \in Orders |-> orders[o].driverId]

ImplementsMachine == Machine!Spec

(* An order's driver is out on that order, and a driver who has been       *)
(* looked at is still free when assigned.  Only two assignments of one     *)
(* driver that overlap end that: no retry, reassignment, release or error  *)
(* takes a driver away from the order it is on.                            *)
DriversAreOnTheirOrders ==
  /\ \A o \in Orders :
       LET d == orders[o].driverId IN d # NoDriver => drivers[d].activeOrderId = o
  /\ \A p \in Procs :
       req[p].pc = "commitAssign" =>
         drivers[req[p].driver].activeOrderId \in {NoOrder, req[p].order}

DoubleBooking ==
  \E p, q \in Procs : p # q /\ req[p].driver = req[q].driver /\ req[p].driver # NoDriver

OnlyRacesDoubleBook ==
  [][~DoubleBooking => (DriversAreOnTheirOrders => DriversAreOnTheirOrders')]_vars

--------------------------------------------------------------------------------
(* What the repository says and the code does not do.                      *)

(* "Guarded status transition. Validates against the shared state machine  *)
(* ... all atomically": a row only moves along the table or by the return  *)
(* of an order to the pool.  Two overlapping transitions break it.         *)
StatusStepsAreLegal ==
  [][\A o \in Orders :
       Changed(o) =>
         \/ orders[o].status = NoStatus
         \/ CanTransition(orders[o].status, orders'[o].status)
         \/ orders'[o].driverId = NoDriver /\ orders[o].driverId # NoDriver]_vars
================================================================================
