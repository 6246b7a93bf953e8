---------------------------- MODULE OrderLifecycle ----------------------------
(***************************************************************************)
(* OrdersService, AssignmentService and DriversService.setStatus over the  *)
(* order and driver_profile tables.  Every handler is a request that first *)
(* reads the row it is about, decides, and then writes in a transaction of *)
(* its own; nothing locks the row in between, so the write works from the  *)
(* snapshot in the request's record.  A transaction is one step: its row   *)
(* locks are held to the commit, so blind writes serialise.                *)
(***************************************************************************)
EXTENDS OrderStatus

CONSTANTS
  Orders,      \* ids of the orders that are ever created
  Drivers,     \* ids of the driver profiles
  Procs,       \* requests the API can have in flight at once
  SelfStatus,  \* the statuses drivers set for themselves
  Requested,   \* the statuses clients ask the transition endpoint for
  CardOrders,  \* the orders that are paid by card
  NoOrder,     \* a NULL driver_profile.activeOrderId
  NoDriver     \* a NULL order.driverId

ASSUME NullAssumption == NoOrder \notin Orders /\ NoDriver \notin Drivers
ASSUME SelfStatusAssumption == SelfStatus \subseteq DriverStatus
ASSUME RequestedAssumption == Requested \subseteq Status
ASSUME CardAssumption == CardOrders \subseteq Orders

VARIABLES
  orders,      \* the order table: status and driverId of each order
  drivers,     \* the driver_profile table: status and activeOrderId
  audit,       \* the last OrderEvent of each order that carries a toStatus
  view,        \* the status last broadcast to the order's Socket.IO room
  req          \* the requests in flight

vars == <<orders, drivers, audit, view, req>>

(***************************************************************************)
(* Rows.                                                                   *)
(***************************************************************************)
OrderRow == [status : Status \cup {NoStatus}, driverId : Drivers \cup {NoDriver}]
DriverRow == [status : DriverStatus, activeOrderId : Orders \cup {NoOrder}]
Event == [from : Status \cup {NoStatus}, to : Status \cup {NoStatus}]

Exists(o) == orders[o].status # NoStatus

(* The program counter of a request: the await it is suspended at.         *)
Pc == {"idle", "transition", "commitTransition", "pick", "assign",
       "commitAssign", "commitUnassign", "emit"}

Request ==
  [pc : Pc, order : Orders \cup {NoOrder},
   to : Status \cup {NoStatus},        \* the status it writes
   from : Status \cup {NoStatus},      \* the status it read
   driver : Drivers \cup {NoDriver},   \* the driver it assigns
   prev : Drivers \cup {NoDriver}]     \* the order's driver when it read it

Idle ==
  [pc |-> "idle", order |-> NoOrder, to |-> NoStatus, from |-> NoStatus,
   driver |-> NoDriver, prev |-> NoDriver]

Finish(p) == req' = [req EXCEPT ![p] = Idle]
Goto(p, pc) == req' = [req EXCEPT ![p].pc = pc]

(* The write half shared by all handlers: the row and its audit event go   *)
(* in one transaction, the broadcast follows it.  The mutant's assignment  *)
(* event carries no toStatus.                                              *)
WriteOrderUnlogged(o, from, to, driver) ==
  /\ orders' = [orders EXCEPT ![o] = [status |-> to, driverId |-> driver]]
  /\ audit' = IF to = "ASSIGNED" THEN audit ELSE [audit EXCEPT ![o] = [from |-> from, to |-> to]]

WriteOrder(o, from, to, driver) ==
  /\ orders' = [orders EXCEPT ![o] = [status |-> to, driverId |-> driver]]
  /\ audit' = [audit EXCEPT ![o] = [from |-> from, to |-> to]]

(* A driver leaves order o's previous driver free, whatever it was doing.  *)
Released == [status |-> "AVAILABLE", activeOrderId |-> NoOrder]

--------------------------------------------------------------------------------
(* OrdersService.create: one transaction, then the broadcast unless DRAFT. *)
Create(p, o, s) ==
  /\ req[p] = Idle
  /\ ~Exists(o)
  /\ WriteOrder(o, NoStatus, s, NoDriver)
  /\ req' = IF s = "DRAFT"
            THEN req
            ELSE [req EXCEPT ![p] = [Idle EXCEPT !.pc = "emit", !.order = o, !.to = s]]
  /\ UNCHANGED <<drivers, view>>

(* The read half of OrdersService.transition: the guard is evaluated on    *)
(* the row as it is now, and the status read is kept as the event's from.  *)
(* The mutant only looks whether the order is still open.                  *)
ReadForTransitionOpen(p, o, to) ==
  /\ Exists(o)
  /\ orders[o].status \notin Terminal
  /\ req' = [req EXCEPT ![p] = [Idle EXCEPT !.pc = "commitTransition", !.order = o,
                                            !.from = orders[o].status, !.to = to]]
  /\ UNCHANGED <<orders, drivers, audit, view>>

ReadForTransition(p, o, to) ==
  /\ Exists(o)
  /\ CanTransition(orders[o].status, to)
  /\ req' = [req EXCEPT ![p] = [Idle EXCEPT !.pc = "commitTransition", !.order = o,
                                            !.from = orders[o].status, !.to = to]]
  /\ UNCHANGED <<orders, drivers, audit, view>>

(* POST /orders/:id/transition and /cancel; a refused request has no step. *)
Transition(p, o, to) == req[p] = Idle /\ ReadForTransition(p, o, to)

(* A handler that has read the order itself calls transition. *)
Call(p, o, to) ==
  req' = [req EXCEPT ![p] = [Idle EXCEPT !.pc = "transition", !.order = o, !.to = to]]

(* POST /orders/:id/place reads the order itself, then calls transition.   *)
Place(p, o) ==
  /\ req[p] = Idle
  /\ orders[o].status = "DRAFT"
  /\ Call(p, o, "PLACED")
  /\ UNCHANGED <<orders, drivers, audit, view>>

(* transition called from another handler, which read the order earlier.   *)
TransitionRead(p) ==
  /\ req[p].pc = "transition"
  /\ ReadForTransition(p, req[p].order, req[p].to)

TransitionRejected(p) ==
  /\ req[p].pc = "transition"
  /\ ~CanTransition(orders[req[p].order].status, req[p].to)
  /\ Finish(p)
  /\ UNCHANGED <<orders, drivers, audit, view>>

(* The transaction of transition: update by id, with the from it read.     *)
(* The mutants write the whole snapshot back, or close an order unheard.   *)
TransitionCommitSnapshot(p) ==
  LET r == req[p] IN
  /\ r.pc = "commitTransition"
  /\ WriteOrder(r.order, r.from, r.to, r.prev)
  /\ Goto(p, "emit")
  /\ UNCHANGED <<drivers, view>>

TransitionCommitSilent(p) ==
  LET r == req[p] IN
  /\ r.pc = "commitTransition"
  /\ WriteOrder(r.order, r.from, r.to, orders[r.order].driverId)
  /\ IF r.to \in Terminal THEN Finish(p) ELSE Goto(p, "emit")
  /\ UNCHANGED <<drivers, view>>

TransitionCommit(p) ==
  LET r == req[p] IN
  /\ r.pc = "commitTransition"
  /\ WriteOrder(r.order, r.from, r.to, orders[r.order].driverId)
  /\ Goto(p, "emit")
  /\ UNCHANGED <<drivers, view>>

--------------------------------------------------------------------------------
(* AssignmentService.assign: manual when d is a driver, AUTO_NEAREST when  *)
(* it is NoDriver and the driver is still to be picked.  The mutant takes  *)
(* an order in any status.                                                 *)
AssignAnyStatus(p, o, d) ==
  /\ req[p] = Idle
  /\ Exists(o)
  /\ req' = [req EXCEPT ![p] = [pc |-> IF d = NoDriver THEN "pick" ELSE "assign",
                                order |-> o, from |-> orders[o].status,
                                to |-> "ASSIGNED", driver |-> d,
                                prev |-> orders[o].driverId]]
  /\ UNCHANGED <<orders, drivers, audit, view>>

Assign(p, o, d) ==
  /\ req[p] = Idle
  /\ orders[o].status \in Assignable
  /\ req' = [req EXCEPT ![p] = [pc |-> IF d = NoDriver THEN "pick" ELSE "assign",
                                order |-> o, from |-> orders[o].status,
                                to |-> "ASSIGNED", driver |-> d,
                                prev |-> orders[o].driverId]]
  /\ UNCHANGED <<orders, drivers, audit, view>>

(* pickNearestDriver: which free driver is nearest is geography.           *)
Free(d) == drivers[d].status = "AVAILABLE" /\ drivers[d].activeOrderId = NoOrder

PickNearest(p) ==
  /\ req[p].pc = "pick"
  /\ \/ \E d \in Drivers :
          /\ Free(d)
          /\ req' = [req EXCEPT ![p].pc = "assign", ![p].driver = d]
     \/ Finish(p)                              \* nobody within range: 409
  /\ UNCHANGED <<orders, drivers, audit, view>>

(* commitAssignment, the first read of its transaction.  The mutant trusts *)
(* the dispatcher's choice.                                                *)
CheckDriverTrusting(p) ==
  /\ req[p].pc = "assign"
  /\ Goto(p, "commitAssign")
  /\ UNCHANGED <<orders, drivers, audit, view>>

CheckDriver(p) ==
  /\ req[p].pc = "assign"
  /\ IF drivers[req[p].driver].activeOrderId \in {NoOrder, req[p].order}
     THEN Goto(p, "commitAssign")
     ELSE Finish(p)                            \* 409 already has an active order
  /\ UNCHANGED <<orders, drivers, audit, view>>

(* commitAssignment, its writes: the previous driver is released without   *)
(* a look at its row, and the new one taken the same way.  The mutants     *)
(* give the driver the order's status, or forget the previous driver.      *)
AssignCommitWrongStatus(p) ==
  LET r == req[p] IN
  /\ r.pc = "commitAssign"
  /\ WriteOrder(r.order, NoStatus, "ASSIGNED", r.driver)
  /\ drivers' = [d \in Drivers |->
                   IF d = r.driver THEN [status |-> "ASSIGNED", activeOrderId |-> r.order]
                   ELSE IF d = r.prev THEN Released
                   ELSE drivers[d]]
  /\ Goto(p, "emit")
  /\ UNCHANGED view

AssignCommitNoRelease(p) ==
  LET r == req[p] IN
  /\ r.pc = "commitAssign"
  /\ WriteOrder(r.order, NoStatus, "ASSIGNED", r.driver)
  /\ drivers' = [drivers EXCEPT ![r.driver] = [status |-> "BUSY", activeOrderId |-> r.order]]
  /\ Goto(p, "emit")
  /\ UNCHANGED view

AssignCommit(p) ==
  LET r == req[p] IN
  /\ r.pc = "commitAssign"
  /\ WriteOrder(r.order, NoStatus, "ASSIGNED", r.driver)
  /\ drivers' = [d \in Drivers |->
                   IF d = r.driver THEN [status |-> "BUSY", activeOrderId |-> r.order]
                   ELSE IF d = r.prev THEN Released
                   ELSE drivers[d]]
  /\ Goto(p, "emit")
  /\ UNCHANGED view

(* AssignmentService.unassign: the only guard is that there is a driver.   *)
(* The mutant takes it that an order with a driver is ASSIGNED.            *)
Unassign(p, o) ==
  /\ req[p] = Idle
  /\ orders[o].driverId # NoDriver
  /\ req' = [req EXCEPT ![p] = [pc |-> "commitUnassign", order |-> o,
                                from |-> orders[o].status, to |-> "ACCEPTED",
                                driver |-> NoDriver, prev |-> orders[o].driverId]]
  /\ UNCHANGED <<orders, drivers, audit, view>>

UnassignCommitAssumed(p) ==
  LET r == req[p] IN
  /\ r.pc = "commitUnassign"
  /\ WriteOrder(r.order, "ASSIGNED", "ACCEPTED", NoDriver)
  /\ drivers' = [drivers EXCEPT ![r.prev] = Released]
  /\ Goto(p, "emit")
  /\ UNCHANGED view

UnassignCommit(p) ==
  LET r == req[p] IN
  /\ r.pc = "commitUnassign"
  /\ WriteOrder(r.order, r.from, "ACCEPTED", NoDriver)
  /\ drivers' = [drivers EXCEPT ![r.prev] = Released]
  /\ Goto(p, "emit")
  /\ UNCHANGED view

--------------------------------------------------------------------------------
(* The broadcast that ends every handler, after its transaction.           *)
Emit(p) ==
  /\ req[p].pc = "emit"
  /\ view' = [view EXCEPT ![req[p].order] = req[p].to]
  /\ Finish(p)
  /\ UNCHANGED <<orders, drivers, audit>>

(* A query fails or a transaction is rolled back: the handler ends in a    *)
(* 500.  emit is not awaited, so nothing fails there.                      *)
Fail(p) ==
  /\ req[p].pc \notin {"idle", "emit"}
  /\ Finish(p)
  /\ UNCHANGED <<orders, drivers, audit, view>>

(* The API process dies: its requests end and its rooms are empty again.   *)
Crash ==
  /\ \E p \in Procs : req[p] # Idle
  /\ req' = [p \in Procs |-> Idle]
  /\ view' = [o \in Orders |-> NoStatus]
  /\ UNCHANGED <<orders, drivers, audit>>

(* The webhook of a payment broadcasts PLACED to the same room, whatever   *)
(* status the order has by then; Payments models the rest of the handler.  *)
AnnouncePaid(o) ==
  /\ Exists(o)
  /\ view' = [view EXCEPT ![o] = "PLACED"]
  /\ UNCHANGED <<orders, drivers, audit, req>>

(* PATCH /drivers/me/status: the driver writes a status at any time.       *)
SetDriverStatus(d, s) ==
  /\ drivers' = [drivers EXCEPT ![d].status = s]
  /\ UNCHANGED <<orders, audit, view, req>>

--------------------------------------------------------------------------------
Init ==
  /\ orders = [o \in Orders |-> [status |-> NoStatus, driverId |-> NoDriver]]
  /\ drivers = [d \in Drivers |-> [status |-> "OFFLINE", activeOrderId |-> NoOrder]]
  /\ audit = [o \in Orders |-> [from |-> NoStatus, to |-> NoStatus]]
  /\ view = [o \in Orders |-> NoStatus]
  /\ req = [p \in Procs |-> Idle]

(* A request arrives and makes its first step. *)
Arrive(p) ==
  \E o \in Orders :
    \/ \E s \in InitialStatus : Create(p, o, s)
    \/ \E to \in Requested : Transition(p, o, to)
    \/ Place(p, o)
    \/ \E d \in Drivers \cup {NoDriver} : Assign(p, o, d)
    \/ Unassign(p, o)

(* A request in flight makes its next step. *)
Progress(p) ==
  \/ TransitionRead(p) \/ TransitionCommit(p)
  \/ PickNearest(p) \/ CheckDriver(p) \/ AssignCommit(p)
  \/ UnassignCommit(p) \/ Emit(p)

Continue(p) == Progress(p) \/ TransitionRejected(p)

Next ==
  \/ \E p \in Procs : Arrive(p) \/ Continue(p) \/ Fail(p)
  \/ Crash
  \/ \E o \in CardOrders : AnnouncePaid(o)
  \/ \E d \in Drivers, s \in SelfStatus : SetDriverStatus(d, s)

Spec == Init /\ [][Next]_vars

(* The traffic under which the handlers' snapshots cannot go stale: no two *)
(* requests about one order overlap.  Nothing in the code enforces it;     *)
(* what holds under CalmSpec and not under Spec is the price of that.      *)
OnePerOrder ==
  \A p, q \in Procs : p # q /\ req[p].order = req[q].order => req[p].order = NoOrder

CalmNext == Next /\ OnePerOrder'
CalmSpec == Init /\ [][CalmNext]_vars
================================================================================
