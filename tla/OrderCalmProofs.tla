----------------------------- MODULE OrderCalmProofs -----------------------------
(***************************************************************************)
(* Proofs about OrderLifecycle when no two requests about one order        *)
(* overlap (CalmSpec): the snapshots are fresh, the driver pointers are    *)
(* backed by orders, and the whole is the atomic machine of OrderMachine.  *)
(***************************************************************************)
EXTENDS OrderLifecycleProofs

InFlightExists == \A p \in Procs : req[p].pc # "idle" => Exists(req[p].order)

(* The inductive invariant: the snapshot of a request can be fresh only if *)
(* the request's order exists and nobody else writes it.                   *)
CalmInv ==
  /\ TypeOK /\ ReqInv
  /\ OnePerOrder
  /\ InFlightExists
  /\ SnapshotFresh
  /\ DriverOnlyAfterAcceptance
  /\ ActiveOrderIsHeld

(* The order a writing step is about. *)
Target(p, o) ==
  \/ \E s \in InitialStatus : Create(p, o, s)
  \/ (TransitionCommit(p) \/ AssignCommit(p) \/ UnassignCommit(p)) /\ o = req[p].order

LEMMA CalmInit == Init => CalmInv
<1> SUFFICES ASSUME Init PROVE CalmInv
  OBVIOUS
<1>1. TypeOK /\ ReqInv
  BY TypeInit
<1>2. \A p \in Procs : req[p] = Idle
  BY DEF Init
<1>3. OnePerOrder /\ InFlightExists /\ SnapshotFresh
  BY <1>2 DEF OnePerOrder, InFlightExists, SnapshotFresh, Fresh, Idle
<1>4. DriverOnlyAfterAcceptance /\ ActiveOrderIsHeld
  BY DEF Init, DriverOnlyAfterAcceptance, ActiveOrderIsHeld
<1> QED
  BY <1>1, <1>3, <1>4 DEF CalmInv

(* A step of one request leaves the others' records alone. *)
LEMMA OwnStep ==
  ASSUME TypeOK, NEW p \in Procs, NEW q \in Procs, p # q,
         Arrive(p) \/ Continue(p) \/ Fail(p)
  PROVE  req'[q] = req[q]
<1>1. ASSUME NEW o \in Orders, NEW s \in InitialStatus, Create(p, o, s)
      PROVE  req'[q] = req[q]
  BY <1>1 DEF Create, TypeOK
<1>2. ASSUME NEW o \in Orders, NEW t, ReadForTransition(p, o, t)
      PROVE  req'[q] = req[q]
  BY <1>2 DEF ReadForTransition, TypeOK
<1>3. ASSUME NEW o \in Orders, Place(p, o) \/ Unassign(p, o)
      PROVE  req'[q] = req[q]
  BY <1>3 DEF Place, Call, Unassign, TypeOK
<1>4. ASSUME NEW o \in Orders, NEW d \in Drivers \cup {NoDriver}, Assign(p, o, d)
      PROVE  req'[q] = req[q]
  BY <1>4 DEF Assign, TypeOK
<1>5. CASE TransitionRead(p)
  BY <1>5 DEF TransitionRead, ReadForTransition, TypeOK
<1>6. CASE TransitionRejected(p) \/ Emit(p) \/ Fail(p)
  BY <1>6 DEF TransitionRejected, Emit, Fail, Finish, TypeOK
<1>7. CASE TransitionCommit(p) \/ AssignCommit(p) \/ UnassignCommit(p)
  BY <1>7 DEF TransitionCommit, AssignCommit, UnassignCommit, Goto, TypeOK
<1>8. CASE PickNearest(p) \/ CheckDriver(p)
  BY <1>8 DEF PickNearest, CheckDriver, Goto, Finish, TypeOK
<1> QED
  BY <1>1, <1>2, <1>3, <1>4, <1>5, <1>6, <1>7, <1>8 DEF Arrive, Continue, Progress, Transition

(* A step that writes an order is made by the only request about it.       *)
LEMMA SoleWriter ==
  ASSUME CalmInv, NEW p \in Procs, NEW o \in Orders, Target(p, o),
         NEW q \in Procs, q # p, req[q].pc # "idle"
  PROVE  /\ req[q].order # o
         /\ orders'[req[q].order] = orders[req[q].order]
         /\ req'[q] = req[q]
<1> USE DEF CalmInv
<1>1. req[q].order \in Orders /\ Exists(req[q].order) /\ req[q] \in Request
  BY DEF ReqInv, WellFormed, InFlightExists, TypeOK
<1>2. CASE \E s \in InitialStatus : Create(p, o, s)
  BY <1>1, <1>2 DEF Create, WriteOrder, TypeOK
<1>3. CASE (TransitionCommit(p) \/ AssignCommit(p) \/ UnassignCommit(p)) /\ o = req[p].order
  <2>1. req[q].order # o
    BY <1>1, <1>3, NullAssumption DEF OnePerOrder
  <2> QED
    BY <1>1, <1>3, <2>1
    DEF TransitionCommit, AssignCommit, UnassignCommit, WriteOrder, Goto, TypeOK
<1> QED
  BY <1>2, <1>3 DEF Target

(* A step that writes no order leaves every snapshot it does not take as   *)
(* fresh as it was, and a snapshot it takes is fresh.                      *)
LEMMA FreshStep ==
  ASSUME CalmInv, [Next]_vars
  PROVE  SnapshotFresh' /\ InFlightExists'
<1> USE DEF CalmInv
<1> SUFFICES ASSUME NEW q \in Procs
             PROVE  Fresh(req[q])' /\ (req[q].pc # "idle" => Exists(req[q].order))'
  BY DEF SnapshotFresh, InFlightExists
<1>1. Fresh(req[q]) /\ (req[q].pc # "idle" => Exists(req[q].order)) /\ WellFormed(req[q])
      /\ req[q] \in Request
  BY DEF SnapshotFresh, InFlightExists, ReqInv, TypeOK
<1>2. CASE \E p \in Procs, o \in Orders : Target(p, o)
  <2>1. PICK p \in Procs, o \in Orders : Target(p, o)
    BY <1>2
  <2>2. CASE q # p /\ req[q].pc # "idle"
    BY <1>1, <2>1, <2>2, SoleWriter DEF Fresh, Exists
  <2>3. CASE q # p /\ req[q].pc = "idle"
    <3>1. req'[q] = req[q]
      BY <2>1, <2>3 DEF Target, Create, TransitionCommit, AssignCommit, UnassignCommit,
                        Goto, TypeOK
    <3> QED
      BY <2>3, <3>1 DEF Fresh
  <2>4. CASE q = p
    <3>1. CASE \E s \in InitialStatus : Create(p, o, s)
      BY <1>1, <2>4, <3>1, StatusFacts
      DEF Create, WriteOrder, Idle, TypeOK, Fresh, Exists
    <3>2. CASE (TransitionCommit(p) \/ AssignCommit(p) \/ UnassignCommit(p))
               /\ o = req[p].order
      <4>1. /\ req[p].order \in Orders /\ req[p].to \in Status
            /\ req'[p].pc = "emit" /\ req'[p].order = req[p].order
        BY <1>1, <2>4, <3>2
        DEF TransitionCommit, AssignCommit, UnassignCommit, Goto, WellFormed, TypeOK, Request
      <4>2. orders'[req[p].order].status \in Status
        BY <3>2, <4>1, StatusFacts
        DEF TransitionCommit, AssignCommit, UnassignCommit, WriteOrder, TypeOK
      <4> QED
        BY <2>4, <4>1, <4>2, StatusFacts DEF Fresh, Exists
    <3> QED
      BY <2>1, <3>1, <3>2 DEF Target
  <2> QED
    BY <2>2, <2>3, <2>4
<1>3. CASE ~ \E p \in Procs, o \in Orders : Target(p, o)
  <2>1. orders' = orders
    <3>1. ~ \E p \in Procs : Writes(p)
      BY <1>3 DEF Writes, Target, ReqInv, WellFormed, TransitionCommit, AssignCommit,
                  UnassignCommit
    <3> QED
      BY <3>1, OnlyWritersWrite
  <2>2. ASSUME NEW o \in Orders, NEW t \in Status, ReadForTransition(q, o, t)
        PROVE  req'[q].order = o /\ Exists(o) /\ req'[q].pc = "commitTransition"
               /\ req'[q].from = orders[o].status
    BY <2>2 DEF ReadForTransition, TypeOK, Idle
  <2>3. ASSUME NEW o \in Orders, Place(q, o)
        PROVE  req'[q].order = o /\ Exists(o) /\ req'[q].pc = "transition"
    BY <2>3 DEF Place, Call, TypeOK, Idle, Exists, NoStatus
  <2>4. ASSUME NEW o \in Orders, NEW d \in Drivers \cup {NoDriver}, Assign(q, o, d)
        PROVE  req'[q].order = o /\ Exists(o) /\ req'[q].from = orders[o].status
               /\ req'[q].prev = orders[o].driverId
    BY <2>4, StatusFacts DEF Assign, TypeOK, Exists
  <2>5. ASSUME NEW o \in Orders, Unassign(q, o)
        PROVE  req'[q].order = o /\ Exists(o) /\ req'[q].from = orders[o].status
               /\ req'[q].prev = orders[o].driverId
    BY <2>5 DEF Unassign, TypeOK, ReqInv
  <2>6. ASSUME PickNearest(q) \/ CheckDriver(q)
        PROVE  \/ req'[q] = Idle
               \/ /\ req'[q].order = req[q].order /\ req'[q].from = req[q].from
                  /\ req'[q].prev = req[q].prev
                  /\ req[q].pc \in {"pick", "assign"}
    BY <1>1, <2>6 DEF PickNearest, CheckDriver, Goto, Finish, TypeOK, Request
  <2>7. ASSUME TransitionRejected(q) \/ Emit(q) \/ Fail(q) \/ Crash
        PROVE  req'[q] = Idle
    BY <2>7 DEF TransitionRejected, Emit, Fail, Finish, Crash, TypeOK
  <2>8. CASE req'[q] = req[q]
    BY <1>1, <2>1, <2>8 DEF Fresh, Exists
  <2>9. CASE req'[q] = Idle
    BY <2>9 DEF Fresh, Idle
  <2>10. CASE req'[q] # req[q] /\ req'[q] # Idle
    <3>1. ~ (\E o \in Orders, s \in InitialStatus : Create(q, o, s))
          /\ ~ TransitionCommit(q) /\ ~ AssignCommit(q) /\ ~ UnassignCommit(q)
      BY <1>1, <1>3 DEF Target, WellFormed, TransitionCommit, AssignCommit, UnassignCommit
    <3>2. \A p \in Procs : p # q => ~ (Arrive(p) \/ Continue(p) \/ Fail(p))
      BY <2>10, OwnStep
    <3>3. Arrive(q) \/ Continue(q)
      BY <2>7, <2>10, <3>2 DEF Next, vars, AnnouncePaid, SetDriverStatus
    <3>4. \/ \E o \in Orders, t \in Status : ReadForTransition(q, o, t)
          \/ \E o \in Orders : Place(q, o) \/ Unassign(q, o)
          \/ \E o \in Orders, d \in Drivers \cup {NoDriver} : Assign(q, o, d)
          \/ PickNearest(q) \/ CheckDriver(q)
      BY <1>1, <2>7, <2>10, <3>1, <3>3, RequestedAssumption
      DEF Arrive, Continue, Progress, Transition, TransitionRead, WellFormed
    <3> QED
      BY <1>1, <2>1, <2>2, <2>3, <2>4, <2>5, <2>6, <2>10, <3>4 DEF Fresh, Exists
  <2> QED
    BY <2>8, <2>9, <2>10
<1> QED
  BY <1>2, <1>3

(* An order without an acceptance has no driver, after every step.         *)
LEMMA AcceptanceStep ==
  ASSUME CalmInv, [Next]_vars
  PROVE  DriverOnlyAfterAcceptance'
<1> USE DEF CalmInv
<1>1. CASE ~ \E p \in Procs : Writes(p)
  BY <1>1, OnlyWritersWrite DEF DriverOnlyAfterAcceptance
<1>2. ASSUME NEW p \in Procs, NEW o \in Orders, NEW s \in InitialStatus, Create(p, o, s)
      PROVE  DriverOnlyAfterAcceptance'
  BY <1>2 DEF Create, WriteOrder, TypeOK, DriverOnlyAfterAcceptance
<1>3. ASSUME NEW p \in Procs, TransitionCommit(p)
      PROVE  DriverOnlyAfterAcceptance'
  <2>1. /\ req[p].order \in Orders /\ req[p].to \in Status
        /\ CanTransition(orders[req[p].order].status, req[p].to)
    BY <1>3 DEF TransitionCommit, ReqInv, WellFormed, SnapshotFresh, Fresh
  <2> QED
    BY <1>3, <2>1, UnacceptedBackwards, StatusFacts
    DEF TransitionCommit, WriteOrder, TypeOK, DriverOnlyAfterAcceptance
<1>4. ASSUME NEW p \in Procs, AssignCommit(p) \/ UnassignCommit(p)
      PROVE  DriverOnlyAfterAcceptance'
  BY <1>4, StatusFacts
  DEF AssignCommit, UnassignCommit, WriteOrder, TypeOK, ReqInv, WellFormed,
      DriverOnlyAfterAcceptance
<1> QED
  BY <1>1, <1>2, <1>3, <1>4 DEF Writes

(* A driver's active order names the driver, after every step.             *)
LEMMA ActiveStep ==
  ASSUME CalmInv, [Next]_vars
  PROVE  ActiveOrderIsHeld'
<1> USE DEF CalmInv
<1>1. CASE ~ \E p \in Procs : Writes(p)
  <2>1. orders' = orders
    BY <1>1, OnlyWritersWrite
  <2>2. CASE \E d \in Drivers, s \in SelfStatus : SetDriverStatus(d, s)
    BY <2>1, <2>2 DEF SetDriverStatus, TypeOK, DriverRow, ActiveOrderIsHeld
  <2>3. CASE ~ \E d \in Drivers, s \in SelfStatus : SetDriverStatus(d, s)
    <3>1. drivers' = drivers
      BY <1>1, <2>3
      DEF Next, vars, Arrive, Continue, Progress, Writes, Transition, TransitionRead, ReadForTransition,
          Place, Call, Assign, Unassign, TransitionRejected, PickNearest, CheckDriver, Emit, Fail,
          Crash, AnnouncePaid
    <3> QED
      BY <2>1, <3>1 DEF ActiveOrderIsHeld
  <2> QED
    BY <2>2, <2>3
<1>2. ASSUME NEW p \in Procs, NEW o \in Orders, NEW s \in InitialStatus, Create(p, o, s)
      PROVE  ActiveOrderIsHeld'
  BY <1>2, NullAssumption
  DEF Create, WriteOrder, Exists, TypeOK, DriverOnlyAfterAcceptance, ActiveOrderIsHeld
<1>3. ASSUME NEW p \in Procs, TransitionCommit(p)
      PROVE  ActiveOrderIsHeld'
  BY <1>3 DEF TransitionCommit, WriteOrder, TypeOK, ReqInv, WellFormed, ActiveOrderIsHeld
<1>4. ASSUME NEW p \in Procs, AssignCommit(p)
      PROVE  ActiveOrderIsHeld'
  <2>1. /\ req[p].order \in Orders /\ req[p].driver \in Drivers
        /\ orders[req[p].order].driverId = req[p].prev
    BY <1>4 DEF AssignCommit, ReqInv, WellFormed, SnapshotFresh, Fresh
  <2> SUFFICES ASSUME NEW d \in Drivers, drivers'[d].activeOrderId # NoOrder
               PROVE  orders'[drivers'[d].activeOrderId].driverId = d
    BY DEF ActiveOrderIsHeld
  <2>2. CASE d = req[p].driver
    BY <1>4, <2>1, <2>2 DEF AssignCommit, WriteOrder, TypeOK
  <2>3. CASE d # req[p].driver
    <3>1. d # req[p].prev /\ drivers'[d] = drivers[d]
      BY <1>4, <2>3 DEF AssignCommit, Released
    <3>2. drivers[d].activeOrderId \in Orders /\ orders[drivers[d].activeOrderId].driverId = d
      BY <3>1 DEF ActiveOrderIsHeld, TypeOK, DriverRow
    <3>3. drivers[d].activeOrderId # req[p].order
      BY <2>1, <3>1, <3>2
    <3> QED
      BY <1>4, <3>1, <3>2, <3>3 DEF AssignCommit, WriteOrder, TypeOK
  <2> QED
    BY <2>2, <2>3
<1>5. ASSUME NEW p \in Procs, UnassignCommit(p)
      PROVE  ActiveOrderIsHeld'
  <2>1. /\ req[p].order \in Orders /\ req[p].prev \in Drivers
        /\ orders[req[p].order].driverId = req[p].prev
    BY <1>5 DEF UnassignCommit, ReqInv, WellFormed, SnapshotFresh, Fresh
  <2> QED
    BY <1>5, <2>1
    DEF UnassignCommit, WriteOrder, Released, TypeOK, DriverRow, ActiveOrderIsHeld
<1> QED
  BY <1>1, <1>2, <1>3, <1>4, <1>5 DEF Writes

LEMMA CalmStep == CalmInv /\ [CalmNext]_vars => CalmInv'
<1> SUFFICES ASSUME CalmInv, [CalmNext]_vars PROVE CalmInv'
  OBVIOUS
<1>1. [Next]_vars
  BY DEF CalmNext
<1>2. OnePerOrder'
  BY DEF CalmNext, CalmInv, OnePerOrder, vars
<1>3. TypeOK' /\ ReqInv'
  BY <1>1, TypeStep DEF CalmInv
<1> QED
  BY <1>1, <1>2, <1>3, FreshStep, AcceptanceStep, ActiveStep DEF CalmInv

(* When requests about one order do not overlap, every handler writes from *)
(* the row as it is, and no driver keeps a pointer to an order that is not *)
(* theirs, whatever happens to other orders and drivers meanwhile.         *)
THEOREM CalmCorrect ==
  CalmSpec => [](SnapshotFresh /\ DriverOnlyAfterAcceptance /\ ActiveOrderIsHeld)
<1>1. CalmInv => SnapshotFresh /\ DriverOnlyAfterAcceptance /\ ActiveOrderIsHeld
  BY DEF CalmInv
<1> QED
  BY <1>1, CalmInit, CalmStep, PTL DEF CalmSpec

--------------------------------------------------------------------------------
(***************************************************************************)
(* Refinement: with the rows as its state, the calm system is OrderMachine.*)
(***************************************************************************)
MachineState == <<[o \in Orders |-> orders[o].status], [o \in Orders |-> orders[o].driverId]>>

(* A transaction on one order, seen by the machine. *)
LEMMA RowView ==
  ASSUME TypeOK, NEW o \in Orders, NEW from, NEW to, NEW d, WriteOrder(o, from, to, d)
  PROVE  \A x \in Orders :
           /\ orders'[x].status = IF x = o THEN to ELSE orders[x].status
           /\ orders'[x].driverId = IF x = o THEN d ELSE orders[x].driverId
<1>1. orders' = [orders EXCEPT ![o] = [status |-> to, driverId |-> d]]
  BY DEF WriteOrder
<1> QED
  BY <1>1 DEF TypeOK

(* The machine reads the same table. *)
LEMMA SameTable ==
  /\ Machine!NoStatus = NoStatus /\ Machine!Status = Status
  /\ Machine!InitialStatus = InitialStatus /\ Machine!Assignable = Assignable
  /\ \A s, t : Machine!CanTransition(s, t) <=> CanTransition(s, t)
  BY DEF Machine!NoStatus, NoStatus, Machine!Status, Status, Machine!InitialStatus,
         InitialStatus, Machine!Assignable, Assignable, Machine!CanTransition, CanTransition,
         Machine!Transitions, Transitions

LEMMA MachineInit == Init => Machine!Init
  BY SameTable DEF Init, Machine!Init

LEMMA MachineStep ==
  ASSUME CalmInv, [Next]_vars
  PROVE  [Machine!Next]_MachineState
<1> USE SameTable DEF CalmInv
<1>1. CASE ~ \E p \in Procs : Writes(p)
  BY <1>1, OnlyWritersWrite DEF MachineState
<1>2. ASSUME NEW p \in Procs, NEW o \in Orders, NEW s \in InitialStatus, Create(p, o, s)
      PROVE  Machine!Open(o, s)
  <2>1. orders[o].driverId = NoDriver /\ orders[o].status = NoStatus
    BY <1>2 DEF Create, Exists, ReqInv
  <2>2. WriteOrder(o, NoStatus, s, NoDriver)
    BY <1>2 DEF Create
  <2>3. \A x \in Orders :
          /\ orders'[x].status = IF x = o THEN s ELSE orders[x].status
          /\ orders'[x].driverId = IF x = o THEN NoDriver ELSE orders[x].driverId
    BY <2>2, RowView
  <2> QED
    BY <2>1, <2>3 DEF Machine!Open
<1>3. ASSUME NEW p \in Procs, TransitionCommit(p)
      PROVE  Machine!Next
  <2>1. PICK o \in Orders, t \in Status, f \in Status \cup {NoStatus},
             d \in Drivers \cup {NoDriver} :
          /\ WriteOrder(o, f, t, d) /\ d = orders[o].driverId
          /\ CanTransition(orders[o].status, t)
    <3>1. /\ req[p].order \in Orders /\ req[p].to \in Status
          /\ req[p].from \in Status \cup {NoStatus}
          /\ CanTransition(orders[req[p].order].status, req[p].to)
      BY <1>3 DEF TransitionCommit, TypeOK, Request, ReqInv, WellFormed, SnapshotFresh, Fresh
    <3>2. orders[req[p].order].driverId \in Drivers \cup {NoDriver}
      BY <3>1 DEF TypeOK, OrderRow
    <3> QED
      BY <1>3, <3>1, <3>2 DEF TransitionCommit
  <2>2. WriteOrder(o, f, t, d)
    BY <2>1
  <2>3. \A x \in Orders :
          /\ orders'[x].status = IF x = o THEN t ELSE orders[x].status
          /\ orders'[x].driverId = IF x = o THEN d ELSE orders[x].driverId
    BY <2>2, RowView
  <2>4. Machine!Move(o, t)
    BY <2>1, <2>3 DEF Machine!Move
  <2> QED
    BY <2>4 DEF Machine!Next
<1>4. ASSUME NEW p \in Procs, AssignCommit(p)
      PROVE  Machine!Next
  <2>1. PICK o \in Orders, t \in Status, d \in Drivers :
          /\ WriteOrder(o, NoStatus, t, d) /\ t = "ASSIGNED"
          /\ orders[o].status \in Assignable
    BY <1>4, StatusFacts DEF AssignCommit, ReqInv, WellFormed, SnapshotFresh, Fresh
  <2>2. WriteOrder(o, NoStatus, t, d)
    BY <2>1
  <2>3. \A x \in Orders :
          /\ orders'[x].status = IF x = o THEN t ELSE orders[x].status
          /\ orders'[x].driverId = IF x = o THEN d ELSE orders[x].driverId
    BY <2>2, RowView
  <2>4. Machine!Hand(o, d)
    BY <2>1, <2>3 DEF Machine!Hand
  <2> QED
    BY <2>4 DEF Machine!Next
<1>5. ASSUME NEW p \in Procs, UnassignCommit(p)
      PROVE  Machine!Next
  <2>1. PICK o \in Orders, f \in Status, t \in Status, d \in Drivers \cup {NoDriver} :
          /\ WriteOrder(o, f, t, d) /\ t = "ACCEPTED" /\ d = NoDriver
          /\ orders[o].driverId # NoDriver
    BY <1>5, NullAssumption, StatusFacts
    DEF UnassignCommit, ReqInv, WellFormed, SnapshotFresh, Fresh
  <2>2. WriteOrder(o, f, t, d)
    BY <2>1
  <2>3. \A x \in Orders :
          /\ orders'[x].status = IF x = o THEN t ELSE orders[x].status
          /\ orders'[x].driverId = IF x = o THEN d ELSE orders[x].driverId
    BY <2>2, RowView
  <2>4. Machine!TakeBack(o)
    BY <2>1, <2>3 DEF Machine!TakeBack
  <2> QED
    BY <2>4 DEF Machine!Next
<1> QED
  BY <1>1, <1>2, <1>3, <1>4, <1>5 DEF Writes, Machine!Next

(* Calm traffic makes the handlers, with all their reads, checks, failures *)
(* and crashes, one atomic state machine per order.                        *)
THEOREM CalmRefinement == CalmSpec => ImplementsMachine
<1>1. CalmInv /\ [CalmNext]_vars => [Machine!Next]_MachineState
  BY MachineStep DEF CalmNext
<1> QED
  BY <1>1, CalmInit, CalmStep, MachineInit, PTL
  DEF CalmSpec, ImplementsMachine, Machine!Spec, MachineState

--------------------------------------------------------------------------------
(* An order that was never accepted has no driver, whatever overlaps with  *)
(* requests about other orders.                                            *)
THEOREM AcceptanceCorrect == CalmSpec => []DriverOnlyAfterAcceptance
  BY CalmCorrect, PTL

(* A step of the machine brings back an ended order only by taking it from *)
(* its driver.                                                             *)
LEMMA ReopenStep ==
  ASSUME TypeOK, [Machine!Next]_MachineState, NEW o \in Orders,
         orders[o].status \in Terminal, orders'[o].status \notin Terminal
  PROVE  /\ orders[o].driverId # NoDriver /\ orders'[o].driverId = NoDriver
         /\ orders'[o].status = "ACCEPTED"
<1> USE SameTable DEF Terminal
<1>1. orders'[o].status # orders[o].status
  OBVIOUS
<1>2. Machine!Next
  BY <1>1 DEF MachineState
<1>3. PICK x \in Orders :
        \/ \E s \in InitialStatus : Machine!Open(x, s)
        \/ \E s \in Status : Machine!Move(x, s)
        \/ \E d \in Drivers : Machine!Hand(x, d)
        \/ Machine!TakeBack(x)
  BY <1>2 DEF Machine!Next
<1>4. ASSUME NEW s \in InitialStatus, Machine!Open(x, s) PROVE FALSE
  BY <1>1, <1>4 DEF Machine!Open, NoStatus
<1>5. ASSUME NEW s \in Status, Machine!Move(x, s) PROVE FALSE
  <2>1. x = o /\ CanTransition(orders[o].status, s) /\ orders'[o].status = s
    BY <1>1, <1>5 DEF Machine!Move
  <2>2. s = "REFUNDED"
    BY <2>1 DEF CanTransition, Transitions, Status
  <2> QED
    BY <2>1, <2>2
<1>6. ASSUME NEW d \in Drivers, Machine!Hand(x, d) PROVE FALSE
  BY <1>1, <1>6 DEF Machine!Hand, Assignable
<1>7. CASE Machine!TakeBack(x)
  BY <1>1, <1>7 DEF Machine!TakeBack
<1> QED
  BY <1>3, <1>4, <1>5, <1>6, <1>7

(* Under calm traffic nothing brings an order back that has ended, but for *)
(* the unassign that takes it from its driver: no transition, assignment,  *)
(* error or crash does.                                                    *)
THEOREM ReopenCorrect == CalmSpec => OnlyUnassignReopens
<1> DEFINE A == \A o \in Orders :
                  orders[o].status \in Terminal /\ orders'[o].status \notin Terminal =>
                    /\ orders[o].driverId # NoDriver /\ orders'[o].driverId = NoDriver
                    /\ orders'[o].status = "ACCEPTED"
<1>1. CalmInv /\ [CalmNext]_vars => [A]_vars
  <2> SUFFICES ASSUME CalmInv, [CalmNext]_vars, NEW o \in Orders,
                      orders[o].status \in Terminal, orders'[o].status \notin Terminal
               PROVE  /\ orders[o].driverId # NoDriver /\ orders'[o].driverId = NoDriver
                      /\ orders'[o].status = "ACCEPTED"
    OBVIOUS
  <2> QED
    BY MachineStep, ReopenStep DEF CalmInv, CalmNext
<1> QED
  BY <1>1, CalmInit, CalmStep, PTL DEF CalmSpec, OnlyUnassignReopens

(***************************************************************************)
(* The audit log.                                                          *)
(***************************************************************************)
(* The log explains the row under calm traffic, too. *)
LEMMA CalmAudit == CalmSpec => [](AuditExplainsStatus /\ AuditIsPlausible)
<1>1. Init => AuditExplainsStatus /\ AuditIsPlausible
  BY DEF Init, AuditExplainsStatus, AuditIsPlausible
<1>2. /\ CalmInv /\ AuditExplainsStatus /\ AuditIsPlausible /\ [CalmNext]_vars
      => AuditExplainsStatus' /\ AuditIsPlausible'
  BY AuditStep DEF CalmInv, CalmNext
<1> QED
  BY <1>1, <1>2, CalmInit, CalmStep, PTL DEF CalmSpec

(* An event names the status the row had, which the event before it set.   *)
LEMMA ChainStep ==
  ASSUME CalmInv, AuditExplainsStatus, [Next]_vars, NEW o \in Orders, audit'[o] # audit[o]
  PROVE  audit'[o].from \in {NoStatus, audit[o].to}
<1> USE DEF CalmInv
<1>1. CASE ~ \E p \in Procs : Writes(p)
  BY <1>1, OnlyWritersWrite
<1>2. ASSUME NEW x \in Orders, NEW from, NEW to, NEW d, WriteOrder(x, from, to, d),
             from \in {NoStatus, orders[x].status}
      PROVE  audit'[o].from \in {NoStatus, audit[o].to}
  BY <1>2 DEF WriteOrder, TypeOK, AuditExplainsStatus
<1>3. ASSUME NEW p \in Procs, NEW x \in Orders, NEW s \in InitialStatus, Create(p, x, s)
      PROVE  WriteOrder(x, NoStatus, s, NoDriver)
  BY <1>3 DEF Create
<1>4. ASSUME NEW p \in Procs, TransitionCommit(p)
      PROVE  /\ req[p].order \in Orders /\ req[p].from = orders[req[p].order].status
             /\ WriteOrder(req[p].order, req[p].from, req[p].to, orders[req[p].order].driverId)
  BY <1>4 DEF TransitionCommit, ReqInv, WellFormed, SnapshotFresh, Fresh
<1>5. ASSUME NEW p \in Procs, AssignCommit(p)
      PROVE  req[p].order \in Orders /\ WriteOrder(req[p].order, NoStatus, "ASSIGNED", req[p].driver)
  BY <1>5 DEF AssignCommit, ReqInv, WellFormed
<1>6. ASSUME NEW p \in Procs, UnassignCommit(p)
      PROVE  /\ req[p].order \in Orders /\ req[p].from = orders[req[p].order].status
             /\ WriteOrder(req[p].order, req[p].from, "ACCEPTED", NoDriver)
  BY <1>6 DEF UnassignCommit, ReqInv, WellFormed, SnapshotFresh, Fresh
<1> QED
  BY <1>1, <1>2, <1>3, <1>4, <1>5, <1>6 DEF Writes

(* Each event of an order's log continues where the one before it ended,   *)
(* although a handler reads the status it names long before it writes.     *)
THEOREM ChainCorrect == CalmSpec => AuditIsAChain
<1> DEFINE A == \A o \in Orders :
                  audit'[o] # audit[o] => audit'[o].from \in {NoStatus, audit[o].to}
<1>1. CalmInv /\ AuditExplainsStatus /\ [CalmNext]_vars => [A]_vars
  BY ChainStep DEF CalmNext
<1> QED
  BY <1>1, CalmInit, CalmStep, CalmAudit, PTL DEF CalmSpec, AuditIsAChain

(***************************************************************************)
(* The rooms.  A request that has yet to broadcast will broadcast what the *)
(* order's status still is.                                                *)
(***************************************************************************)
EmitIsCurrent(p) == req[p].pc = "emit" => req[p].to = orders[req[p].order].status

EmitsAreCurrent == \A p \in Procs : EmitIsCurrent(p)

(* A writing step ends in an emit of what it wrote, or makes a draft.      *)
LEMMA WriterEmits ==
  ASSUME CalmInv, NEW p \in Procs, NEW o \in Orders, Target(p, o)
  PROVE  /\ \A x \in Orders : x # o => orders'[x] = orders[x]
         /\ view' = view
         /\ \A q \in Procs : q # p => req'[q] = req[q]
         /\ \/ /\ req'[p].pc = "emit" /\ req'[p].order = o
               /\ req'[p].to = orders'[o].status
            \/ req'[p] = Idle /\ req[p] = Idle /\ orders[o].status = NoStatus
<1> USE DEF CalmInv
<1>1. ASSUME NEW s \in InitialStatus, Create(p, o, s)
      PROVE  /\ \/ /\ req'[p].pc = "emit" /\ req'[p].order = o
                   /\ req'[p].to = orders'[o].status
                \/ req'[p] = Idle /\ req[p] = Idle /\ orders[o].status = NoStatus
             /\ view' = view
             /\ \A x \in Orders : x # o => orders'[x] = orders[x]
             /\ \A q \in Procs : q # p => req'[q] = req[q]
  BY <1>1 DEF Create, WriteOrder, Idle, Exists, TypeOK
<1>2. CASE (TransitionCommit(p) \/ AssignCommit(p) \/ UnassignCommit(p)) /\ o = req[p].order
  <2>1. req[p] \in Request /\ WellFormed(req[p])
    BY DEF TypeOK, ReqInv
  <2>2. req'[p].pc = "emit" /\ req'[p].order = o /\ req'[p].to = req[p].to
    BY <1>2, <2>1 DEF TransitionCommit, AssignCommit, UnassignCommit, Goto, TypeOK, Request
  <2>3. orders'[o].status = req[p].to
    BY <1>2, <2>1
    DEF TransitionCommit, AssignCommit, UnassignCommit, WriteOrder, TypeOK, WellFormed
  <2> QED
    BY <1>2, <2>2, <2>3
    DEF TransitionCommit, AssignCommit, UnassignCommit, WriteOrder, Goto, TypeOK
<1> QED
  BY <1>1, <1>2 DEF Target

LEMMA RoomStep ==
  ASSUME CalmInv, EmitsAreCurrent, [Next]_vars
  PROVE  /\ EmitsAreCurrent'
         /\ \A x \in Orders : RoomUpToDate(x) /\ ~AnnouncePaid(x) => RoomUpToDate(x)'
<1> USE DEF CalmInv
<1> DEFINE Kept(x) == RoomUpToDate(x) /\ ~AnnouncePaid(x) => RoomUpToDate(x)'
<1>1. ASSUME NEW p \in Procs, NEW o \in Orders, Target(p, o)
      PROVE  EmitsAreCurrent' /\ \A x \in Orders : Kept(x)
  <2>1. /\ \A x \in Orders : x # o => orders'[x] = orders[x]
        /\ view' = view
        /\ \A q \in Procs : q # p => req'[q] = req[q]
        /\ \/ /\ req'[p].pc = "emit" /\ req'[p].order = o
              /\ req'[p].to = orders'[o].status
           \/ req'[p] = Idle /\ req[p] = Idle /\ orders[o].status = NoStatus
    BY <1>1, WriterEmits
  <2>2. ASSUME NEW q \in Procs PROVE EmitIsCurrent(q)'
    <3>1. CASE q = p
      BY <2>1, <3>1 DEF EmitIsCurrent, Idle
    <3>2. CASE q # p /\ req[q].pc # "idle"
      <4>1. /\ req'[q] = req[q] /\ orders'[req[q].order] = orders[req[q].order]
        BY <1>1, <3>2, SoleWriter
      <4> QED
        BY <4>1 DEF EmitIsCurrent, EmitsAreCurrent
    <3>3. CASE q # p /\ req[q].pc = "idle"
      BY <2>1, <3>3 DEF EmitIsCurrent
    <3> QED
      BY <3>1, <3>2, <3>3
  <2>3. ASSUME NEW x \in Orders, RoomUpToDate(x) PROVE RoomUpToDate(x)'
    <3>1. RoomUpToDate(x)
      BY <2>3
    <3>2. CASE x = o /\ req'[p].pc = "emit" /\ req'[p].order = o
      BY <3>2 DEF RoomUpToDate
    <3>3. CASE x = o /\ req[p] = Idle /\ orders[o].status = NoStatus
      <4>1. ~ \E q \in Procs : req[q].pc = "emit" /\ req[q].order = o
        BY <3>3 DEF InFlightExists, Exists
      <4> QED
        BY <2>1, <3>1, <3>3, <4>1 DEF RoomUpToDate
    <3>4. CASE x # o
      <4>1. CASE view[x] \in {NoStatus, orders[x].status}
        BY <2>1, <3>4, <4>1 DEF RoomUpToDate
      <4>2. ASSUME NEW q \in Procs, req[q].pc = "emit", req[q].order = x
            PROVE  RoomUpToDate(x)'
        <5>1. q # p
          <6>1. CASE \E s \in InitialStatus : Create(p, o, s)
            BY <4>2, <6>1 DEF Create, Idle
          <6>2. CASE o = req[p].order
            BY <3>4, <4>2, <6>2
          <6> QED
            BY <1>1, <6>1, <6>2 DEF Target
        <5> QED
          BY <2>1, <4>2, <5>1 DEF RoomUpToDate
      <4> QED
        BY <3>1, <4>1, <4>2 DEF RoomUpToDate
    <3> QED
      BY <2>1, <3>2, <3>3, <3>4
  <2> QED
    BY <2>2, <2>3 DEF EmitsAreCurrent
<1>2. ASSUME ~ \E p \in Procs, o \in Orders : Target(p, o)
      PROVE  EmitsAreCurrent' /\ \A x \in Orders : Kept(x)
  <2>1. orders' = orders
    <3>1. ~ \E p \in Procs : Writes(p)
      BY <1>2 DEF Writes, Target, ReqInv, WellFormed, TransitionCommit, AssignCommit,
                  UnassignCommit
    <3> QED
      BY <3>1, OnlyWritersWrite
  <2>2. CASE Crash
    BY <2>2 DEF Crash, RoomUpToDate, EmitsAreCurrent, EmitIsCurrent, Idle
  <2>3. ASSUME NEW p \in Procs, Emit(p)
        PROVE  EmitsAreCurrent' /\ \A x \in Orders : Kept(x)
    <3>1. /\ req[p].order \in Orders /\ req[p].to = orders[req[p].order].status
          /\ view' = [view EXCEPT ![req[p].order] = req[p].to]
          /\ req' = [req EXCEPT ![p] = Idle]
      BY <2>3 DEF Emit, Finish, ReqInv, WellFormed, EmitsAreCurrent, EmitIsCurrent
    <3> QED
      BY <2>1, <3>1 DEF RoomUpToDate, EmitsAreCurrent, EmitIsCurrent, TypeOK, Idle
  <2>4. ASSUME NEW o \in Orders, AnnouncePaid(o)
        PROVE  EmitsAreCurrent' /\ \A x \in Orders : Kept(x)
    <3>1. orders' = orders /\ req' = req /\ \A x \in Orders : x # o => view'[x] = view[x]
      BY <2>4 DEF AnnouncePaid, TypeOK
    <3> QED
      BY <2>4, <3>1 DEF RoomUpToDate, EmitsAreCurrent, EmitIsCurrent
  <2>5. CASE /\ ~Crash /\ ~ \E p \in Procs : Emit(p)
             /\ ~ \E o \in Orders : AnnouncePaid(o)
    <3>1. view' = view
      BY <1>2, <2>5, CardAssumption
      DEF Next, vars, Arrive, Continue, Progress, Transition, TransitionRead, ReadForTransition,
          Place, Call, Assign, Unassign, TransitionRejected, PickNearest, CheckDriver, Fail,
          SetDriverStatus, Create, TransitionCommit, AssignCommit, UnassignCommit
    <3>2. ASSUME NEW p \in Procs, req'[p].pc = "emit" \/ req[p].pc = "emit"
          PROVE  req'[p] = req[p]
      <4>1. ~ (\E q \in Procs : q # p /\ (Arrive(q) \/ Continue(q) \/ Fail(q)))
            \/ req'[p] = req[p]
        BY OwnStep
      <4>2. CASE UNCHANGED vars \/ \E d \in Drivers, s \in SelfStatus : SetDriverStatus(d, s)
        BY <4>2 DEF vars, SetDriverStatus
      <4>3. CASE Fail(p) \/ TransitionRejected(p)
        BY <3>2, <4>3 DEF Fail, TransitionRejected, Finish, Idle, TypeOK
      <4>4. ASSUME NEW o \in Orders, NEW t, ReadForTransition(p, o, t), req[p].pc # "emit"
            PROVE  req'[p] = req[p]
        BY <3>2, <4>4 DEF ReadForTransition, Idle, TypeOK
      <4>5. ASSUME NEW o \in Orders, Place(p, o) \/ Unassign(p, o)
            PROVE  req'[p] = req[p]
        <5>1. req[p].pc # "emit"
          BY <4>5 DEF Place, Unassign, Idle
        <5>2. CASE Place(p, o)
          BY <3>2, <5>1, <5>2 DEF Place, Call, Idle, TypeOK
        <5>3. CASE Unassign(p, o)
          BY <3>2, <5>1, <5>3 DEF Unassign, TypeOK
        <5> QED
          BY <4>5, <5>2, <5>3
      <4>6. ASSUME NEW o \in Orders, NEW d \in Drivers \cup {NoDriver}, Assign(p, o, d)
            PROVE  req'[p] = req[p]
        BY <3>2, <4>6 DEF Assign, Idle, TypeOK
      <4>7. CASE PickNearest(p) \/ CheckDriver(p)
        BY <3>2, <4>7 DEF PickNearest, CheckDriver, Goto, Finish, Idle, TypeOK, Request
      <4>8. ~Writes(p)
        BY <1>2 DEF Writes, Target, ReqInv, WellFormed, TransitionCommit, AssignCommit,
                    UnassignCommit
      <4>9. CASE TransitionRead(p)
        BY <4>4, <4>9 DEF TransitionRead, ReqInv, WellFormed
      <4>10. ASSUME NEW o \in Orders, NEW t \in Requested, Transition(p, o, t)
             PROVE  req'[p] = req[p]
        BY <4>4, <4>10 DEF Transition, Idle
      <4> QED
        BY <2>5, <4>1, <4>2, <4>3, <4>5, <4>6, <4>7, <4>8, <4>9, <4>10, CardAssumption
        DEF Next, Arrive, Continue, Progress, Writes
    <3> QED
      BY <2>1, <3>1, <3>2 DEF RoomUpToDate, EmitsAreCurrent, EmitIsCurrent
  <2> QED
    BY <2>2, <2>3, <2>4, <2>5
<1> QED
  BY <1>1, <1>2

(* No handler, error or crash leaves a room behind its order: none ends    *)
(* without its broadcast, and none broadcasts late.  The webhook does.     *)
THEOREM RoomCorrect == CalmSpec => OnlyPaymentsMisleadRooms
<1>1. Init => EmitsAreCurrent
  BY DEF Init, EmitsAreCurrent, EmitIsCurrent, Idle
<1>2. EmitsAreCurrent /\ UNCHANGED vars => EmitsAreCurrent'
  BY DEF EmitsAreCurrent, EmitIsCurrent, vars
<1>3. /\ CalmInv /\ EmitsAreCurrent /\ [CalmNext]_vars
      => /\ EmitsAreCurrent'
         /\ [\A o \in Orders : RoomUpToDate(o) /\ ~AnnouncePaid(o) => RoomUpToDate(o)']_vars
  BY <1>2, RoomStep DEF CalmNext
<1> QED
  BY <1>1, <1>3, CalmInit, CalmStep, PTL DEF CalmSpec, OnlyPaymentsMisleadRooms

(***************************************************************************)
(* Double booking.                                                         *)
(***************************************************************************)
(* A step that writes no order moves no driver, and a driver is looked at  *)
(* by CheckDriver alone.                                                   *)
LEMMA Looks ==
  ASSUME CalmInv, [Next]_vars, ~ \E p \in Procs : Writes(p)
  PROVE  /\ \A d \in Drivers : drivers'[d].activeOrderId = drivers[d].activeOrderId
         /\ \A p \in Procs :
              req'[p].pc = "commitAssign" =>
                \/ req'[p] = req[p]
                \/ /\ req[p].pc = "assign"
                   /\ req'[p].driver = req[p].driver /\ req'[p].order = req[p].order
                   /\ drivers[req[p].driver].activeOrderId \in {NoOrder, req[p].order}
<1> USE DEF CalmInv
<1>1. \A d \in Drivers : drivers'[d].activeOrderId = drivers[d].activeOrderId
  <2>1. CASE \E d \in Drivers, s \in SelfStatus : SetDriverStatus(d, s)
    BY <2>1 DEF SetDriverStatus, TypeOK, DriverRow
  <2>2. CASE ~ \E d \in Drivers, s \in SelfStatus : SetDriverStatus(d, s)
    BY <2>2
    DEF Next, vars, Arrive, Continue, Progress, Writes, Transition, TransitionRead,
        ReadForTransition, Place, Call, Assign, Unassign, TransitionRejected, PickNearest,
        CheckDriver, Emit, Fail, Crash, AnnouncePaid
  <2> QED
    BY <2>1, <2>2
<1>2. ASSUME NEW p \in Procs, req'[p].pc = "commitAssign", req'[p] # req[p]
      PROVE  /\ req[p].pc = "assign"
             /\ req'[p].driver = req[p].driver /\ req'[p].order = req[p].order
             /\ drivers[req[p].driver].activeOrderId \in {NoOrder, req[p].order}
  <2>1. ~ \E q \in Procs : q # p /\ (Arrive(q) \/ Continue(q) \/ Fail(q))
    BY <1>2, OwnStep
  <2>2. /\ ~ UNCHANGED vars /\ ~Crash /\ ~ \E o \in Orders : AnnouncePaid(o)
        /\ ~ \E d \in Drivers, s \in SelfStatus : SetDriverStatus(d, s)
    BY <1>2 DEF vars, SetDriverStatus, AnnouncePaid, Crash, Idle
  <2>3. ~Fail(p) /\ ~TransitionRejected(p) /\ ~Emit(p)
    BY <1>2 DEF Fail, TransitionRejected, Emit, Finish, Idle, TypeOK
  <2>4. ASSUME NEW o \in Orders, NEW t, ReadForTransition(p, o, t) PROVE FALSE
    BY <1>2, <2>4 DEF ReadForTransition, Idle, TypeOK
  <2>5. ASSUME NEW o \in Orders, Place(p, o) PROVE FALSE
    BY <1>2, <2>5 DEF Place, Call, Idle, TypeOK
  <2>6. ASSUME NEW o \in Orders, Unassign(p, o) PROVE FALSE
    BY <1>2, <2>6 DEF Unassign, TypeOK
  <2>7. ASSUME NEW o \in Orders, NEW d \in Drivers \cup {NoDriver}, Assign(p, o, d) PROVE FALSE
    BY <1>2, <2>7 DEF Assign, TypeOK
  <2>8. ~PickNearest(p)
    BY <1>2 DEF PickNearest, Finish, Idle, TypeOK, Request
  <2>9. ~TransitionRead(p)
    BY <2>4 DEF TransitionRead, ReqInv, WellFormed
  <2>10. ~Writes(p)
    OBVIOUS
  <2>11. CheckDriver(p)
    BY <2>1, <2>2, <2>3, <2>4, <2>5, <2>6, <2>7, <2>8, <2>9, <2>10, CardAssumption
    DEF Next, Arrive, Continue, Progress, Transition, Writes
  <2> QED
    BY <1>2, <2>11 DEF CheckDriver, Goto, Finish, Idle, TypeOK, Request
<1> QED
  BY <1>1, <1>2

LEMMA MannedStep ==
  ASSUME CalmInv, [Next]_vars, ~DoubleBooking, DriversAreOnTheirOrders
  PROVE  DriversAreOnTheirOrders'
<1> USE DEF CalmInv
<1> DEFINE Manned(o) == orders[o].driverId # NoDriver =>
                          drivers[orders[o].driverId].activeOrderId = o
           Checked(p) == req[p].pc = "commitAssign" =>
                           drivers[req[p].driver].activeOrderId \in {NoOrder, req[p].order}
<1>0. /\ \A o \in Orders : Manned(o) /\ orders[o].driverId \in Drivers \cup {NoDriver}
      /\ \A p \in Procs : /\ Checked(p)
                          /\ req[p].pc \in {"assign", "commitAssign"} => req[p].driver \in Drivers
  BY DEF DriversAreOnTheirOrders, TypeOK, OrderRow, ReqInv, WellFormed
<1>1. CASE ~ \E p \in Procs : Writes(p)
  <2>1. orders' = orders
    BY <1>1, OnlyWritersWrite
  <2>2. /\ \A d \in Drivers : drivers'[d].activeOrderId = drivers[d].activeOrderId
        /\ \A p \in Procs :
             req'[p].pc = "commitAssign" =>
               \/ req'[p] = req[p]
               \/ /\ req[p].pc = "assign"
                  /\ req'[p].driver = req[p].driver /\ req'[p].order = req[p].order
                  /\ drivers[req[p].driver].activeOrderId \in {NoOrder, req[p].order}
    BY <1>1, Looks
  <2>3. ASSUME NEW o \in Orders PROVE Manned(o)'
    BY <1>0, <2>1, <2>2
  <2>4. ASSUME NEW p \in Procs PROVE Checked(p)'
    BY <1>0, <2>2
  <2> QED
    BY <2>3, <2>4 DEF DriversAreOnTheirOrders
<1>2. ASSUME NEW p \in Procs, (\E o \in Orders, s \in InitialStatus : Create(p, o, s)) \/ TransitionCommit(p)
      PROVE  DriversAreOnTheirOrders'
  <2>1. drivers' = drivers
    BY <1>2 DEF Create, TransitionCommit
  <2>2. ASSUME NEW o \in Orders
        PROVE  orders'[o].driverId \in {orders[o].driverId, NoDriver}
    <3>1. ASSUME NEW x \in Orders, NEW s \in InitialStatus, Create(p, x, s)
          PROVE  orders'[o].driverId \in {orders[o].driverId, NoDriver}
      BY <3>1 DEF Create, WriteOrder, TypeOK
    <3>2. CASE TransitionCommit(p)
      BY <3>2 DEF TransitionCommit, WriteOrder, TypeOK, ReqInv, WellFormed
    <3> QED
      BY <1>2, <3>1, <3>2
  <2>3. ASSUME NEW q \in Procs, req'[q].pc = "commitAssign" PROVE req'[q] = req[q]
    <3>1. ASSUME NEW x \in Orders, NEW s \in InitialStatus, Create(p, x, s)
          PROVE  req'[q] = req[q]
      BY <2>3, <3>1 DEF Create, Idle, TypeOK
    <3>2. CASE TransitionCommit(p)
      BY <2>3, <3>2 DEF TransitionCommit, Goto, TypeOK, Request
    <3> QED
      BY <1>2, <3>1, <3>2
  <2> QED
    BY <1>0, <2>1, <2>2, <2>3 DEF DriversAreOnTheirOrders
<1>3. ASSUME NEW p \in Procs, AssignCommit(p)
      PROVE  DriversAreOnTheirOrders'
  <2> DEFINE x == req[p].order
             e == req[p].driver
             f == req[p].prev
  <2>1. /\ x \in Orders /\ e \in Drivers /\ orders[x].driverId = f
        /\ drivers[e].activeOrderId \in {NoOrder, x}
    BY <1>0, <1>3 DEF AssignCommit, ReqInv, WellFormed, SnapshotFresh, Fresh
  <2>2. /\ \A o \in Orders : orders'[o].driverId = IF o = x THEN e ELSE orders[o].driverId
        /\ \A d \in Drivers : drivers'[d].activeOrderId =
              IF d = e THEN x ELSE IF d = f THEN NoOrder ELSE drivers[d].activeOrderId
    BY <1>3, <2>1 DEF AssignCommit, WriteOrder, Released, TypeOK
  <2>3. ASSUME NEW o \in Orders PROVE Manned(o)'
    <3>1. CASE o = x
      BY <2>1, <2>2, <3>1
    <3>2. CASE o # x /\ orders[o].driverId # NoDriver
      <4>1. orders[o].driverId # e /\ orders[o].driverId # f
        BY <1>0, <2>1, <3>2, NullAssumption
      <4> QED
        BY <1>0, <2>2, <3>2, <4>1
    <3> QED
      BY <2>2, <3>1, <3>2
  <2>4. ASSUME NEW q \in Procs, req'[q].pc = "commitAssign" PROVE Checked(q)'
    <3>1. q # p /\ req'[q] = req[q]
      BY <1>3, <2>4 DEF AssignCommit, Goto, TypeOK, Request
    <3>2. req[q].driver \in Drivers /\ req[q].driver # e
      BY <1>0, <2>1, <2>4, <3>1, NullAssumption DEF DoubleBooking
    <3> QED
      BY <1>0, <2>2, <2>4, <3>1, <3>2
  <2> QED
    BY <2>3, <2>4 DEF DriversAreOnTheirOrders
<1>4. ASSUME NEW p \in Procs, UnassignCommit(p)
      PROVE  DriversAreOnTheirOrders'
  <2> DEFINE x == req[p].order
             f == req[p].prev
  <2>1. x \in Orders /\ f \in Drivers /\ orders[x].driverId = f
    BY <1>4 DEF UnassignCommit, ReqInv, WellFormed, SnapshotFresh, Fresh
  <2>2. /\ \A o \in Orders : orders'[o].driverId = IF o = x THEN NoDriver ELSE orders[o].driverId
        /\ \A d \in Drivers : drivers'[d].activeOrderId =
              IF d = f THEN NoOrder ELSE drivers[d].activeOrderId
    BY <1>4, <2>1 DEF UnassignCommit, WriteOrder, Released, TypeOK
  <2>3. ASSUME NEW o \in Orders PROVE Manned(o)'
    <3>1. CASE o # x /\ orders[o].driverId # NoDriver
      <4>1. orders[o].driverId # f
        BY <1>0, <2>1, <3>1, NullAssumption
      <4> QED
        BY <1>0, <2>2, <3>1, <4>1
    <3> QED
      BY <2>2, <3>1
  <2>4. ASSUME NEW q \in Procs, req'[q].pc = "commitAssign" PROVE Checked(q)'
    <3>1. q # p /\ req'[q] = req[q]
      BY <1>4, <2>4 DEF UnassignCommit, Goto, TypeOK, Request
    <3> QED
      BY <1>0, <2>2, <2>4, <3>1
  <2> QED
    BY <2>3, <2>4 DEF DriversAreOnTheirOrders
<1> QED
  BY <1>1, <1>2, <1>3, <1>4 DEF Writes

(* Whatever is retried, reassigned, released or fails, a driver is taken   *)
(* off the order they are on only by two assignments that overlap.         *)
THEOREM DoubleBookingCorrect == CalmSpec => OnlyRacesDoubleBook
<1>1. /\ CalmInv /\ [CalmNext]_vars
      => [~DoubleBooking => (DriversAreOnTheirOrders => DriversAreOnTheirOrders')]_vars
  BY MannedStep DEF CalmNext
<1> QED
  BY <1>1, CalmInit, CalmStep, PTL DEF CalmSpec, OnlyRacesDoubleBook
================================================================================
