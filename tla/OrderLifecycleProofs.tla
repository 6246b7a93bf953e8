-------------------------- MODULE OrderLifecycleProofs --------------------------
(***************************************************************************)
(* Proofs about OrderLifecycle for every set of orders, drivers and        *)
(* requests, under any interleaving: the shape of the tables, the audit    *)
(* log, and who can change an order's driver.                              *)
(***************************************************************************)
EXTENDS OrderRequirements, TLAPS

(***************************************************************************)
(* The table.                                                              *)
(***************************************************************************)

(* ORDER_TRANSITIONS only names statuses. *)
LEMMA TableTyped ==
  ASSUME NEW s, NEW t, CanTransition(s, t)
  PROVE  s \in Status /\ t \in Status
  BY DEF CanTransition, Transitions, Status

(* ORDER_TRANSITIONS leads to an unaccepted status only from another one.  *)
LEMMA UnacceptedBackwards ==
  ASSUME NEW s, NEW t, CanTransition(s, t), t \in Unaccepted
  PROVE  s \in Unaccepted
  BY DEF CanTransition, Transitions, Status, Unaccepted

LEMMA StatusFacts ==
  /\ NoStatus \notin Status
  /\ InitialStatus \subseteq Status /\ Assignable \subseteq Status
  /\ "ASSIGNED" \in Status /\ "ACCEPTED" \in Status /\ "PLACED" \in Status
  /\ "ASSIGNED" \notin Unaccepted /\ "ACCEPTED" \notin Unaccepted
  BY DEF NoStatus, Status, InitialStatus, Assignable, Unaccepted

(***************************************************************************)
(* The shape of a request: what each program counter says about the        *)
(* fields, which the type alone does not.                                  *)
(***************************************************************************)
Committing == {"commitTransition", "commitAssign", "commitUnassign"}

WellFormed(r) ==
  /\ r.pc = "idle" => r = Idle
  /\ r.pc # "idle" => r.order \in Orders /\ r.to \in Status
  /\ r.pc = "commitTransition" => CanTransition(r.from, r.to)
  /\ r.pc \in {"pick", "assign", "commitAssign"} =>
       r.to = "ASSIGNED" /\ r.from \in Assignable
  /\ r.pc \in {"assign", "commitAssign"} => r.driver \in Drivers
  /\ r.pc = "commitUnassign" =>
       r.to = "ACCEPTED" /\ r.prev \in Drivers /\ r.from \in Status

ReqInv ==
  /\ \A p \in Procs : WellFormed(req[p])
  /\ \A o \in Orders : orders[o].driverId # NoDriver => Exists(o)

--------------------------------------------------------------------------------
(* The requests of OrderLifecycle and the tables they write keep their     *)
(* shape under any interleaving, failure and crash.                        *)
LEMMA TypeInit == Init => TypeOK /\ ReqInv
  BY NullAssumption
  DEF Init, TypeOK, ReqInv, Exists, WellFormed, Idle, OrderRow, DriverRow, Event,
      Request, Pc, DriverStatus

LEMMA TypeStep == TypeOK /\ ReqInv /\ [Next]_vars => TypeOK' /\ ReqInv'
<1> SUFFICES ASSUME TypeOK, ReqInv, [Next]_vars PROVE TypeOK' /\ ReqInv'
  OBVIOUS
<1> USE StatusFacts
<1>0. Idle \in Request /\ WellFormed(Idle)
  BY DEF Idle, Request, WellFormed, Pc
<1>1. ASSUME NEW p \in Procs, NEW o \in Orders, NEW s \in InitialStatus, Create(p, o, s)
      PROVE  TypeOK' /\ ReqInv'
  BY <1>1 DEF Create, WriteOrder, Exists, TypeOK, ReqInv, WellFormed, Request, Idle, Pc,
              OrderRow, Event
<1>2. ASSUME NEW p \in Procs, NEW o \in Orders, NEW t \in Status, ReadForTransition(p, o, t)
      PROVE  TypeOK' /\ ReqInv'
  BY <1>2, TableTyped DEF ReadForTransition, Exists, TypeOK, ReqInv, WellFormed, Request,
              Idle, Pc, OrderRow
<1>3. ASSUME NEW p \in Procs, NEW o \in Orders, Place(p, o)
      PROVE  TypeOK' /\ ReqInv'
  BY <1>3 DEF Place, Call, Exists, TypeOK, ReqInv, WellFormed, Request, Idle, Pc
<1>4. ASSUME NEW p \in Procs, NEW o \in Orders, NEW d \in Drivers \cup {NoDriver},
             Assign(p, o, d)
      PROVE  TypeOK' /\ ReqInv'
  BY <1>4, NullAssumption DEF Assign, Exists, TypeOK, ReqInv, WellFormed, Request, Idle, Pc, OrderRow
<1>5. ASSUME NEW p \in Procs, NEW o \in Orders, Unassign(p, o)
      PROVE  TypeOK' /\ ReqInv'
  BY <1>5 DEF Unassign, Exists, TypeOK, ReqInv, WellFormed, Request, Idle, Pc, OrderRow
<1>6. ASSUME NEW p \in Procs, TransitionCommit(p)
      PROVE  TypeOK' /\ ReqInv'
  <2> DEFINE r == req[p]
  <2>1. r \in Request /\ WellFormed(r) /\ r.order \in Orders /\ r.to \in Status
    BY <1>6 DEF TransitionCommit, TypeOK, ReqInv, WellFormed
  <2>2. [r EXCEPT !.pc = "emit"] \in Request /\ WellFormed([r EXCEPT !.pc = "emit"])
    BY <2>1 DEF Request, Pc, WellFormed
  <2>3. req' = [req EXCEPT ![p] = [r EXCEPT !.pc = "emit"]]
    BY <1>6, <2>1 DEF TransitionCommit, Goto, TypeOK
  <2>4. TypeOK'
    BY <1>6, <2>1, <2>2, <2>3
    DEF TransitionCommit, WriteOrder, TypeOK, WellFormed, Request, OrderRow, Event
  <2>5. ReqInv'
    BY <1>6, <2>1, <2>2, <2>3
    DEF TransitionCommit, WriteOrder, Exists, TypeOK, ReqInv, WellFormed, Request, OrderRow
  <2> QED
    BY <2>4, <2>5
<1>7. ASSUME NEW p \in Procs, PickNearest(p)
      PROVE  TypeOK' /\ ReqInv'
  BY <1>0, <1>7 DEF PickNearest, Finish, Exists, TypeOK, ReqInv, WellFormed, Request, Pc
<1>8. ASSUME NEW p \in Procs, CheckDriver(p)
      PROVE  TypeOK' /\ ReqInv'
  BY <1>0, <1>8 DEF CheckDriver, Goto, Finish, Exists, TypeOK, ReqInv, WellFormed, Request, Pc
<1>9. ASSUME NEW p \in Procs, AssignCommit(p)
      PROVE  TypeOK' /\ ReqInv'
  <2> DEFINE r == req[p]
  <2>1. r \in Request /\ WellFormed(r) /\ r.order \in Orders /\ r.to \in Status
    BY <1>9 DEF AssignCommit, TypeOK, ReqInv, WellFormed
  <2>2. [r EXCEPT !.pc = "emit"] \in Request /\ WellFormed([r EXCEPT !.pc = "emit"])
    BY <2>1 DEF Request, Pc, WellFormed
  <2>3. req' = [req EXCEPT ![p] = [r EXCEPT !.pc = "emit"]]
    BY <1>9, <2>1 DEF AssignCommit, Goto, TypeOK
  <2>4. TypeOK'
    BY <1>9, <2>1, <2>2, <2>3
    DEF AssignCommit, WriteOrder, TypeOK, WellFormed, Request, OrderRow, Event, Released, DriverRow,
        DriverStatus
  <2>5. ReqInv'
    BY <1>9, <2>1, <2>2, <2>3
    DEF AssignCommit, WriteOrder, Exists, TypeOK, ReqInv, WellFormed, Request, OrderRow
  <2> QED
    BY <2>4, <2>5
<1>10. ASSUME NEW p \in Procs, UnassignCommit(p)
      PROVE  TypeOK' /\ ReqInv'
  <2> DEFINE r == req[p]
  <2>1. r \in Request /\ WellFormed(r) /\ r.order \in Orders /\ r.to \in Status
    BY <1>10 DEF UnassignCommit, TypeOK, ReqInv, WellFormed
  <2>2. [r EXCEPT !.pc = "emit"] \in Request /\ WellFormed([r EXCEPT !.pc = "emit"])
    BY <2>1 DEF Request, Pc, WellFormed
  <2>3. req' = [req EXCEPT ![p] = [r EXCEPT !.pc = "emit"]]
    BY <1>10, <2>1 DEF UnassignCommit, Goto, TypeOK
  <2>4. TypeOK'
    BY <1>10, <2>1, <2>2, <2>3
    DEF UnassignCommit, WriteOrder, TypeOK, WellFormed, Request, OrderRow, Event, Released, DriverRow,
        DriverStatus
  <2>5. ReqInv'
    BY <1>10, <2>1, <2>2, <2>3
    DEF UnassignCommit, WriteOrder, Exists, TypeOK, ReqInv, WellFormed, Request, OrderRow
  <2> QED
    BY <2>4, <2>5
<1>11. ASSUME NEW p \in Procs, TransitionRejected(p) \/ Emit(p) \/ Fail(p)
      PROVE  TypeOK' /\ ReqInv'
  BY <1>0, <1>11 DEF TransitionRejected, Emit, Fail, Finish, Exists, TypeOK, ReqInv, WellFormed,
              Request
<1>12. ASSUME Crash PROVE TypeOK' /\ ReqInv'
  BY <1>0, <1>12 DEF Crash, Exists, TypeOK, ReqInv
<1>13. ASSUME NEW d \in Drivers, NEW s \in SelfStatus, SetDriverStatus(d, s)
      PROVE  TypeOK' /\ ReqInv'
  BY <1>13, SelfStatusAssumption DEF SetDriverStatus, Exists, TypeOK, ReqInv, DriverRow
<1>14. CASE UNCHANGED vars
  BY <1>14 DEF vars, Exists, TypeOK, ReqInv
<1>15. ASSUME NEW p \in Procs, TransitionRead(p)
      PROVE  TypeOK' /\ ReqInv'
  BY <1>2, <1>15 DEF TransitionRead, ReqInv, WellFormed
<1>16. ASSUME NEW o \in Orders, AnnouncePaid(o)
       PROVE  TypeOK' /\ ReqInv'
  BY <1>16 DEF AnnouncePaid, Exists, TypeOK, ReqInv, Status
<1> QED
  BY <1>1, <1>2, <1>3, <1>4, <1>5, <1>6, <1>7, <1>8, <1>9, <1>10, <1>11, <1>12, <1>13,
     <1>14, <1>15, <1>16, RequestedAssumption, CardAssumption
  DEF Next, Arrive, Continue, Progress, Transition

(* Every reachable state of the tables and requests is well typed. *)
THEOREM TypeCorrect == Spec => [](TypeOK /\ ReqInv)
  BY TypeInit, TypeStep, PTL DEF Spec

(***************************************************************************)
(* Case analysis used by every proof below: a step that changes the order  *)
(* table is a creation or one of the three transactions.                   *)
(***************************************************************************)
Writes(p) ==
  \/ \E o \in Orders, s \in InitialStatus : Create(p, o, s)
  \/ TransitionCommit(p) \/ AssignCommit(p) \/ UnassignCommit(p)

LEMMA OnlyWritersWrite ==
  ASSUME [Next]_vars, ~ \E p \in Procs : Writes(p)
  PROVE  orders' = orders /\ audit' = audit
  BY DEF Next, vars, Arrive, Continue, Progress, Writes, Transition, TransitionRead, ReadForTransition,
         Place, Call, Assign, Unassign, TransitionRejected, PickNearest, CheckDriver, Emit,
         Fail, Crash, AnnouncePaid, SetDriverStatus

(* What a writing step leaves in the row and in the log, on one order.     *)
LEMMA WriteEffect ==
  ASSUME TypeOK, ReqInv, NEW p \in Procs, Writes(p)
  PROVE  \E o \in Orders, from \in Status \cup {NoStatus}, to \in Status,
            d \in Drivers \cup {NoDriver} :
           /\ WriteOrder(o, from, to, d)
           /\ from # NoStatus => CanTransition(from, to) \/ to = "ACCEPTED"
           /\ d # orders[o].driverId =>
                to = IF d = NoDriver THEN "ACCEPTED" ELSE "ASSIGNED"
<1>1. ASSUME NEW o \in Orders, NEW s \in InitialStatus, Create(p, o, s)
      PROVE  /\ o \in Orders /\ NoStatus \in Status \cup {NoStatus} /\ s \in Status
             /\ NoDriver \in Drivers \cup {NoDriver} /\ WriteOrder(o, NoStatus, s, NoDriver)
             /\ orders[o].driverId = NoDriver
  BY <1>1, StatusFacts DEF Create, Exists, ReqInv
<1>2. CASE TransitionCommit(p)
  <2>1. /\ req[p] \in Request /\ WellFormed(req[p]) /\ req[p].pc = "commitTransition"
        /\ WriteOrder(req[p].order, req[p].from, req[p].to, orders[req[p].order].driverId)
    BY <1>2 DEF TransitionCommit, TypeOK, ReqInv
  <2>2. /\ req[p].order \in Orders /\ req[p].to \in Status
        /\ req[p].from \in Status \cup {NoStatus} /\ CanTransition(req[p].from, req[p].to)
    BY <2>1 DEF WellFormed, Request
  <2>3. orders[req[p].order].driverId \in Drivers \cup {NoDriver}
    BY <2>2 DEF TypeOK, OrderRow
  <2> QED
    BY <2>1, <2>2, <2>3
<1>3. CASE AssignCommit(p)
  <2>1. /\ req[p] \in Request /\ WellFormed(req[p]) /\ req[p].pc = "commitAssign"
        /\ WriteOrder(req[p].order, NoStatus, "ASSIGNED", req[p].driver)
    BY <1>3 DEF AssignCommit, TypeOK, ReqInv
  <2>2. req[p].order \in Orders /\ req[p].driver \in Drivers
    BY <2>1 DEF WellFormed
  <2> QED
    BY <2>1, <2>2, StatusFacts, NullAssumption
<1>4. CASE UnassignCommit(p)
  <2>1. /\ req[p] \in Request /\ WellFormed(req[p]) /\ req[p].pc = "commitUnassign"
        /\ WriteOrder(req[p].order, req[p].from, "ACCEPTED", NoDriver)
    BY <1>4 DEF UnassignCommit, TypeOK, ReqInv
  <2>2. req[p].order \in Orders /\ req[p].from \in Status \cup {NoStatus}
    BY <2>1 DEF WellFormed, Request
  <2> QED
    BY <2>1, <2>2, StatusFacts
<1> QED
  BY <1>1, <1>2, <1>3, <1>4 DEF Writes

--------------------------------------------------------------------------------
LEMMA AuditStep ==
  ASSUME TypeOK, ReqInv, [Next]_vars, AuditExplainsStatus, AuditIsPlausible
  PROVE  AuditExplainsStatus' /\ AuditIsPlausible'
<1>1. CASE \E p \in Procs : Writes(p)
  <2>1. PICK o \in Orders, from \in Status \cup {NoStatus}, to \in Status,
             d \in Drivers \cup {NoDriver} :
               /\ WriteOrder(o, from, to, d)
               /\ from # NoStatus => CanTransition(from, to) \/ to = "ACCEPTED"
    BY <1>1, WriteEffect
  <2> QED
    BY <2>1 DEF WriteOrder, TypeOK, AuditExplainsStatus, AuditIsPlausible
<1>2. CASE ~ \E p \in Procs : Writes(p)
  BY <1>2, OnlyWritersWrite DEF AuditExplainsStatus, AuditIsPlausible
<1> QED
  BY <1>1, <1>2

LEMMA AuditInv == Spec => []AuditExplainsStatus /\ []AuditIsPlausible
<1>1. Init => AuditExplainsStatus /\ AuditIsPlausible
  BY DEF Init, AuditExplainsStatus, AuditIsPlausible
<1> QED
  BY <1>1, TypeCorrect, AuditStep, PTL DEF Spec

(* Under any interleaving of requests, failures and crashes, the last      *)
(* audit event explains the status the order has.                          *)
THEOREM AuditCorrect == Spec => []AuditExplainsStatus
  BY AuditInv, PTL

(* The log only ever names steps of the table or the return of an order to *)
(* the pool, also where overlapping requests make the row jump.            *)
THEOREM AuditPlausibleCorrect == Spec => []AuditIsPlausible
  BY AuditInv, PTL

LEMMA DriverChangesStep ==
  ASSUME TypeOK, ReqInv, [Next]_vars, NEW x \in Orders, orders'[x].driverId # orders[x].driverId
  PROVE  orders'[x].status = (IF orders'[x].driverId = NoDriver THEN "ACCEPTED" ELSE "ASSIGNED")
<1>1. CASE \E p \in Procs : Writes(p)
  <2>1. PICK o \in Orders, from \in Status \cup {NoStatus}, to \in Status,
             d \in Drivers \cup {NoDriver} :
               /\ WriteOrder(o, from, to, d)
               /\ d # orders[o].driverId =>
                    to = IF d = NoDriver THEN "ACCEPTED" ELSE "ASSIGNED"
    BY <1>1, WriteEffect
  <2> QED
    BY <2>1 DEF WriteOrder, TypeOK
<1>2. CASE ~ \E p \in Procs : Writes(p)
  BY <1>2, OnlyWritersWrite
<1> QED
  BY <1>1, <1>2

(* Under any interleaving, only assignment and unassignment move an order  *)
(* between drivers.                                                        *)
THEOREM DriverChangesCorrect == Spec => DriverChangesAreAssignments
<1> DEFINE A == \A o \in Orders :
                  orders'[o].driverId # orders[o].driverId =>
                    orders'[o].status = (IF orders'[o].driverId = NoDriver
                                         THEN "ACCEPTED" ELSE "ASSIGNED")
<1>1. TypeOK /\ ReqInv /\ [Next]_vars => [A]_vars
  BY DriverChangesStep
<1> QED
  BY <1>1, TypeCorrect, PTL DEF Spec, DriverChangesAreAssignments
================================================================================
