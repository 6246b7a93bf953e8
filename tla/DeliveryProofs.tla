----------------------------- MODULE DeliveryProofs -----------------------------
(***************************************************************************)
(* Proofs about Delivery.  To the order tables a delivery handler is one   *)
(* more caller of transition, so every step of it is a step of             *)
(* OrderLifecycle, a call it makes, or a restart, and what is proved of    *)
(* the order tables carries over; the flows need an invariant of their own.*)
(***************************************************************************)
EXTENDS DeliveryRequirements, OrderCalmProofs

(* A delivery handler asks OrdersService.transition for a status. *)
Asks(p, o, to) ==
  /\ req[p] = Idle
  /\ Exists(o)
  /\ Call(p, o, to)
  /\ UNCHANGED <<orders, drivers, audit, view>>

Restart ==
  /\ req' = [p \in Procs |-> Idle]
  /\ view' = [o \in Orders |-> NoStatus]
  /\ UNCHANGED <<orders, drivers, audit>>

OrderStep ==
  \/ [Next]_vars
  \/ \E p \in Procs, o \in Orders, to \in Status : Asks(p, o, to)
  \/ Restart

LEMMA OrderTypeStep ==
  ASSUME TypeOK, ReqInv, OrderStep
  PROVE  TypeOK' /\ ReqInv'
<1>1. ASSUME NEW p \in Procs, NEW o \in Orders, NEW to \in Status, Asks(p, o, to)
      PROVE  TypeOK' /\ ReqInv'
  BY <1>1, StatusFacts
  DEF Asks, Call, Exists, TypeOK, ReqInv, WellFormed, Request, Idle, Pc
<1>2. CASE Restart
  BY <1>2, StatusFacts
  DEF Restart, Exists, TypeOK, ReqInv, WellFormed, Request, Idle, Pc
<1> QED
  BY <1>1, <1>2, TypeStep DEF OrderStep

(* An order once created is never deleted. *)
LEMMA ExistsStays ==
  ASSUME TypeOK, ReqInv, OrderStep, NEW o \in Orders, Exists(o)
  PROVE  Exists(o)'
<1>1. ASSUME NEW p \in Procs, Writes(p)
      PROVE  Exists(o)'
  <2>1. PICK x \in Orders, from \in Status \cup {NoStatus}, to \in Status,
             d \in Drivers \cup {NoDriver} : WriteOrder(x, from, to, d)
    BY <1>1, WriteEffect
  <2> QED
    BY <2>1, StatusFacts DEF WriteOrder, Exists, TypeOK
<1> QED
  BY <1>1, OnlyWritersWrite DEF OrderStep, Asks, Restart, Exists

(***************************************************************************)
(* The flow of a request and the call it has made.                         *)
(***************************************************************************)
Calling(p) == req[p].pc \in {"transition", "commitTransition"}

(* A handler runs its own code with no call open, but for the three steps  *)
(* that await one; a worker runs jobs only, and only workers run jobs.     *)
FlowFits(p) ==
  /\ flow[p].step = "none" => flow[p] = NoFlow
  /\ flow[p].step # "none" =>
       /\ flow[p].order \in Orders /\ Exists(flow[p].order)
       /\ req[p].order \in {NoOrder, flow[p].order}
  /\ flow[p].step \in {"failing", "rescheduling", "retrying"} =>
       req[p].pc \in {"idle", "transition", "commitTransition", "emit"}
  /\ flow[p].step \notin {"none", "failing", "rescheduling", "retrying"} => req[p] = Idle
  /\ p \in Workers =>
       /\ flow[p].step \in {"none", "process", "retrying"}
       /\ flow[p].step = "none" => req[p] = Idle
  /\ p \notin Workers => flow[p].step \notin {"process", "retrying"} /\ ~flow[p].lock
  /\ flow[p].step \in {"process", "retrying", "rescheduling"} => flow[p].window \in Windows
  /\ flow[p].step = "failing" /\ Calling(p) => req[p].to = "FAILED"
  /\ flow[p].step = "retrying" /\ Calling(p) => req[p].to \in {"OUT_FOR_DELIVERY", "ASSIGNED"}

JobsHaveOrders ==
  \A o \in Orders, w \in Windows : jobs[o][w] # "absent" => Exists(o)

(* A lock is held on an active job, by one worker.                         *)
SameJob(p, q) == flow[p].order = flow[q].order /\ flow[p].window = flow[q].window

LocksHold ==
  \A p \in Procs : flow[p].lock =>
    /\ jobs[flow[p].order][flow[p].window] = "active"
    /\ \A q \in Procs : flow[q].lock /\ SameJob(p, q) => q = p

FlowInv ==
  /\ DeliveryTypeOK /\ ReqInv
  /\ \A p \in Procs : FlowFits(p)
  /\ JobsHaveOrders
  /\ LocksHold

(* What the delivery handlers do to the order tables. *)
LEMMA DeliveryIsOrderStep ==
  ASSUME FlowInv, [DeliveryNext]_allVars
  PROVE  OrderStep
<1> USE DEF FlowInv
<1>1. ASSUME NEW p \in Http, HttpArrive(p) PROVE OrderStep
  BY <1>1 DEF HttpArrive, RecordFailure, SubmitProof, OrderStep, Next, Http
<1>2. ASSUME NEW p \in Procs, flow[p].step # "none", NEW to \in Status, req[p] = Idle,
             Call(p, flow[p].order, to), UNCHANGED <<orders, drivers, audit, view>>
      PROVE  OrderStep
  BY <1>2 DEF FlowFits, Asks, OrderStep
<1>3. ASSUME NEW p \in Procs, HttpProgress(p) PROVE OrderStep
  <2>1. CASE CountAttempts(p) \/ InsertAttempt(p) \/ ScheduleRetry(p) \/ CheckOtp(p) \/ BurnOtp(p)
    BY <2>1 DEF CountAttempts, InsertAttempt, ScheduleRetry, CheckOtp, BurnOtp, OrderStep
  <2>2. CASE LogFailure(p) \/ Resolve(p) \/ SaveProof(p)
    BY <1>2, <2>2 DEF LogFailure, Resolve, SaveProof, At, Status
  <2> QED
    BY <1>3, <2>1, <2>2 DEF HttpProgress
<1>4. ASSUME NEW p \in Procs, ProcessRetry(p) \/ CompleteJob(p) PROVE OrderStep
  BY <1>2, <1>4 DEF ProcessRetry, CompleteJob, At, Status, OrderStep, vars
<1>5. ASSUME NEW p \in Procs, Run(p) PROVE OrderStep
  BY <1>3, <1>4, <1>5 DEF Run, Rejected, OrderStep, Next, Continue
<1>6. ASSUME NEW p \in Procs, DeliveryFail(p) PROVE OrderStep
  BY <1>6 DEF DeliveryFail, OrderStep, Next
<1>7. CASE DeliveryCrash
  BY <1>7 DEF DeliveryCrash, OrderStep, Restart
<1>8. ASSUME NEW p \in Procs, NEW o \in Orders, NEW w \in Windows, StartJob(p, o, w)
      PROVE  OrderStep
  BY <1>8 DEF StartJob, OrderStep
<1>9. ASSUME NEW o \in Orders, NEW c, IssueOtp(o, c) PROVE OrderStep
  BY <1>9 DEF IssueOtp, OrderStep
<1>10. ASSUME NEW d \in Drivers, NEW s \in SelfStatus, SetDriverStatus(d, s) PROVE OrderStep
  BY <1>10 DEF OrderStep, Next
<1>11. ASSUME NEW o \in CardOrders, AnnouncePaid(o) PROVE OrderStep
  BY <1>11 DEF OrderStep, Next
<1>12. ASSUME NEW p \in Procs, Stall(p) PROVE OrderStep
  BY <1>12 DEF Stall, OrderStep
<1>13. CASE UNCHANGED allVars
  BY <1>13 DEF allVars, OrderStep
<1> QED
  BY <1>1, <1>5, <1>6, <1>7, <1>8, <1>9, <1>10, <1>11, <1>12, <1>13, DeliveryAssumption
  DEF DeliveryNext, Smooth, ExpireOtp

LEMMA FlowInit == DeliveryInit => FlowInv
<1> SUFFICES ASSUME DeliveryInit PROVE FlowInv
  OBVIOUS
<1>1. TypeOK /\ ReqInv
  BY TypeInit DEF DeliveryInit
<1>2. NoFlow \in Flow
  BY DEF NoFlow, Flow, Step
<1>3. DeliveryTypeOK
  BY <1>1, <1>2 DEF DeliveryInit, DeliveryTypeOK, ProofKind, JobState
<1>4. \A p \in Procs : FlowFits(p)
  BY DEF DeliveryInit, Init, FlowFits, NoFlow
<1>5. JobsHaveOrders /\ LocksHold
  BY DEF DeliveryInit, JobsHaveOrders, LocksHold, NoFlow
<1> QED
  BY <1>1, <1>3, <1>4, <1>5 DEF FlowInv

(* A step of one handler leaves the flows and calls of the others alone. *)
LEMMA OwnFlow ==
  ASSUME FlowInv, NEW p \in Procs, NEW q \in Procs, p # q,
         \/ HttpArrive(p) \/ Run(p) \/ DeliveryFail(p) \/ Stall(p)
         \/ \E o \in Orders, w \in Windows : StartJob(p, o, w)
  PROVE  req'[q] = req[q] /\ flow'[q] = flow[q]
<1> USE DEF FlowInv, DeliveryTypeOK
<1>1. TypeOK
  OBVIOUS
<1>2. ASSUME Arrive(p) \/ Progress(p) \/ TransitionRejected(p) \/ Fail(p)
      PROVE  req'[q] = req[q]
  BY <1>1, <1>2, OwnStep DEF Continue
<1>3. ASSUME NEW o, NEW to, Call(p, o, to)
      PROVE  req'[q] = req[q]
  BY <1>3 DEF Call, TypeOK
<1>4. ASSUME NEW o, NEW w, RecordFailure(p, o, w) \/ SubmitProof(p, o, w)
      PROVE  req'[q] = req[q] /\ flow'[q] = flow[q]
  BY <1>4 DEF RecordFailure, SubmitProof, vars
<1>5. CASE HttpArrive(p)
  BY <1>2, <1>4, <1>5 DEF HttpArrive, deliveryVars
<1>6. CASE HttpProgress(p)
  BY <1>3, <1>6
  DEF HttpProgress, CountAttempts, InsertAttempt, LogFailure, Resolve, ScheduleRetry, CheckOtp,
      BurnOtp, SaveProof, Advance, EndFlow, vars
<1>7. CASE ProcessRetry(p) \/ CompleteJob(p)
  BY <1>3, <1>7 DEF ProcessRetry, CompleteJob, EndJob, Advance, EndFlow, vars
<1>8. CASE Rejected(p) \/ DeliveryFail(p)
  BY <1>2, <1>8 DEF Rejected, DeliveryFail, Abandon, EndJob, EndFlow, vars
<1>9. CASE Progress(p) /\ UNCHANGED deliveryVars
  BY <1>2, <1>9 DEF deliveryVars
<1>10. CASE Stall(p) \/ \E o \in Orders, w \in Windows : StartJob(p, o, w)
  BY <1>10 DEF Stall, StartJob, vars
<1> QED
  BY <1>5, <1>6, <1>7, <1>8, <1>9, <1>10 DEF Run

(* A handler whose flow and call do not move still fits. *)
LEMMA FitsStays ==
  ASSUME FlowInv, OrderStep, NEW q \in Procs, req'[q] = req[q], flow'[q] = flow[q]
  PROVE  FlowFits(q)'
<1>1. FlowFits(q) /\ (flow[q].step # "none" => Exists(flow[q].order)')
  BY ExistsStays DEF FlowInv, FlowFits, DeliveryTypeOK
<1> QED
  BY <1>1 DEF FlowFits, Exists, Calling

(* A call made by a handler only goes the way of transition. *)
LEMMA CallGoes ==
  ASSUME FlowInv, NEW p \in Procs, Progress(p)
  PROVE  /\ req[p] # Idle
         /\ req[p].pc \in {"transition", "commitTransition", "emit"} =>
              /\ req'[p].pc \in {"commitTransition", "emit", "idle"}
              /\ req'[p].order \in {NoOrder, req[p].order}
              /\ Calling(p)' => Calling(p) /\ req'[p].to = req[p].to
<1> USE DEF FlowInv, DeliveryTypeOK
<1>1. req[p] # Idle
  BY DEF Progress, TransitionRead, TransitionCommit, PickNearest, CheckDriver, AssignCommit,
         UnassignCommit, Emit, Idle
<1>2. CASE TransitionRead(p)
  BY <1>1, <1>2 DEF TransitionRead, ReadForTransition, Idle, TypeOK, Calling
<1>3. CASE TransitionCommit(p)
  BY <1>1, <1>3 DEF TransitionCommit, Goto, TypeOK, Request, Calling
<1>4. CASE Emit(p)
  BY <1>1, <1>4 DEF Emit, Finish, Idle, TypeOK, Calling
<1> QED
  BY <1>1, <1>2, <1>3, <1>4
  DEF Progress, PickNearest, CheckDriver, AssignCommit, UnassignCommit

(* Every step of a handler leaves its own flow fitting its call. *)
LEMMA FitsStep ==
  ASSUME FlowInv, OrderStep, NEW p \in Procs,
         (p \in Http /\ HttpArrive(p)) \/ Run(p) \/ DeliveryFail(p)
  PROVE  FlowFits(p)'
<1> USE DEF FlowInv, DeliveryTypeOK
<1>1. FlowFits(p) /\ flow[p] \in Flow /\ req[p] \in Request
  BY DEF TypeOK
<1>2. \A o \in Orders : Exists(o) => Exists(o)'
  BY ExistsStays
<1>3. ASSUME flow'[p] = NoFlow, req'[p] = req[p] \/ req'[p] = Idle,
             p \notin Workers \/ req'[p] = Idle
      PROVE  FlowFits(p)'
  BY <1>3 DEF FlowFits, NoFlow
<1>4. ASSUME NEW o \in Orders, NEW to, Call(p, o, to), p \notin Workers, flow'[p] = NoFlow
      PROVE  FlowFits(p)'
  BY <1>4 DEF FlowFits, NoFlow
<1>5. ASSUME NEW to, Call(p, flow[p].order, to), flow[p].step # "none",
             NEW s \in {"failing", "rescheduling", "retrying"}, flow' = [flow EXCEPT ![p].step = s],
             (s = "retrying") <=> (p \in Workers),
             s # "failing" => flow[p].window \in Windows,
             s = "failing" => to = "FAILED",
             s = "retrying" => to \in {"OUT_FOR_DELIVERY", "ASSIGNED"}
      PROVE  FlowFits(p)'
  <2>1. /\ flow'[p] = [flow[p] EXCEPT !.step = s]
        /\ req'[p].order = flow[p].order /\ req'[p].pc = "transition" /\ req'[p].to = to
    BY <1>5 DEF Call, Idle, TypeOK
  <2>2. /\ flow'[p].step = s /\ flow'[p].order = flow[p].order
        /\ flow'[p].window = flow[p].window /\ flow'[p].lock = flow[p].lock
    BY <1>1, <2>1 DEF Flow
  <2> QED
    BY <1>1, <1>2, <1>5, <2>1, <2>2 DEF FlowFits, Exists
<1>6. CASE Progress(p) /\ UNCHANGED deliveryVars
  <2>1. flow'[p] = flow[p]
    BY <1>6 DEF deliveryVars
  <2>2. CASE flow[p].step = "none"
    BY <1>1, <1>6, <2>1, <2>2, CallGoes DEF FlowFits
  <2>3. CASE flow[p].step # "none"
    <3>1. /\ req'[p].order \in {NoOrder, flow[p].order}
          /\ req'[p].pc \in {"idle", "transition", "commitTransition", "emit"}
          /\ flow[p].step \in {"failing", "rescheduling", "retrying"}
          /\ Calling(p)' => Calling(p) /\ req'[p].to = req[p].to
      BY <1>1, <1>6, <2>3, CallGoes DEF FlowFits, ReqInv, WellFormed
    <3> QED
      BY <1>1, <1>2, <2>1, <2>3, <3>1 DEF FlowFits, Exists
  <2> QED
    BY <2>2, <2>3
<1>7. CASE Rejected(p) \/ DeliveryFail(p)
  BY <1>1, <1>3, <1>7
  DEF Rejected, TransitionRejected, DeliveryFail, Fail, Abandon, EndJob, EndFlow, Finish, vars,
      TypeOK
<1>8. CASE p \in Http /\ HttpArrive(p)
  <2>1. CASE AtRest(p) /\ Arrive(p) /\ UNCHANGED deliveryVars
    BY <1>1, <1>8, <2>1 DEF AtRest, At, deliveryVars, FlowFits, Http
  <2>2. ASSUME NEW o \in Orders, Exists(o), NEW f \in Flow, f.order = o, ~f.lock,
               f.step \in {"count", "saveProof", "checkOtp"}, flow'[p] = f, req' = req, AtRest(p)
        PROVE  FlowFits(p)'
    BY <1>2, <1>8, <2>2 DEF FlowFits, Exists, AtRest, At, Http, Idle
  <2>3. ASSUME NEW o \in Orders, NEW w \in Windows \cup {NoWindow}, RecordFailure(p, o, w)
        PROVE  FlowFits(p)'
    <3> DEFINE f == [Begin(o, "count") EXCEPT !.window = w]
    <3>1. f \in Flow /\ f.order = o /\ ~f.lock /\ f.step = "count" /\ Exists(o)
      BY <2>3 DEF RecordFailure, Begin, NoFlow, Flow, Step, Exists, NoStatus
    <3>2. flow'[p] = f /\ req' = req /\ AtRest(p)
      BY <2>3 DEF RecordFailure, vars
    <3> QED
      BY <2>2, <3>1, <3>2
  <2>4. ASSUME NEW o \in Orders, NEW c \in Codes \cup {NoCode}, SubmitProof(p, o, c)
        PROVE  FlowFits(p)'
    <3> DEFINE f == [Begin(o, IF c = NoCode THEN "saveProof" ELSE "checkOtp") EXCEPT !.code = c]
    <3>1. /\ f \in Flow /\ f.order = o /\ ~f.lock /\ Exists(o)
          /\ f.step \in {"saveProof", "checkOtp"}
      BY <2>4 DEF SubmitProof, Begin, NoFlow, Flow, Step, Exists, NoStatus
    <3>2. flow'[p] = f /\ req' = req /\ AtRest(p)
      BY <2>4 DEF SubmitProof, vars
    <3> QED
      BY <2>2, <3>1, <3>2
  <2> QED
    BY <1>8, <2>1, <2>3, <2>4 DEF HttpArrive
<1>9. CASE p \in Http /\ HttpProgress(p)
  <2>1. CASE LogFailure(p)
    BY <1>5, <1>9, <2>1 DEF LogFailure, At, Advance, Http
  <2>2. CASE Resolve(p)
    <3>1. flow[p].step = "failing" /\ flow[p].order \in Orders
      BY <1>1, <2>2 DEF Resolve, At, FlowFits
    <3>2. CASE flow[p].window = NoWindow
      BY <1>4, <1>9, <2>2, <3>1, <3>2 DEF Resolve, EndFlow, Http
    <3>3. CASE flow[p].window # NoWindow
      <4>1. flow[p].window \in Windows
        BY <1>1, <3>3 DEF Flow
      <4> QED
        BY <1>5, <1>9, <2>2, <3>1, <3>3, <4>1 DEF Resolve, Advance, Http
    <3> QED
      BY <3>2, <3>3
  <2>3. CASE SaveProof(p)
    <3>1. flow[p].order \in Orders
      BY <1>1, <2>3 DEF SaveProof, At, FlowFits
    <3> QED
      BY <1>4, <1>9, <2>3, <3>1 DEF SaveProof, EndFlow, Http
  <2>4. CASE ScheduleRetry(p)
    BY <1>3, <1>9, <2>4 DEF ScheduleRetry, EndFlow, vars, Http
  <2>5. ASSUME NEW s \in {"insert", "logFailure", "burnOtp", "saveProof"}, req' = req, req[p] = Idle,
               flow'[p].step = s, flow'[p].order = flow[p].order, flow'[p].lock = flow[p].lock,
               flow[p].step # "none"
        PROVE  FlowFits(p)'
    BY <1>1, <1>2, <1>9, <2>5 DEF FlowFits, Exists, Http, Idle
  <2>6. CASE CountAttempts(p)
    BY <1>1, <2>5, <2>6 DEF CountAttempts, At, vars, Flow
  <2>7. CASE InsertAttempt(p)
    BY <1>1, <2>5, <2>7 DEF InsertAttempt, At, Advance, vars, Flow
  <2>8. CASE CheckOtp(p)
    <3>1. CASE otp[flow[p].order] = flow[p].code
      BY <1>1, <2>5, <2>8, <3>1 DEF CheckOtp, At, Advance, vars, Flow
    <3>2. CASE otp[flow[p].order] # flow[p].code
      BY <1>3, <1>9, <2>8, <3>2 DEF CheckOtp, EndFlow, vars, Http
    <3> QED
      BY <3>1, <3>2
  <2>9. CASE BurnOtp(p)
    BY <1>1, <2>5, <2>9 DEF BurnOtp, At, Advance, vars, Flow
  <2> QED
    BY <1>9, <2>1, <2>2, <2>3, <2>4, <2>6, <2>7, <2>8, <2>9 DEF HttpProgress
<1>10. CASE p \in Workers /\ ProcessRetry(p)
  <2>1. /\ flow[p].step = "process" /\ req[p] = Idle /\ flow[p].order \in Orders
        /\ flow[p].window \in Windows
    BY <1>1, <1>10 DEF ProcessRetry, At, FlowFits
  <2>2. CASE orders[flow[p].order].status = "RETRY_SCHEDULED"
    BY <1>5, <1>10, <2>1, <2>2 DEF ProcessRetry, Advance
  <2>3. CASE orders[flow[p].order].status # "RETRY_SCHEDULED"
    BY <1>3, <1>10, <2>1, <2>3 DEF ProcessRetry, EndJob, EndFlow
  <2> QED
    BY <2>2, <2>3
<1>11. CASE p \in Workers /\ CompleteJob(p)
  BY <1>3, <1>11 DEF CompleteJob, EndJob, At, EndFlow, vars
<1> QED
  BY <1>6, <1>7, <1>8, <1>9, <1>10, <1>11 DEF Run

LEMMA FitsAll ==
  ASSUME FlowInv, [DeliveryNext]_allVars
  PROVE  \A q \in Procs : FlowFits(q)'
<1> SUFFICES ASSUME NEW q \in Procs PROVE FlowFits(q)'
  OBVIOUS
<1>1. OrderStep
  BY DeliveryIsOrderStep
<1>2. ASSUME NEW p \in Procs, (p \in Http /\ HttpArrive(p)) \/ Run(p) \/ DeliveryFail(p)
      PROVE  FlowFits(q)'
  BY <1>1, <1>2, FitsStep, FitsStays, OwnFlow
<1>3. CASE DeliveryCrash
  BY <1>3 DEF DeliveryCrash, FlowFits, NoFlow, Calling, Idle
<1>4. ASSUME NEW p \in Workers, NEW o \in Orders, NEW w \in Windows, StartJob(p, o, w)
      PROVE  FlowFits(q)'
  <2>0. p \in Procs
    BY DeliveryAssumption
  <2>1. CASE q # p
    BY <1>1, <1>4, <2>0, <2>1, FitsStays, OwnFlow
  <2>2. CASE q = p
    <3>1. /\ flow'[q].step = "process" /\ flow'[q].order = o /\ flow'[q].window = w
          /\ req'[q] = Idle
      BY <1>4, <2>2 DEF StartJob, AtRest, At, vars, Begin, NoFlow, FlowInv, DeliveryTypeOK
    <3>2. Exists(o)'
      BY <1>1, <1>4, ExistsStays DEF StartJob, FlowInv, JobsHaveOrders, DeliveryTypeOK
    <3> QED
      BY <2>2, <3>1, <3>2 DEF FlowFits, Exists, Idle
  <2> QED
    BY <2>1, <2>2
<1>5. ASSUME NEW o \in Orders, NEW c, IssueOtp(o, c)
      PROVE  FlowFits(q)'
  BY <1>1, <1>5, FitsStays DEF IssueOtp, vars
<1>6. ASSUME NEW d \in Drivers, NEW s \in SelfStatus,
             SetDriverStatus(d, s), UNCHANGED deliveryVars
      PROVE  FlowFits(q)'
  BY <1>1, <1>6, FitsStays DEF SetDriverStatus, deliveryVars
<1>7. ASSUME NEW o \in CardOrders, AnnouncePaid(o), UNCHANGED deliveryVars
      PROVE  FlowFits(q)'
  BY <1>1, <1>7, FitsStays DEF AnnouncePaid, deliveryVars
<1>8. ASSUME NEW p \in Workers, Stall(p)
      PROVE  FlowFits(q)'
  <2>0. p \in Procs
    BY DeliveryAssumption
  <2>1. CASE q # p
    BY <1>1, <1>8, <2>0, <2>1, FitsStays, OwnFlow
  <2>2. CASE q = p
    <3>1. /\ flow'[q] = [flow[q] EXCEPT !.lock = FALSE] /\ flow[q] \in Flow /\ req' = req
          /\ flow[q].step # "none" /\ FlowFits(q)
      BY <1>8, <2>2 DEF Stall, vars, FlowInv, FlowFits, NoFlow, DeliveryTypeOK
    <3>2. /\ flow'[q].step = flow[q].step /\ flow'[q].order = flow[q].order
          /\ flow'[q].window = flow[q].window /\ ~flow'[q].lock
      BY <3>1 DEF Flow
    <3>3. Exists(flow[q].order)'
      BY <1>1, <3>1, ExistsStays DEF FlowFits, FlowInv, DeliveryTypeOK
    <3> QED
      BY <3>1, <3>2, <3>3 DEF FlowFits, Exists, Calling
  <2> QED
    BY <2>1, <2>2
<1>9. CASE UNCHANGED allVars
  BY <1>1, <1>9, FitsStays DEF allVars, vars, deliveryVars
<1> QED
  BY <1>2, <1>3, <1>4, <1>5, <1>6, <1>7, <1>8, <1>9 DEF DeliveryNext, Smooth, ExpireOtp, Http

(***************************************************************************)
(* The jobs table.                                                         *)
(***************************************************************************)
JobsOK ==
  /\ jobs \in [Orders -> [Windows -> JobState]]
  /\ JobsHaveOrders
  /\ LocksHold

LEMMA SetJobEffect ==
  ASSUME NEW o \in Orders, NEW w \in Windows, NEW s, SetJob(o, w, s),
         jobs \in [Orders -> [Windows -> JobState]]
  PROVE  \A x \in Orders, v \in Windows :
           jobs'[x][v] = IF x = o /\ v = w THEN s ELSE jobs[x][v]
<1>1. \A x \in Orders : jobs'[x] = IF x = o THEN [jobs[o] EXCEPT ![w] = s] ELSE jobs[x]
  BY DEF SetJob
<1>2. \A v \in Windows : [jobs[o] EXCEPT ![w] = s][v] = IF v = w THEN s ELSE jobs[o][v]
  OBVIOUS
<1> QED
  BY <1>1, <1>2

(* One job of an existing order is put into state s, and no other worker   *)
(* holds it afterwards.                                                    *)
LEMMA OneJobStep ==
  ASSUME FlowInv, OrderStep, NEW o \in Orders, NEW w \in Windows, Exists(o),
         NEW s \in JobState, SetJob(o, w, s),
         NEW p \in Procs, \A q \in Procs : q # p => flow'[q] = flow[q],
         flow'[p].lock => s = "active" /\ flow'[p].order = o /\ flow'[p].window = w,
         \A q \in Procs : q # p /\ flow[q].lock => ~(flow[q].order = o /\ flow[q].window = w)
  PROVE  JobsOK'
<1>1. /\ jobs' \in [Orders -> [Windows -> JobState]]
      /\ \A x \in Orders, v \in Windows :
           jobs'[x][v] = IF x = o /\ v = w THEN s ELSE jobs[x][v]
  BY DEF SetJob, FlowInv, DeliveryTypeOK
<1>2. \A x \in Orders : Exists(x) => Exists(x)'
  BY ExistsStays DEF FlowInv, DeliveryTypeOK
<1>3. JobsHaveOrders'
  BY <1>1, <1>2 DEF FlowInv, JobsHaveOrders
<1>4. \A q \in Procs : flow[q].lock => flow[q].order \in Orders /\ flow[q].window \in Windows
  BY DEF FlowInv, FlowFits, NoFlow
<1>5. ASSUME NEW x \in Procs, flow'[x].lock
      PROVE  /\ jobs'[flow'[x].order][flow'[x].window] = "active"
             /\ \A q \in Procs : flow'[q].lock /\ SameJob(x, q)' => q = x
  <2>1. CASE x = p
    BY <1>1, <1>5, <2>1 DEF SameJob
  <2>2. CASE x # p
    BY <1>1, <1>4, <1>5, <2>2 DEF FlowInv, LocksHold, SameJob
  <2> QED
    BY <2>1, <2>2
<1>6. LocksHold'
  BY <1>5 DEF LocksHold
<1> QED
  BY <1>1, <1>3, <1>6 DEF JobsOK

(* The table stands, and no lock is gained. *)
LEMMA SameJobsStep ==
  ASSUME FlowInv, OrderStep, jobs' = jobs,
         \A q \in Procs : flow'[q].lock => flow[q].lock /\ flow'[q].order = flow[q].order
                                           /\ flow'[q].window = flow[q].window
  PROVE  JobsOK'
<1>1. \A x \in Orders : Exists(x) => Exists(x)'
  BY ExistsStays DEF FlowInv, DeliveryTypeOK
<1>2. JobsHaveOrders'
  BY <1>1 DEF FlowInv, JobsHaveOrders
<1>3. LocksHold'
  BY DEF FlowInv, LocksHold, SameJob
<1> QED
  BY <1>2, <1>3 DEF JobsOK, FlowInv, DeliveryTypeOK

(* The end of a handler leaves its job, if it holds one, in state s. *)
LEMMA EndJobStep ==
  ASSUME FlowInv, OrderStep, NEW p \in Procs, NEW s \in {"absent", "failed"}, EndJob(p, s)
  PROVE  JobsOK'
<1>1. /\ flow'[p] = NoFlow /\ ~flow'[p].lock
      /\ \A q \in Procs : q # p => flow'[q] = flow[q]
  BY DEF EndJob, EndFlow, FlowInv, DeliveryTypeOK, NoFlow
<1>2. CASE flow[p].lock
  <2>1. /\ flow[p].order \in Orders /\ flow[p].window \in Windows /\ Exists(flow[p].order)
    BY <1>2 DEF FlowInv, FlowFits, NoFlow
  <2>2. \A q \in Procs : q # p /\ flow[q].lock =>
          ~(flow[q].order = flow[p].order /\ flow[q].window = flow[p].window)
    BY <1>2 DEF FlowInv, LocksHold, SameJob
  <2>3. SetJob(flow[p].order, flow[p].window, s) /\ s \in JobState
    BY <1>2 DEF EndJob, JobState
  <2> QED
    BY <1>1, <2>1, <2>2, <2>3, OneJobStep
<1>3. CASE ~flow[p].lock
  BY <1>1, <1>3, SameJobsStep DEF EndJob
<1> QED
  BY <1>2, <1>3

LEMMA JobsStep ==
  ASSUME FlowInv, [DeliveryNext]_allVars
  PROVE  JobsOK'
<1> USE DEF FlowInv
<1>0. OrderStep /\ flow \in [Procs -> Flow] /\ Workers \subseteq Procs
  BY DeliveryIsOrderStep, DeliveryAssumption DEF DeliveryTypeOK
<1>1. ASSUME NEW p \in Procs, Rejected(p) \/ DeliveryFail(p)
      PROVE  JobsOK'
  BY <1>0, <1>1, EndJobStep DEF Rejected, DeliveryFail, Abandon
<1>2. ASSUME NEW p \in Procs, NEW s \in Step, Advance(p, s), UNCHANGED jobs
      PROVE  JobsOK'
  <2>1. flow'[p].lock = flow[p].lock /\ flow'[p].order = flow[p].order
        /\ flow'[p].window = flow[p].window /\ \A q \in Procs : q # p => flow'[q] = flow[q]
    BY <1>0, <1>2 DEF Advance, Flow
  <2> QED
    BY <1>0, <1>2, <2>1, SameJobsStep
<1>3. ASSUME NEW p \in Procs, NEW f, ~f.lock, flow' = [flow EXCEPT ![p] = f], UNCHANGED jobs
      PROVE  JobsOK'
  <2>1. \A q \in Procs : flow'[q].lock => flow'[q] = flow[q]
    BY <1>0, <1>3
  <2> QED
    BY <1>0, <1>3, <2>1, SameJobsStep
<1>4. ASSUME NEW p \in Http, HttpArrive(p)
      PROVE  JobsOK'
  <2>1. CASE UNCHANGED deliveryVars
    BY <1>0, <2>1, SameJobsStep DEF deliveryVars
  <2>2. ASSUME NEW o, NEW w, RecordFailure(p, o, w)
        PROVE  JobsOK'
    <3> DEFINE f == [Begin(o, "count") EXCEPT !.window = w]
    <3>1. ~f.lock
      BY DEF Begin, NoFlow
    <3>2. flow' = [flow EXCEPT ![p] = f] /\ UNCHANGED jobs /\ p \in Procs
      BY <2>2 DEF RecordFailure, Http
    <3> HIDE DEF f
    <3> QED
      BY <1>3, <3>1, <3>2
  <2>3. ASSUME NEW o, NEW c, SubmitProof(p, o, c)
        PROVE  JobsOK'
    <3> DEFINE f == [Begin(o, IF c = NoCode THEN "saveProof" ELSE "checkOtp") EXCEPT !.code = c]
    <3>1. ~f.lock
      BY DEF Begin, NoFlow
    <3>2. flow' = [flow EXCEPT ![p] = f] /\ UNCHANGED jobs /\ p \in Procs
      BY <2>3 DEF SubmitProof, Http
    <3> HIDE DEF f
    <3> QED
      BY <1>3, <3>1, <3>2
  <2> QED
    BY <1>4, <2>1, <2>2, <2>3 DEF HttpArrive
<1>5. ASSUME NEW p \in Http, HttpProgress(p)
      PROVE  JobsOK'
  <2>1. p \in Procs /\ ~NoFlow.lock /\ ~flow[p].lock /\ FlowFits(p)
    BY DEF Http, FlowFits, NoFlow
  <2>2. CASE CountAttempts(p)
    <3>1. \A q \in Procs : flow'[q].lock = flow[q].lock /\ flow'[q].order = flow[q].order
                           /\ flow'[q].window = flow[q].window
      BY <1>0, <2>2 DEF CountAttempts, Flow
    <3> QED
      BY <1>0, <2>2, <3>1, SameJobsStep DEF CountAttempts
  <2>3. CASE InsertAttempt(p) \/ LogFailure(p) \/ Resolve(p) \/ CheckOtp(p) \/ BurnOtp(p)
             \/ SaveProof(p)
    BY <1>2, <1>3, <2>1, <2>3
    DEF InsertAttempt, LogFailure, Resolve, CheckOtp, BurnOtp, SaveProof, EndFlow, Step
  <2>4. CASE ScheduleRetry(p)
    <3> DEFINE o == flow[p].order
               w == flow[p].window
    <3>1. o \in Orders /\ w \in Windows /\ Exists(o)
      BY <2>1, <2>4 DEF ScheduleRetry, At, FlowFits
    <3>2. CASE jobs[o][w] = "absent"
      <4>1. SetJob(o, w, "delayed") /\ "delayed" \in JobState
        BY <2>4, <3>2 DEF ScheduleRetry, JobState
      <4>2. \A q \in Procs : q # p /\ flow[q].lock => ~(flow[q].order = o /\ flow[q].window = w)
        BY <3>2 DEF LocksHold
      <4>3. ~flow'[p].lock /\ \A q \in Procs : q # p => flow'[q] = flow[q]
        BY <1>0, <2>1, <2>4 DEF ScheduleRetry, EndFlow
      <4> QED
        BY <1>0, <2>1, <3>1, <4>1, <4>2, <4>3, OneJobStep
    <3>3. CASE jobs[o][w] # "absent"
      BY <1>3, <2>1, <2>4, <3>3 DEF ScheduleRetry, EndFlow
    <3> QED
      BY <3>2, <3>3
  <2> QED
    BY <1>5, <2>2, <2>3, <2>4 DEF HttpProgress
<1>6. ASSUME NEW p \in Procs, ProcessRetry(p) \/ CompleteJob(p)
      PROVE  JobsOK'
  <2>1. CASE Advance(p, "retrying") /\ UNCHANGED jobs
    BY <1>2, <2>1 DEF Step
  <2>2. CASE EndJob(p, "absent")
    BY <1>0, <2>2, EndJobStep
  <2> QED
    BY <1>6, <2>1, <2>2 DEF ProcessRetry, CompleteJob
<1>7. ASSUME NEW p \in Procs, NEW o \in Orders, NEW w \in Windows, StartJob(p, o, w)
      PROVE  JobsOK'
  <2>1. /\ flow'[p].order = o /\ flow'[p].window = w
        /\ \A q \in Procs : q # p => flow'[q] = flow[q]
    BY <1>0, <1>7 DEF StartJob, Begin, NoFlow
  <2>2. SetJob(o, w, "active") /\ "active" \in JobState /\ jobs[o][w] = "delayed"
    BY <1>7 DEF StartJob, JobState
  <2>3. \A q \in Procs : q # p /\ flow[q].lock => ~(flow[q].order = o /\ flow[q].window = w)
    BY <2>2 DEF LocksHold
  <2>4. Exists(o)
    BY <2>2 DEF JobsHaveOrders
  <2> QED
    BY <1>0, <2>1, <2>2, <2>3, <2>4, OneJobStep
<1>8. ASSUME NEW p \in Workers, Stall(p)
      PROVE  JobsOK'
  <2>1. /\ ~flow'[p].lock /\ flow[p].lock /\ p \in Procs
        /\ \A q \in Procs : q # p => flow'[q] = flow[q]
    BY <1>0, <1>8 DEF Stall, Flow
  <2>2. /\ flow[p].order \in Orders /\ flow[p].window \in Windows /\ Exists(flow[p].order)
    BY <2>1 DEF FlowFits, NoFlow
  <2>3. PICK s \in {"delayed", "failed"} : SetJob(flow[p].order, flow[p].window, s)
    BY <1>8 DEF Stall
  <2>4. \A q \in Procs : q # p /\ flow[q].lock =>
          ~(flow[q].order = flow[p].order /\ flow[q].window = flow[p].window)
    BY <2>1 DEF LocksHold, SameJob
  <2>5. s \in JobState
    BY DEF JobState
  <2> QED
    BY <1>0, <2>1, <2>2, <2>3, <2>4, <2>5, OneJobStep
<1>9. CASE DeliveryCrash
  <2>1. PICK s \in {"delayed", "failed"} :
          jobs' = [o \in Orders |-> [w \in Windows |->
                     IF jobs[o][w] = "active" THEN s ELSE jobs[o][w]]]
    BY <1>9 DEF DeliveryCrash
  <2>2. jobs' \in [Orders -> [Windows -> JobState]]
    BY <2>1 DEF JobState, DeliveryTypeOK
  <2>3. LocksHold'
    BY <1>9 DEF DeliveryCrash, LocksHold, NoFlow
  <2>4. JobsHaveOrders'
    BY <1>0, <2>1, ExistsStays DEF JobsHaveOrders, DeliveryTypeOK
  <2> QED
    BY <2>2, <2>3, <2>4 DEF JobsOK
<1>10. ASSUME NEW o, NEW c, IssueOtp(o, c)
       PROVE  JobsOK'
  BY <1>0, <1>10, SameJobsStep DEF IssueOtp
<1>11. CASE UNCHANGED deliveryVars
  BY <1>0, <1>11, SameJobsStep DEF deliveryVars
<1> QED
  BY <1>0, <1>1, <1>4, <1>5, <1>6, <1>7, <1>8, <1>9, <1>10, <1>11
  DEF DeliveryNext, Smooth, Run, ExpireOtp, allVars

(* The tables that only the delivery handlers write, and the flows. *)
LEMMA TablesStep ==
  ASSUME FlowInv, [DeliveryNext]_allVars
  PROVE  /\ attempts' \in [Orders -> Seq(Nat \ {0})]
         /\ proof' \in [Orders -> ProofKind]
         /\ otp' \in [Orders -> Codes \cup {NoCode}]
         /\ flow' \in [Procs -> Flow]
<1> USE DEF FlowInv
<1> DEFINE Good == /\ attempts' \in [Orders -> Seq(Nat \ {0})]
                   /\ proof' \in [Orders -> ProofKind]
                   /\ otp' \in [Orders -> Codes \cup {NoCode}]
                   /\ flow' \in [Procs -> Flow]
<1>0. /\ attempts \in [Orders -> Seq(Nat \ {0})] /\ proof \in [Orders -> ProofKind]
      /\ otp \in [Orders -> Codes \cup {NoCode}] /\ flow \in [Procs -> Flow]
      /\ NoFlow \in Flow
  BY DEF DeliveryTypeOK, NoFlow, Flow, Step
<1>1. ASSUME UNCHANGED <<attempts, proof, otp, flow>> PROVE Good
  BY <1>0, <1>1
<1>2. ASSUME NEW p \in Procs, EndFlow(p), UNCHANGED <<attempts, proof, otp>> PROVE Good
  BY <1>0, <1>2 DEF EndFlow
<1>3. ASSUME NEW p \in Procs, NEW s \in Step, Advance(p, s)
      PROVE  flow' \in [Procs -> Flow]
  BY <1>0, <1>3 DEF Advance, Flow
<1>4. ASSUME NEW p \in Procs, NEW s \in Step, Advance(p, s), UNCHANGED <<attempts, proof, otp>>
      PROVE  Good
  BY <1>0, <1>3, <1>4
<1>5. ASSUME NEW p \in Procs, NEW o \in Orders, NEW w \in Windows \cup {NoWindow},
             RecordFailure(p, o, w)
      PROVE  Good
  BY <1>0, <1>5 DEF RecordFailure, Begin, NoFlow, Flow, Step
<1>6. ASSUME NEW p \in Procs, NEW o \in Orders, NEW c \in Codes \cup {NoCode}, SubmitProof(p, o, c)
      PROVE  Good
  BY <1>0, <1>6 DEF SubmitProof, Begin, NoFlow, Flow, Step
<1>7. ASSUME NEW p \in Procs, CountAttempts(p) PROVE Good
  <2>1. flow[p].order \in Orders /\ Len(attempts[flow[p].order]) \in Nat
    BY <1>0, <1>7 DEF CountAttempts, At, FlowFits
  <2> QED
    BY <1>0, <1>7, <2>1 DEF CountAttempts, Flow, Step
<1>8. ASSUME NEW p \in Procs, InsertAttempt(p) PROVE Good
  <2>1. flow[p].order \in Orders /\ flow[p].n + 1 \in Nat \ {0}
    BY <1>0, <1>8 DEF InsertAttempt, At, FlowFits, Flow
  <2>2. Append(attempts[flow[p].order], flow[p].n + 1) \in Seq(Nat \ {0})
    BY <1>0, <2>1
  <2>3. attempts' \in [Orders -> Seq(Nat \ {0})]
    BY <1>0, <1>8, <2>1, <2>2 DEF InsertAttempt
  <2> QED
    BY <1>0, <1>3, <1>8, <2>3 DEF InsertAttempt, Step
<1>9. ASSUME NEW p \in Procs, LogFailure(p) \/ Resolve(p) PROVE Good
  BY <1>2, <1>4, <1>9 DEF LogFailure, Resolve, Step
<1>10. ASSUME NEW p \in Procs, CheckOtp(p) PROVE Good
  BY <1>2, <1>4, <1>10 DEF CheckOtp, Step
<1>11. ASSUME NEW p \in Procs, BurnOtp(p) PROVE Good
  BY <1>0, <1>3, <1>11 DEF BurnOtp, Step
<1>12. ASSUME NEW p \in Procs, SaveProof(p) PROVE Good
  BY <1>0, <1>12 DEF SaveProof, EndFlow, ProofKind
<1>13. ASSUME NEW p \in Procs, ScheduleRetry(p) \/ Rejected(p) \/ DeliveryFail(p) PROVE Good
  BY <1>2, <1>13 DEF ScheduleRetry, Rejected, DeliveryFail, Abandon, EndJob
<1>14. ASSUME NEW p \in Procs, ProcessRetry(p) \/ CompleteJob(p) PROVE Good
  BY <1>2, <1>4, <1>14 DEF ProcessRetry, CompleteJob, EndJob, Step
<1>15. ASSUME NEW p \in Procs, NEW o \in Orders, NEW w \in Windows, StartJob(p, o, w) PROVE Good
  BY <1>0, <1>15 DEF StartJob, Begin, NoFlow, Flow, Step
<1>16. CASE DeliveryCrash
  BY <1>0, <1>16 DEF DeliveryCrash
<1>17. ASSUME NEW o \in Orders, NEW c \in Codes \cup {NoCode}, IssueOtp(o, c) PROVE Good
  BY <1>0, <1>17 DEF IssueOtp
<1>18. ASSUME NEW p \in Procs, Stall(p) PROVE Good
  BY <1>0, <1>18 DEF Stall, Flow
<1>19. CASE UNCHANGED deliveryVars
  BY <1>1, <1>19 DEF deliveryVars
<1> QED
  BY <1>5, <1>6, <1>7, <1>8, <1>9, <1>10, <1>11, <1>12, <1>13, <1>14, <1>15, <1>16, <1>17, <1>18,
     <1>19, DeliveryAssumption
  DEF DeliveryNext, Smooth, HttpArrive, HttpProgress, Run, ExpireOtp, allVars, Http

LEMMA FlowStep == FlowInv /\ [DeliveryNext]_allVars => FlowInv'
<1> SUFFICES ASSUME FlowInv, [DeliveryNext]_allVars PROVE FlowInv'
  OBVIOUS
<1>1. TypeOK' /\ ReqInv'
  BY DeliveryIsOrderStep, OrderTypeStep DEF FlowInv, DeliveryTypeOK
<1>2. DeliveryTypeOK'
  BY <1>1, TablesStep, JobsStep DEF DeliveryTypeOK, JobsOK
<1> QED
  BY <1>1, <1>2, FitsAll, JobsStep DEF FlowInv, JobsOK

LEMMA FlowAlways == DeliverySpec => []FlowInv
  BY FlowInit, FlowStep, PTL DEF DeliverySpec

(* The delivery tables, the jobs and the flows keep their shape, whatever  *)
(* overlaps, fails or dies.                                                *)
THEOREM DeliveryTypeCorrect == DeliverySpec => []DeliveryTypeOK
<1>1. FlowInv => DeliveryTypeOK
  BY DEF FlowInv
<1> QED
  BY <1>1, FlowAlways, PTL

--------------------------------------------------------------------------------
(***************************************************************************)
(* What holds of the order tables still holds with the delivery handlers.  *)
(***************************************************************************)
LEMMA DeliveryAuditInv == DeliverySpec => []AuditExplainsStatus /\ []AuditIsPlausible
<1>1. DeliveryInit => AuditExplainsStatus /\ AuditIsPlausible
  BY DEF DeliveryInit, Init, AuditExplainsStatus, AuditIsPlausible
<1>2. ASSUME FlowInv, AuditExplainsStatus, AuditIsPlausible, [DeliveryNext]_allVars
      PROVE  AuditExplainsStatus' /\ AuditIsPlausible'
  <2>1. OrderStep
    BY <1>2, DeliveryIsOrderStep
  <2>2. CASE [Next]_vars
    BY <1>2, <2>2, AuditStep DEF FlowInv, DeliveryTypeOK
  <2>3. CASE ~[Next]_vars
    BY <1>2, <2>1, <2>3 DEF OrderStep, Asks, Restart, AuditExplainsStatus, AuditIsPlausible
  <2> QED
    BY <2>2, <2>3
<1> QED
  BY <1>1, <1>2, FlowAlways, PTL DEF DeliverySpec

(* With every delivery handler and the retry worker, the last audit event  *)
(* still explains the status the order has.                                *)
THEOREM DeliveryAuditCorrect == DeliverySpec => []AuditExplainsStatus
  BY DeliveryAuditInv, PTL

(* And the log still names only steps of the table or returns to the pool. *)
THEOREM DeliveryPlausibleCorrect == DeliverySpec => []AuditIsPlausible
  BY DeliveryAuditInv, PTL

(* No delivery handler moves an order between drivers. *)
THEOREM DeliveryDriversCorrect == DeliverySpec => DriverChangesAreAssignments
<1> DEFINE A == \A o \in Orders :
                  orders'[o].driverId # orders[o].driverId =>
                    orders'[o].status = (IF orders'[o].driverId = NoDriver
                                         THEN "ACCEPTED" ELSE "ASSIGNED")
<1>1. ASSUME FlowInv, [DeliveryNext]_allVars PROVE [A]_vars
  <2>1. OrderStep
    BY <1>1, DeliveryIsOrderStep
  <2>2. CASE [Next]_vars
    BY <1>1, <2>2, DriverChangesStep DEF FlowInv, DeliveryTypeOK
  <2>3. CASE ~[Next]_vars
    BY <2>1, <2>3 DEF OrderStep, Asks, Restart
  <2> QED
    BY <2>2, <2>3
<1> QED
  BY <1>1, FlowAlways, PTL DEF DeliverySpec, DriverChangesAreAssignments

--------------------------------------------------------------------------------
(***************************************************************************)
(* When no two handlers about one order overlap (CalmDelivery).            *)
(***************************************************************************)
CalmFlowInv == FlowInv /\ CalmInv /\ OneHandlerPerOrder

(* A request is about the order its handler is about. *)
LEMMA OneRequest == FlowInv /\ OneHandlerPerOrder => OnePerOrder
<1> SUFFICES ASSUME FlowInv, OneHandlerPerOrder, NEW p \in Procs, NEW q \in Procs,
                    p # q, req[p].order = req[q].order, req[p].order # NoOrder
             PROVE  FALSE
  BY DEF OnePerOrder
<1>1. \A x \in Procs : req[x].order # NoOrder => Busy(x) = req[x].order
  BY DEF FlowInv, FlowFits, Busy
<1> QED
  BY <1>1 DEF OneHandlerPerOrder, Apart

LEMMA CalmOrdersStep ==
  ASSUME FlowInv, CalmInv, [DeliveryNext]_allVars, FlowInv', OneHandlerPerOrder'
  PROVE  CalmInv'
<1>1. OrderStep
  BY DeliveryIsOrderStep
<1>2. OnePerOrder'
  BY OneRequest, PTL
<1>3. TypeOK' /\ ReqInv'
  BY DEF FlowInv, DeliveryTypeOK
<1>4. CASE [Next]_vars
  BY <1>2, <1>3, <1>4, FreshStep, AcceptanceStep, ActiveStep DEF CalmInv
<1>5. ASSUME NEW p \in Procs, NEW o \in Orders, NEW to \in Status, Asks(p, o, to)
      PROVE  CalmInv'
  <2>1. orders' = orders /\ drivers' = drivers
    BY <1>5 DEF Asks
  <2>2. ASSUME NEW q \in Procs
        PROVE  Fresh(req[q])' /\ (req[q].pc # "idle" => Exists(req[q].order))'
    <3>1. CASE q = p
      BY <1>5, <2>1, <3>1 DEF Asks, Call, Idle, Fresh, Exists, CalmInv, TypeOK
    <3>2. CASE q # p
      <4>1. req'[q] = req[q]
        BY <1>5, <3>2 DEF Asks, Call, CalmInv, TypeOK
      <4> QED
        BY <2>1, <4>1 DEF CalmInv, SnapshotFresh, InFlightExists, Fresh, Exists
    <3> QED
      BY <3>1, <3>2
  <2>3. SnapshotFresh' /\ InFlightExists'
    BY <2>2 DEF SnapshotFresh, InFlightExists
  <2>4. DriverOnlyAfterAcceptance' /\ ActiveOrderIsHeld'
    BY <2>1 DEF CalmInv, DriverOnlyAfterAcceptance, ActiveOrderIsHeld
  <2> QED
    BY <1>2, <1>3, <2>3, <2>4 DEF CalmInv
<1>6. CASE Restart
  <2>1. SnapshotFresh' /\ InFlightExists'
    BY <1>6 DEF Restart, SnapshotFresh, InFlightExists, Fresh, Idle
  <2>2. DriverOnlyAfterAcceptance' /\ ActiveOrderIsHeld'
    BY <1>6 DEF Restart, CalmInv, DriverOnlyAfterAcceptance, ActiveOrderIsHeld
  <2> QED
    BY <1>2, <1>3, <2>1, <2>2 DEF CalmInv
<1> QED
  BY <1>1, <1>4, <1>5, <1>6 DEF OrderStep

LEMMA CalmFlowStep ==
  ASSUME CalmFlowInv, [DeliveryNext /\ OneHandlerPerOrder']_allVars
  PROVE  CalmFlowInv'
<1>1. [DeliveryNext]_allVars
  OBVIOUS
<1>2. OneHandlerPerOrder'
  BY DEF CalmFlowInv, OneHandlerPerOrder, Apart, Busy, allVars, vars, deliveryVars
<1>3. FlowInv'
  BY <1>1, FlowStep DEF CalmFlowInv
<1>4. CalmInv'
  BY <1>1, <1>2, <1>3, CalmOrdersStep DEF CalmFlowInv
<1> QED
  BY <1>2, <1>3, <1>4 DEF CalmFlowInv

LEMMA CalmFlowInit == DeliveryInit => CalmFlowInv
<1> SUFFICES ASSUME DeliveryInit PROVE CalmFlowInv
  OBVIOUS
<1>1. FlowInv /\ CalmInv
  BY FlowInit, CalmInit DEF DeliveryInit
<1>2. OneHandlerPerOrder
  BY DEF DeliveryInit, Init, OneHandlerPerOrder, Apart, Busy, NoFlow, Idle
<1> QED
  BY <1>1, <1>2 DEF CalmFlowInv

(* The delivery handlers and the worker are callers of the atomic order    *)
(* machine: with all their own writes, failures and restarts they move an  *)
(* order only as the machine can.                                          *)
THEOREM DeliveryRefinement == CalmDelivery => DeliveryImplementsMachine
<1>1. ASSUME CalmFlowInv, [DeliveryNext /\ OneHandlerPerOrder']_allVars
      PROVE  [Machine!Next]_MachineState
  <2>1. OrderStep /\ CalmInv
    BY <1>1, DeliveryIsOrderStep DEF CalmFlowInv
  <2>2. CASE [Next]_vars
    BY <2>1, <2>2, MachineStep
  <2>3. CASE ~[Next]_vars
    BY <2>1, <2>3 DEF OrderStep, Asks, Restart, MachineState
  <2> QED
    BY <2>2, <2>3
<1>2. DeliveryInit => Machine!Init
  BY MachineInit DEF DeliveryInit
<1> QED
  BY <1>1, <1>2, CalmFlowInit, CalmFlowStep, PTL
  DEF CalmDelivery, DeliveryImplementsMachine, Machine!Spec, MachineState

--------------------------------------------------------------------------------
(***************************************************************************)
(* The numbering of attempts, whatever overlaps, fails or dies.            *)
(***************************************************************************)
(* A step that inserts no attempt of o leaves it numbered.                 *)
LEMMA NumberedStays ==
  ASSUME NEW o \in Orders, Numbered(o), attempts'[o] = attempts[o],
         \A p \in Procs : HasCounted(p, o)' =>
           (HasCounted(p, o) /\ flow'[p].n = flow[p].n) \/ flow'[p].n = Len(attempts[o])
  PROVE  Numbered(o)'
<1>1. \A i \in DOMAIN attempts'[o] : attempts'[o][i] = i
  BY DEF Numbered
<1>2. \A p \in Procs : HasCounted(p, o)' => flow'[p].n = Len(attempts'[o])
  BY DEF Numbered
<1> QED
  BY <1>1, <1>2 DEF Numbered, HasCounted

LEMMA NumberedStep ==
  ASSUME FlowInv, [DeliveryNext]_allVars, NEW o \in Orders, Numbered(o), ~CountedTwice(o)
  PROVE  Numbered(o)'
<1> USE DEF FlowInv, DeliveryTypeOK
<1>1. ASSUME NEW p \in Procs, InsertAttempt(p)
      PROVE  Numbered(o)'
  <2>1. /\ flow[p].step = "insert" /\ flow[p].order \in Orders /\ flow[p] \in Flow
        /\ \A q \in Procs : q # p => flow'[q] = flow[q]
        /\ flow'[p].step = "logFailure"
    BY <1>1 DEF InsertAttempt, At, FlowFits, Advance, Flow
  <2>2. CASE flow[p].order = o
    <3> DEFINE s == attempts[o]
    <3>1. s \in Seq(Nat \ {0}) /\ flow[p].n = Len(s) /\ \A i \in DOMAIN s : s[i] = i
      BY <2>1, <2>2 DEF Numbered, HasCounted
    <3>2. attempts'[o] = Append(s, Len(s) + 1)
      BY <1>1, <2>1, <2>2, <3>1 DEF InsertAttempt
    <3>3. \A q \in Procs : ~HasCounted(q, o)'
      BY <2>1, <2>2 DEF CountedTwice, HasCounted
    <3> HIDE DEF s
    <3>4. \A i \in DOMAIN Append(s, Len(s) + 1) : Append(s, Len(s) + 1)[i] = i
      BY <3>1
    <3>5. \A i \in DOMAIN attempts'[o] : attempts'[o][i] = i
      BY <3>2, <3>4
    <3> QED
      BY <3>3, <3>5 DEF Numbered, HasCounted
  <2>3. CASE flow[p].order # o
    <3>1. attempts'[o] = attempts[o]
      BY <1>1, <2>1, <2>3 DEF InsertAttempt
    <3>2. \A q \in Procs : HasCounted(q, o)' => HasCounted(q, o) /\ flow'[q].n = flow[q].n
      BY <2>1 DEF HasCounted
    <3> QED
      BY <3>1, <3>2, NumberedStays
  <2> QED
    BY <2>2, <2>3
<1>2. ASSUME NEW p \in Procs, CountAttempts(p)
      PROVE  Numbered(o)'
  <2>1. /\ \A q \in Procs : q # p => flow'[q] = flow[q]
        /\ flow'[p].order = flow[p].order /\ flow'[p].n = Len(attempts[flow[p].order])
        /\ attempts' = attempts
    BY <1>2 DEF CountAttempts, Flow
  <2>2. \A q \in Procs : HasCounted(q, o)' =>
          (HasCounted(q, o) /\ flow'[q].n = flow[q].n) \/ flow'[q].n = Len(attempts[o])
    BY <2>1 DEF HasCounted
  <2> QED
    BY <2>1, <2>2, NumberedStays
<1>3. CASE ~ \E p \in Procs : InsertAttempt(p) \/ CountAttempts(p)
  <2>1. attempts' = attempts
    BY <1>3
    DEF DeliveryNext, Smooth, HttpArrive, RecordFailure, SubmitProof, Run, Rejected, HttpProgress,
        LogFailure, Resolve, ScheduleRetry, CheckOtp, BurnOtp, SaveProof, ProcessRetry,
        CompleteJob, DeliveryFail, DeliveryCrash, StartJob, Stall, ExpireOtp, IssueOtp, Abandon,
        deliveryVars, allVars, Http
  <2>2. ASSUME NEW q \in Procs, HasCounted(q, o)'
        PROVE  HasCounted(q, o) /\ flow'[q].n = flow[q].n
    <3>1. flow[q] \in Flow
      OBVIOUS
    <3>2. ASSUME NEW p \in Procs, p # q,
                 \/ HttpArrive(p) \/ Run(p) \/ DeliveryFail(p) \/ Stall(p)
                 \/ \E x \in Orders, w \in Windows : StartJob(p, x, w)
          PROVE  flow'[q] = flow[q]
      BY <3>2, OwnFlow
    <3>3. ASSUME NEW s \in Step, Advance(q, s) PROVE s = "insert"
      BY <2>2, <3>1, <3>3 DEF Advance, HasCounted, Flow
    <3>4. ~EndFlow(q)
      BY <2>2 DEF EndFlow, NoFlow, HasCounted
    <3>5. ~HttpArrive(q) \/ UNCHANGED deliveryVars
      BY <2>2 DEF HttpArrive, RecordFailure, SubmitProof, Begin, NoFlow, HasCounted
    <3>6. ~Run(q) \/ UNCHANGED deliveryVars
      BY <1>3, <3>3, <3>4
      DEF Run, Rejected, Abandon, EndJob, HttpProgress, LogFailure, Resolve, ScheduleRetry,
          CheckOtp, BurnOtp, SaveProof, ProcessRetry, CompleteJob, Step
    <3>7. ~DeliveryFail(q) /\ ~DeliveryCrash
      BY <2>2, <3>4 DEF DeliveryFail, Abandon, EndJob, DeliveryCrash, NoFlow, HasCounted
    <3>8. ASSUME NEW x, NEW w, StartJob(q, x, w) PROVE FALSE
      BY <2>2, <3>8 DEF StartJob, Begin, NoFlow, HasCounted
    <3>9. CASE Stall(q)
      BY <2>2, <3>1, <3>9 DEF Stall, HasCounted, Flow
    <3>10. CASE UNCHANGED flow
      BY <2>2, <3>10 DEF HasCounted
    <3>11. ASSUME NEW p \in Procs,
                  \/ HttpArrive(p) \/ Run(p) \/ DeliveryFail(p) \/ Stall(p)
                  \/ \E x \in Orders, w \in Windows : StartJob(p, x, w)
           PROVE  HasCounted(q, o) /\ flow'[q].n = flow[q].n
      <4>1. CASE p # q
        BY <2>2, <3>2, <3>11, <4>1 DEF HasCounted
      <4>2. CASE p = q
        BY <3>5, <3>6, <3>7, <3>8, <3>9, <3>10, <3>11, <4>2 DEF deliveryVars
      <4> QED
        BY <4>1, <4>2
    <3> QED
      BY <3>7, <3>10, <3>11, DeliveryAssumption
      DEF DeliveryNext, Smooth, ExpireOtp, IssueOtp, deliveryVars, allVars, Http
  <2> QED
    BY <2>1, <2>2, NumberedStays
<1> QED
  BY <1>1, <1>2, <1>3

(* Only two reports on one order that overlap between count and insert     *)
(* misnumber its attempts; no error, crash, retry or overlap with another  *)
(* handler does.                                                           *)
THEOREM AttemptsCorrect == DeliverySpec => OnlyOverlapsMisnumber
<1> DEFINE A == \A o \in Orders : ~Numbered(o)' /\ Numbered(o) => CountedTwice(o)
<1>1. FlowInv /\ [DeliveryNext]_allVars => [A]_allVars
  BY NumberedStep
<1> QED
  BY <1>1, FlowAlways, PTL DEF DeliverySpec, OnlyOverlapsMisnumber

--------------------------------------------------------------------------------
(***************************************************************************)
(* Stranded orders, whatever overlaps.                                     *)
(***************************************************************************)
(* An order starts to wait by a transition of it, and by no other writer.  *)
LEMMA StartsWaiting ==
  ASSUME FlowInv, [DeliveryNext]_allVars, NEW o \in Orders,
         orders[o].status # "RETRY_SCHEDULED", orders'[o].status = "RETRY_SCHEDULED"
  PROVE  \E p \in Procs :
           TransitionCommit(p) /\ req[p].order = o /\ req[p].to = "RETRY_SCHEDULED"
<1> USE DEF FlowInv, DeliveryTypeOK
<1>1. [Next]_vars
  BY DeliveryIsOrderStep DEF OrderStep, Asks, Restart
<1>2. PICK p \in Procs : Writes(p)
  BY <1>1, OnlyWritersWrite
<1>3. ASSUME NEW x \in Orders, NEW from, NEW to, NEW d, WriteOrder(x, from, to, d)
      PROVE  x = o /\ to = "RETRY_SCHEDULED"
  BY <1>3 DEF WriteOrder, TypeOK
<1>4. WellFormed(req[p])
  BY DEF ReqInv
<1>5. ASSUME NEW x \in Orders, NEW s \in InitialStatus, Create(p, x, s) PROVE FALSE
  BY <1>3, <1>5 DEF Create, InitialStatus
<1>6. ~AssignCommit(p) /\ ~UnassignCommit(p)
  BY <1>3, <1>4 DEF AssignCommit, UnassignCommit, WellFormed
<1>7. TransitionCommit(p)
  BY <1>2, <1>5, <1>6 DEF Writes
<1> QED
  BY <1>3, <1>4, <1>7 DEF TransitionCommit, WellFormed

(* A due job goes to a worker that starts on it, and in no other way.      *)
LEMMA DueJobStep ==
  ASSUME FlowInv, Smooth, NEW o \in Orders, NEW w \in Windows, jobs[o][w] = "delayed"
  PROVE  \/ jobs'[o][w] = "delayed"
         \/ \E p \in Procs : flow'[p].order = o /\ flow'[p].step = "process"
<1>0. /\ jobs \in [Orders -> [Windows -> JobState]] /\ flow \in [Procs -> Flow]
      /\ LocksHold /\ \A p \in Procs : FlowFits(p)
  BY DEF FlowInv, DeliveryTypeOK
<1>1. ASSUME NEW p \in Procs, NEW s, EndJob(p, s)
      PROVE  jobs'[o][w] = "delayed"
  <2>1. CASE flow[p].lock
    <3>1. /\ jobs[flow[p].order][flow[p].window] = "active"
          /\ flow[p].order \in Orders /\ flow[p].window \in Windows
      BY <1>0, <2>1 DEF LocksHold, FlowFits, NoFlow
    <3>2. SetJob(flow[p].order, flow[p].window, s)
      BY <1>1, <2>1 DEF EndJob
    <3>3. jobs'[o][w] = IF o = flow[p].order /\ w = flow[p].window THEN s ELSE jobs[o][w]
      BY <1>0, <3>1, <3>2, SetJobEffect
    <3> QED
      BY <3>1, <3>3
  <2> QED
    BY <1>1, <2>1 DEF EndJob
<1>2. ASSUME NEW p \in Procs, Run(p)
      PROVE  jobs'[o][w] = "delayed"
  <2>1. CASE ScheduleRetry(p)
    <3>1. flow[p].order \in Orders /\ flow[p].window \in Windows
      BY <1>0, <2>1 DEF ScheduleRetry, At, FlowFits
    <3>2. CASE SetJob(flow[p].order, flow[p].window, "delayed")
      BY <1>0, <3>1, <3>2, SetJobEffect
    <3> QED
      BY <2>1, <3>2 DEF ScheduleRetry
  <2> QED
    BY <1>1, <1>2, <2>1
    DEF Run, Rejected, Abandon, HttpProgress, CountAttempts, InsertAttempt, LogFailure, Resolve,
        CheckOtp, BurnOtp, SaveProof, ProcessRetry, CompleteJob, deliveryVars
<1>3. ASSUME NEW p \in Procs, NEW x \in Orders, NEW v \in Windows, StartJob(p, x, v)
      PROVE  \/ jobs'[o][w] = "delayed"
             \/ flow'[p].order = o /\ flow'[p].step = "process"
  <2>1. CASE x = o
    BY <1>0, <1>3, <2>1 DEF StartJob, Begin, NoFlow
  <2>2. CASE x # o
    BY <1>3, <2>2 DEF StartJob, SetJob
  <2> QED
    BY <2>1, <2>2
<1> QED
  BY <1>2, <1>3, DeliveryAssumption
  DEF Smooth, HttpArrive, RecordFailure, SubmitProof, ExpireOtp, IssueOtp, deliveryVars, Http

(* A step of another handler, or of none, leaves a handler where it is.    *)
LEMMA OthersWait ==
  ASSUME FlowInv, Smooth, NEW p \in Procs, flow[p].step # "none", ~Run(p)
  PROVE  flow'[p] = flow[p] /\ req'[p] = req[p]
<1>1. ~HttpArrive(p) /\ \A o \in Orders, w \in Windows : ~StartJob(p, o, w)
  BY DEF HttpArrive, RecordFailure, SubmitProof, StartJob, AtRest, At
<1>2. ASSUME NEW q \in Procs, HttpArrive(q) \/ Run(q)
                              \/ \E o \in Orders, w \in Windows : StartJob(q, o, w)
      PROVE  flow'[p] = flow[p] /\ req'[p] = req[p]
  BY <1>1, <1>2, OwnFlow
<1> QED
  BY <1>2, DeliveryAssumption
  DEF Smooth, ExpireOtp, IssueOtp, AnnouncePaid, SetDriverStatus, deliveryVars, vars, Http

(* A handler in its call takes a step of the call only. *)
LEMMA InCall ==
  ASSUME FlowInv, NEW p \in Procs, Run(p), req[p].pc # "idle"
  PROVE  (Progress(p) /\ UNCHANGED deliveryVars) \/ Rejected(p)
BY DEF Run, HttpProgress, CountAttempts, InsertAttempt, LogFailure, Resolve, ScheduleRetry,
       CheckOtp, BurnOtp, SaveProof, ProcessRetry, CompleteJob, At, Idle

(* A worker that is about to move a waiting order stays so until it has.   *)
LEMMA MoverStep ==
  ASSUME FlowInv, Smooth, NEW o \in Orders, NEW p \in Procs, AboutToMove(p, o),
         orders[o].status = "RETRY_SCHEDULED", orders'[o].status = "RETRY_SCHEDULED"
  PROVE  AboutToMove(p, o)'
<1> USE DEF FlowInv, DeliveryTypeOK
<1>1. /\ FlowFits(p) /\ flow[p].step \in {"process", "retrying"} /\ flow[p].order = o
      /\ WellFormed(req[p]) /\ flow[p] \in Flow
  BY DEF AboutToMove, ReqInv
<1>2. CASE ~Run(p)
  BY <1>1, <1>2, OthersWait DEF AboutToMove
<1>3. CASE Run(p) /\ flow[p].step = "process"
  <2>1. req[p] = Idle
    BY <1>1, <1>3 DEF FlowFits
  <2>2. ProcessRetry(p)
    BY <1>1, <1>3, <2>1, CallGoes
    DEF Run, Rejected, TransitionRejected, HttpProgress, CountAttempts, InsertAttempt, LogFailure,
        Resolve, ScheduleRetry, CheckOtp, BurnOtp, SaveProof, CompleteJob, At, Idle
  <2>3. Advance(p, "retrying") /\ req'[p].pc = "transition"
    BY <1>1, <2>2 DEF ProcessRetry, Call, TypeOK, Idle
  <2> QED
    BY <1>1, <2>3 DEF Advance, AboutToMove, Flow
<1>4. CASE Run(p) /\ flow[p].step = "retrying"
  <2>1. /\ Calling(p) /\ req[p].pc # "idle" /\ req[p].order = o
        /\ req[p].to \in {"OUT_FOR_DELIVERY", "ASSIGNED"}
    BY <1>1, <1>4, NullAssumption DEF AboutToMove, Calling, FlowFits, WellFormed
  <2>2. /\ CanTransition("RETRY_SCHEDULED", "OUT_FOR_DELIVERY")
        /\ CanTransition("RETRY_SCHEDULED", "ASSIGNED")
    BY DEF CanTransition, Transitions, Status
  <2>3. ~Rejected(p)
    BY <2>1, <2>2 DEF Rejected, TransitionRejected
  <2>4. Progress(p) /\ UNCHANGED deliveryVars
    BY <1>4, <2>1, <2>3, InCall
  <2>5. ~TransitionCommit(p)
    BY <2>1 DEF TransitionCommit, WriteOrder, TypeOK
  <2>6. TransitionRead(p)
    BY <2>1, <2>4, <2>5
    DEF Progress, PickNearest, CheckDriver, AssignCommit, UnassignCommit, Emit, Calling
  <2>7. req'[p].pc = "commitTransition"
    BY <2>6 DEF TransitionRead, ReadForTransition, Idle, TypeOK
  <2> QED
    BY <1>1, <1>4, <2>4, <2>7 DEF AboutToMove, deliveryVars
<1> QED
  BY <1>1, <1>2, <1>3, <1>4

(* A report that is about to add the job of a waiting order stays so until *)
(* it has, or until the queue has that job already.                        *)
LEMMA AdderStep ==
  ASSUME FlowInv, Smooth, NEW o \in Orders, NEW p \in Procs, AboutToAdd(p, o), ~NotAdded(p, o)
  PROVE  AboutToAdd(p, o)' \/ \E w \in Windows : jobs'[o][w] = "delayed"
<1> USE DEF FlowInv, DeliveryTypeOK
<1>1. /\ FlowFits(p) /\ flow[p].step = "rescheduling" /\ flow[p].order = o
      /\ flow[p].window \in Windows /\ WellFormed(req[p]) /\ flow[p] \in Flow
  BY DEF AboutToAdd, FlowFits, ReqInv
<1>2. CASE ~Run(p)
  BY <1>1, <1>2, OthersWait DEF AboutToAdd
<1>3. CASE Run(p) /\ req[p].pc = "emit"
  <2>1. Progress(p) /\ UNCHANGED deliveryVars
    BY <1>3, InCall DEF Rejected, TransitionRejected
  <2>2. Emit(p)
    BY <1>3, <2>1
    DEF Progress, TransitionRead, TransitionCommit, PickNearest, CheckDriver, AssignCommit,
        UnassignCommit
  <2>3. req'[p].pc = "idle"
    BY <2>2 DEF Emit, Finish, Idle, TypeOK
  <2> QED
    BY <1>1, <2>1, <2>3 DEF AboutToAdd, deliveryVars
<1>4. CASE Run(p) /\ req[p].pc = "idle"
  <2>1. ScheduleRetry(p)
    BY <1>1, <1>4
    DEF Run, Progress, TransitionRead, TransitionCommit, PickNearest, CheckDriver, AssignCommit,
        UnassignCommit, Emit, Rejected, TransitionRejected, HttpProgress, CountAttempts,
        InsertAttempt, LogFailure, Resolve, CheckOtp, BurnOtp, SaveProof, ProcessRetry,
        CompleteJob, At
  <2>2. jobs[o][flow[p].window] \in {"absent", "delayed"}
    BY <1>1, <2>1 DEF NotAdded, JobState
  <2>3. jobs'[o][flow[p].window] = "delayed"
    BY <1>1, <2>1, <2>2 DEF ScheduleRetry, SetJob
  <2> QED
    BY <1>1, <2>3
<1> QED
  BY <1>1, <1>2, <1>3, <1>4 DEF AboutToAdd

LEMMA StrandStep ==
  ASSUME FlowInv, [DeliveryNext]_allVars, ~Faulty, NEW o \in Orders, Wakeable(o),
         \A p \in Procs : ~AskedToWait(p, o) /\ ~NotAdded(p, o)
  PROVE  Wakeable(o)'
<1> USE DEF FlowInv, DeliveryTypeOK
<1>1. CASE UNCHANGED allVars
  BY <1>1 DEF allVars, vars, deliveryVars, Wakeable, AboutToMove, AboutToAdd
<1>2. CASE Smooth /\ orders[o].status # "RETRY_SCHEDULED"
                  /\ orders'[o].status = "RETRY_SCHEDULED"
  <2>1. PICK p \in Procs :
          TransitionCommit(p) /\ req[p].order = o /\ req[p].to = "RETRY_SCHEDULED"
    BY <1>2, StartsWaiting
  <2>2. FlowFits(p) /\ flow[p].step # "none" /\ Calling(p) /\ req[p].pc # "idle"
    BY <2>1 DEF AskedToWait, TransitionCommit, Calling
  <2>3. flow[p].order = o /\ flow[p].step = "rescheduling"
    BY <2>1, <2>2, NullAssumption DEF FlowFits, Calling, Idle
  <2>4. flow'[p] = flow[p] /\ req'[p].pc = "emit"
    <3>1. req'[p].pc = "emit"
      BY <2>1 DEF TransitionCommit, Goto, TypeOK, Request
    <3>2. Run(p)
      BY <1>2, <2>2, <2>1, <3>1, OthersWait DEF TransitionCommit
    <3> QED
      BY <2>1, <2>2, <3>1, <3>2, InCall DEF Rejected, TransitionRejected, TransitionCommit, deliveryVars
  <2> QED
    BY <2>3, <2>4 DEF Wakeable, AboutToAdd
<1>3. CASE Smooth /\ orders[o].status = "RETRY_SCHEDULED"
                  /\ orders'[o].status = "RETRY_SCHEDULED"
  <2>1. ASSUME NEW w \in Windows, jobs[o][w] = "delayed"
        PROVE  Wakeable(o)'
    BY <1>3, <2>1, DueJobStep DEF Wakeable, AboutToMove
  <2>2. ASSUME NEW p \in Procs, AboutToMove(p, o)
        PROVE  Wakeable(o)'
    BY <1>3, <2>2, MoverStep DEF Wakeable
  <2>3. ASSUME NEW p \in Procs, AboutToAdd(p, o)
        PROVE  Wakeable(o)'
    BY <1>3, <2>3, AdderStep DEF Wakeable
  <2> QED
    BY <1>3, <2>1, <2>2, <2>3 DEF Wakeable
<1>4. Smooth \/ UNCHANGED allVars
  BY DEF Faulty, DeliveryNext
<1> QED
  BY <1>1, <1>2, <1>3, <1>4 DEF Wakeable

(* Whatever overlaps, an order is left waiting with nothing to wake it     *)
(* only by an error, a crash or a lapsed lock, by a request of the         *)
(* transition endpoint for RETRY_SCHEDULED, or by a job that the queue     *)
(* refuses because it has one of that id which failed or is being run.     *)
THEOREM StrandCorrect == DeliverySpec => OnlyKnownCausesStrand
<1> DEFINE A == \A o \in Orders :
                  Wakeable(o) /\ ~Wakeable(o)' =>
                    Faulty \/ \E p \in Procs : AskedToWait(p, o) \/ NotAdded(p, o)
<1>1. FlowInv /\ [DeliveryNext]_allVars => [A]_allVars
  BY StrandStep
<1> QED
  BY <1>1, FlowAlways, PTL DEF DeliverySpec, OnlyKnownCausesStrand
================================================================================
