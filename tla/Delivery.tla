-------------------------------- MODULE Delivery --------------------------------
(***************************************************************************)
(* DeliveryService and SchedulerService on top of the order lifecycle.     *)
(* Both are callers of OrdersService.transition: they read the order, make *)
(* writes of their own, and only then ask for the transition, which reads  *)
(* the order again.  A request p therefore has two records: flow[p], where *)
(* it is in its own handler, and req[p], the call it has made.             *)
(***************************************************************************)
EXTENDS OrderRequirements, Naturals, Sequences

CONSTANTS
  Workers,      \* the BullMQ workers among Procs, one in each API process
  Windows,      \* the instants a retry can be scheduled for
  NoWindow,
  Codes,        \* one-time passwords
  NoCode,
  MaxAttempts   \* bound: recorded attempts per order

ASSUME DeliveryAssumption ==
  /\ Workers \subseteq Procs /\ NoWindow \notin Windows /\ NoCode \notin Codes
  /\ MaxAttempts \in Nat

VARIABLES
  attempts,    \* the attemptNumbers of each order's delivery_attempt rows
  proof,       \* the kind of the order's proof_of_delivery row
  otp,         \* the code under otp:<order> in Redis
  jobs,        \* the RETRY_DELIVERY job of each order and window
  flow         \* where each request is in its delivery handler

deliveryVars == <<attempts, proof, otp, jobs, flow>>
allVars == <<vars, deliveryVars>>

Http == Procs \ Workers

Step == {"none", "count", "insert", "logFailure", "failing", "rescheduling",
         "checkOtp", "burnOtp", "saveProof", "process", "retrying"}
ProofKind == {"none", "OTP_CODE", "UPLOAD"}
JobState == {"absent", "delayed", "active", "failed"}

Flow == [step : Step, order : Orders \cup {NoOrder}, n : Nat,
         window : Windows \cup {NoWindow}, code : Codes \cup {NoCode},
         lock : BOOLEAN]     \* a worker's hold on the job it runs

NoFlow == [step |-> "none", order |-> NoOrder, n |-> 0, window |-> NoWindow, code |-> NoCode,
           lock |-> FALSE]

Begin(o, step) == [NoFlow EXCEPT !.step = step, !.order = o]
Advance(p, step) == flow' = [flow EXCEPT ![p].step = step]
EndFlow(p) == flow' = [flow EXCEPT ![p] = NoFlow]

(* The request is in its own code, not in a call to transition. *)
At(p, step) == flow[p].step = step /\ req[p] = Idle
AtRest(p) == At(p, "none")

SetJob(o, w, s) == jobs' = [jobs EXCEPT ![o][w] = s]

--------------------------------------------------------------------------------
(* DeliveryService.recordFailure.  The window is the rescheduleFor of a    *)
(* RETRY or RESCHEDULE resolution; without one the resolution is RETURN.   *)
RecordFailure(p, o, w) ==
  /\ AtRest(p)
  /\ orders[o].status \in {"OUT_FOR_DELIVERY", "EN_ROUTE_TO_PICKUP"}
  /\ Len(attempts[o]) < MaxAttempts
  /\ flow' = [flow EXCEPT ![p] = [Begin(o, "count") EXCEPT !.window = w]]
  /\ UNCHANGED <<vars, attempts, proof, otp, jobs>>

(* The count of the rows there are.  The mutant does not count.            *)
CountAttemptsSkipped(p) ==
  /\ At(p, "count")
  /\ Advance(p, "insert")
  /\ UNCHANGED <<vars, attempts, proof, otp, jobs>>

CountAttempts(p) ==
  /\ At(p, "count")
  /\ flow' = [flow EXCEPT ![p].step = "insert", ![p].n = Len(attempts[flow[p].order])]
  /\ UNCHANGED <<vars, attempts, proof, otp, jobs>>

(* The row is numbered from the count.  The mutant numbers from zero.      *)
InsertAttemptFromZero(p) ==
  /\ At(p, "insert")
  /\ attempts' = [attempts EXCEPT ![flow[p].order] = Append(@, flow[p].n)]
  /\ Advance(p, "logFailure")
  /\ UNCHANGED <<vars, proof, otp, jobs>>

InsertAttempt(p) ==
  /\ At(p, "insert")
  /\ attempts' = [attempts EXCEPT ![flow[p].order] = Append(@, flow[p].n + 1)]
  /\ Advance(p, "logFailure")
  /\ UNCHANGED <<vars, proof, otp, jobs>>

(* A DELIVERY_FAILED event without a toStatus, then FAILED is asked for.   *)
LogFailure(p) ==
  /\ At(p, "logFailure")
  /\ Call(p, flow[p].order, "FAILED")
  /\ Advance(p, "failing")
  /\ UNCHANGED <<orders, drivers, audit, view, attempts, proof, otp, jobs>>

(* FAILED was committed: resolve it. *)
Resolve(p) ==
  LET o == flow[p].order IN
  /\ At(p, "failing")
  /\ IF flow[p].window = NoWindow
     THEN Call(p, o, "RETURNED") /\ EndFlow(p)
     ELSE Call(p, o, "RETRY_SCHEDULED") /\ Advance(p, "rescheduling")
  /\ UNCHANGED <<orders, drivers, audit, view, attempts, proof, otp, jobs>>

(* SchedulerService.scheduleRetry: BullMQ ignores a job id it already has, *)
(* and a failed job keeps its id.                                          *)
ScheduleRetry(p) ==
  LET o == flow[p].order  w == flow[p].window IN
  /\ At(p, "rescheduling")
  /\ IF jobs[o][w] = "absent" THEN SetJob(o, w, "delayed") ELSE UNCHANGED jobs
  /\ EndFlow(p)
  /\ UNCHANGED <<vars, attempts, proof, otp>>

--------------------------------------------------------------------------------
(* DeliveryService.issueOtp looks at no order; the key expires by itself.  *)
IssueOtp(o, c) ==
  /\ otp' = [otp EXCEPT ![o] = c]
  /\ UNCHANGED <<vars, attempts, proof, jobs, flow>>

ExpireOtp(o) == IssueOtp(o, NoCode)

(* DeliveryService.submitProof, with a code or (NoCode) with an upload.    *)
SubmitProof(p, o, c) ==
  /\ AtRest(p)
  /\ orders[o].status = "OUT_FOR_DELIVERY"
  /\ flow' = [flow EXCEPT ![p] =
                [Begin(o, IF c = NoCode THEN "saveProof" ELSE "checkOtp")
                   EXCEPT !.code = c]]
  /\ UNCHANGED <<vars, attempts, proof, otp, jobs>>

CheckOtp(p) ==
  /\ At(p, "checkOtp")
  /\ IF otp[flow[p].order] = flow[p].code THEN Advance(p, "burnOtp") ELSE EndFlow(p)
  /\ UNCHANGED <<vars, attempts, proof, otp, jobs>>

BurnOtp(p) ==
  /\ At(p, "burnOtp")
  /\ otp' = [otp EXCEPT ![flow[p].order] = NoCode]
  /\ Advance(p, "saveProof")
  /\ UNCHANGED <<vars, attempts, proof, jobs>>

(* The proof is upserted before the order is known to be deliverable.      *)
SaveProof(p) ==
  LET o == flow[p].order IN
  /\ At(p, "saveProof")
  /\ proof' = [proof EXCEPT ![o] = IF flow[p].code = NoCode THEN "UPLOAD" ELSE "OTP_CODE"]
  /\ Call(p, o, "DELIVERED")
  /\ EndFlow(p)
  /\ UNCHANGED <<orders, drivers, audit, view, attempts, otp, jobs>>

--------------------------------------------------------------------------------
(* A worker takes a due job; it runs one at a time, under a lock that it   *)
(* has to renew.                                                           *)
StartJob(p, o, w) ==
  /\ AtRest(p)
  /\ jobs[o][w] = "delayed"
  /\ SetJob(o, w, "active")
  /\ flow' = [flow EXCEPT ![p] = [Begin(o, "process") EXCEPT !.window = w, !.lock = TRUE]]
  /\ UNCHANGED <<vars, attempts, proof, otp>>

(* The lock lapses under a worker that is held up: the job has stalled and *)
(* is handed out again, or failed when it has stalled before; the worker   *)
(* runs on and does not know.                                              *)
Stall(p) ==
  /\ flow[p].lock
  /\ \E s \in {"delayed", "failed"} : SetJob(flow[p].order, flow[p].window, s)
  /\ flow' = [flow EXCEPT ![p].lock = FALSE]
  /\ UNCHANGED <<vars, attempts, proof, otp>>

(* What a worker reports of a job counts only while it holds the lock.     *)
EndJob(p, s) ==
  /\ IF flow[p].lock THEN SetJob(flow[p].order, flow[p].window, s) ELSE UNCHANGED jobs
  /\ EndFlow(p)

(* SchedulerService.process: a job whose order is not waiting is done.     *)
(* The mutants leave an order without a driver alone, or put its job back  *)
(* until it has one.                                                       *)
ProcessRetryDriverOnly(p) ==
  LET o == flow[p].order IN
  /\ At(p, "process")
  /\ IF orders[o].status = "RETRY_SCHEDULED" /\ orders[o].driverId # NoDriver
     THEN Call(p, o, "OUT_FOR_DELIVERY") /\ Advance(p, "retrying") /\ UNCHANGED jobs
     ELSE EndJob(p, "absent") /\ UNCHANGED req
  /\ UNCHANGED <<orders, drivers, audit, view, attempts, proof, otp>>

ProcessRetryAwaitDriver(p) ==
  LET o == flow[p].order IN
  /\ At(p, "process")
  /\ IF orders[o].status = "RETRY_SCHEDULED" /\ orders[o].driverId # NoDriver
     THEN Call(p, o, "OUT_FOR_DELIVERY") /\ Advance(p, "retrying") /\ UNCHANGED jobs
     ELSE /\ EndJob(p, IF orders[o].status = "RETRY_SCHEDULED" THEN "delayed" ELSE "absent")
          /\ UNCHANGED req
  /\ UNCHANGED <<orders, drivers, audit, view, attempts, proof, otp>>

ProcessRetry(p) ==
  LET o == flow[p].order IN
  /\ At(p, "process")
  /\ IF orders[o].status = "RETRY_SCHEDULED"
     THEN /\ Call(p, o, IF orders[o].driverId # NoDriver
                        THEN "OUT_FOR_DELIVERY" ELSE "ASSIGNED")
          /\ Advance(p, "retrying")
          /\ UNCHANGED jobs
     ELSE EndJob(p, "absent") /\ UNCHANGED req
  /\ UNCHANGED <<orders, drivers, audit, view, attempts, proof, otp>>

CompleteJob(p) ==
  /\ At(p, "retrying")
  /\ EndJob(p, "absent")
  /\ UNCHANGED <<vars, attempts, proof, otp>>

--------------------------------------------------------------------------------
(* An error ends the whole handler; the worker's job is kept as failed,    *)
(* since it is added without further attempts.                             *)
Abandon(p) == EndJob(p, "failed") /\ UNCHANGED <<attempts, proof, otp>>

Rejected(p) == TransitionRejected(p) /\ Abandon(p)

DeliveryFail(p) ==
  \/ Fail(p) /\ Abandon(p)
  \/ flow[p].step # "none" /\ req[p] = Idle /\ Abandon(p) /\ UNCHANGED vars

(* The API dies, every process of it: BullMQ hands the stalled jobs out    *)
(* again, or fails those that have stalled before.                         *)
DeliveryCrash ==
  /\ \E p \in Procs : req[p] # Idle \/ flow[p] # NoFlow
  /\ req' = [p \in Procs |-> Idle]
  /\ view' = [o \in Orders |-> NoStatus]
  /\ flow' = [p \in Procs |-> NoFlow]
  /\ \E s \in {"delayed", "failed"} :
       jobs' = [o \in Orders |-> [w \in Windows |->
                  IF jobs[o][w] = "active" THEN s ELSE jobs[o][w]]]
  /\ UNCHANGED <<orders, drivers, audit, attempts, proof, otp>>

--------------------------------------------------------------------------------
DeliveryInit ==
  /\ Init
  /\ attempts = [o \in Orders |-> <<>>]
  /\ proof = [o \in Orders |-> "none"]
  /\ otp = [o \in Orders |-> NoCode]
  /\ jobs = [o \in Orders |-> [w \in Windows |-> "absent"]]
  /\ flow = [p \in Procs |-> NoFlow]

HttpArrive(p) ==
  \/ AtRest(p) /\ Arrive(p) /\ UNCHANGED deliveryVars
  \/ \E o \in Orders :
       \/ \E w \in Windows \cup {NoWindow} : RecordFailure(p, o, w)
       \/ \E c \in Codes \cup {NoCode} : SubmitProof(p, o, c)

HttpProgress(p) ==
  \/ CountAttempts(p) \/ InsertAttempt(p) \/ LogFailure(p)
  \/ Resolve(p) \/ ScheduleRetry(p)
  \/ CheckOtp(p) \/ BurnOtp(p) \/ SaveProof(p)

(* Whatever a handler in flight does next when nothing fails. *)
Run(p) ==
  \/ Progress(p) /\ UNCHANGED deliveryVars
  \/ Rejected(p)
  \/ p \in Http /\ HttpProgress(p)
  \/ p \in Workers /\ (ProcessRetry(p) \/ CompleteJob(p))

Smooth ==
  \/ \E p \in Http : HttpArrive(p)
  \/ \E p \in Procs : Run(p)
  \/ \E p \in Workers, o \in Orders, w \in Windows : StartJob(p, o, w)
  \/ \E o \in CardOrders : AnnouncePaid(o) /\ UNCHANGED deliveryVars
  \/ \E o \in Orders : ExpireOtp(o) \/ \E c \in Codes : IssueOtp(o, c)
  \/ \E d \in Drivers, s \in SelfStatus : SetDriverStatus(d, s) /\ UNCHANGED deliveryVars

DeliveryNext ==
  \/ Smooth
  \/ \E p \in Procs : DeliveryFail(p)
  \/ \E p \in Workers : Stall(p)
  \/ DeliveryCrash

DeliverySpec == DeliveryInit /\ [][DeliveryNext]_allVars

(* No two handlers about one order overlap, a worker's included. *)
Busy(p) == IF flow[p].step # "none" THEN flow[p].order ELSE req[p].order

Apart(p, q) == p # q /\ Busy(p) = Busy(q) => Busy(p) = NoOrder

OneHandlerPerOrder == \A p, q \in Procs : Apart(p, q)

CalmDelivery == DeliveryInit /\ [][DeliveryNext /\ OneHandlerPerOrder']_allVars

(* The same, but that a job that has stalled is run beside its first run.  *)
OnlyRerunsOverlap == \A p, q \in Procs : {p, q} \subseteq Workers \/ Apart(p, q)

RerunDelivery == DeliveryInit /\ [][DeliveryNext /\ OnlyRerunsOverlap']_allVars
================================================================================
