-------------------------- MODULE DeliveryRequirements --------------------------
(***************************************************************************)
(* What must hold of Delivery.                                             *)
(***************************************************************************)
EXTENDS Delivery

(* The shape of the delivery tables and of a handler in flight. *)
DeliveryTypeOK ==
  /\ TypeOK
  /\ attempts \in [Orders -> Seq(Nat \ {0})]
  /\ proof \in [Orders -> ProofKind]
  /\ otp \in [Orders -> Codes \cup {NoCode}]
  /\ jobs \in [Orders -> [Windows -> JobState]]
  /\ flow \in [Procs -> Flow]

--------------------------------------------------------------------------------
(* Under any interleaving.                                                 *)

(* The attempts of an order are numbered 1, 2, ... without gap or repeat,  *)
(* and a report that has counted them has the count that is right.         *)
HasCounted(p, o) == flow[p].order = o /\ flow[p].step = "insert"

Numbered(o) ==
  /\ \A i \in DOMAIN attempts[o] : attempts[o][i] = i
  /\ \A p \in Procs : HasCounted(p, o) => flow[p].n = Len(attempts[o])

(* Only two reports on one order that have both counted before either has  *)
(* inserted end that: nothing makes the pair unique, and no error, crash   *)
(* or retry of recordFailure misnumbers.                                   *)
CountedTwice(o) == \E p, q \in Procs : p # q /\ HasCounted(p, o) /\ HasCounted(q, o)

OnlyOverlapsMisnumber ==
  [][\A o \in Orders : ~Numbered(o)' /\ Numbered(o) => CountedTwice(o)]_allVars

(* An order that waits for its retry has a due job, a worker that is about *)
(* to move it, or a report that is about to add the job.                   *)
AboutToMove(p, o) ==
  /\ flow[p].order = o
  /\ \/ flow[p].step = "process"
     \/ flow[p].step = "retrying" /\ req[p].pc \in {"transition", "commitTransition"}

AboutToAdd(p, o) ==
  flow[p].order = o /\ flow[p].step = "rescheduling" /\ req[p].pc \in {"emit", "idle"}

Wakeable(o) ==
  orders[o].status = "RETRY_SCHEDULED" =>
    \/ \E w \in Windows : jobs[o][w] = "delayed"
    \/ \E p \in Procs : AboutToMove(p, o) \/ AboutToAdd(p, o)

(* A step that only an error, a crash or a lapsed lock can take. *)
Faulty ==
  /\ \/ DeliveryCrash
     \/ \E p \in Procs : DeliveryFail(p)
     \/ \E p \in Workers : Stall(p)
  /\ ~Smooth

(* The transition endpoint moves an order to RETRY_SCHEDULED, for which    *)
(* nothing adds a job.                                                     *)
AskedToWait(p, o) ==
  /\ TransitionCommit(p)
  /\ req[p].order = o /\ req[p].to = "RETRY_SCHEDULED" /\ flow[p].step = "none"

(* The queue has a job of that order and instant that has failed, or is    *)
(* being run, and adds none.                                               *)
NotAdded(p, o) ==
  ScheduleRetry(p) /\ flow[p].order = o /\ jobs[o][flow[p].window] \in {"active", "failed"}

(* These are the only ways an order is left waiting with nothing to wake   *)
(* it up: whatever overlaps, process ends no job whose order still waits,  *)
(* and recordFailure leaves no order waiting without its job.              *)
OnlyKnownCausesStrand ==
  [][\A o \in Orders :
       Wakeable(o) /\ ~Wakeable(o)' =>
         Faulty \/ \E p \in Procs : AskedToWait(p, o) \/ NotAdded(p, o)]_allVars

--------------------------------------------------------------------------------
(* When no two handlers about one order overlap.                           *)

(* The delivery handlers, whole, are still the atomic machine of orders. *)
DeliveryImplementsMachine == Machine!Spec

--------------------------------------------------------------------------------
(* Liveness.  The event loop runs every handler on; BullMQ hands out every *)
(* due job, again and again while requests about its order come first.     *)
(* Nothing makes a person act.                                             *)
Fairness ==
  /\ \A p \in Procs : WF_allVars(Run(p))
  /\ \A o \in Orders, w \in Windows :
       SF_allVars((\E p \in Workers : StartJob(p, o, w)) /\ OnlyRerunsOverlap')

LiveDelivery == RerunDelivery /\ Fairness

(* Once errors, crashes and stalls stop, a due job gets its order moving   *)
(* again, whatever requests about the order come in between, unless the    *)
(* job had failed by then.                                                 *)
RetryHappens ==
  <>[][~Faulty]_allVars =>
    \A o \in Orders, w \in Windows :
      orders[o].status = "RETRY_SCHEDULED" /\ jobs[o][w] = "delayed"
        ~> orders[o].status # "RETRY_SCHEDULED" \/ jobs[o][w] = "failed"
================================================================================
