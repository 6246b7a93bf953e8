------------------------- MODULE DriverAppRequirements -------------------------
(***************************************************************************)
(* What must hold of the outbox, over any network, with flushes that       *)
(* overlap, and however often the app is killed.                           *)
(***************************************************************************)
EXTENDS DriverApp

Flush ==
  [pc : {"send", "wait", "ok", "failed"},
   left : UNION {[ids -> 0 .. MAX_ATTEMPTS - 1] : ids \in (SUBSET DOMAIN outbox) \ {{}}}]

Request == [id : DOMAIN outbox, from : Status \cup {NoStatus}]

(* The shape of the tables; a flush under way has a row to deal with; a    *)
(* row that is still tried has not failed as often as it may.              *)
DriverAppTypeOK ==
  /\ outbox \in Seq(OutboxRow) /\ history \in Seq(Entry)
  /\ Len(history) = Len(outbox) /\ Len(outbox) <= MaxEntries
  /\ \A i \in DOMAIN outbox :
       outbox[i].status = "PENDING" => outbox[i].attempts < MAX_ATTEMPTS
  /\ flush \in [Flushes -> Flush \cup {NotFlushing}]
  /\ wire \in [Flushes -> Request \cup {NoRequest}]
  /\ order \in Status

(* No entry leaves the queue early: one that is SENT has been applied, and *)
(* one that is DEAD has really been tried MAX_ATTEMPTS times in vain, each *)
(* time by a request of its own, though flushes that overlap count from    *)
(* rows they read long ago.  A DEAD entry is lost: see KeptWhileOffline.   *)
NotGivenUpEarly ==
  \A i \in DOMAIN outbox :
    /\ outbox[i].status = "SENT" => history[i].applied > 0
    /\ outbox[i].status = "DEAD" => history[i].failures >= MAX_ATTEMPTS

(* The API applies an entry only if every earlier one has been applied, or *)
(* has been given up at some time, although requests are late, answers are *)
(* lost, the app is killed half way and two flushes work on the same rows. *)
(* An entry that was given up once may be overtaken for good, also when a  *)
(* flush that read it earlier sets it back from DEAD to PENDING.           *)
NoOvertaking ==
  [][\A i \in DOMAIN outbox :
       history'[i].applied > history[i].applied =>
         \A j \in 1 .. i - 1 : history[j].applied > 0 \/ history[j].gaveUp]_appVars

--------------------------------------------------------------------------------
(* What the repository says and the code does not do.                      *)

(* "Replays after a flaky connection never double-apply": an entry is      *)
(* applied once.                                                           *)
AppliedOnce == \A i \in DOMAIN history : history[i].applied <= 1

(* A phone that has no network: the API handles nothing.                   *)
OfflineNext ==
  \/ Press \/ Ping
  \/ \E f \in Flushes : StartFlush(f) \/ Run(f)
  \/ Kill

OfflineSpec == Init /\ [][OfflineNext]_appVars

(* "Written here first, then synced to the API when connectivity allows",  *)
(* "so no movement is lost": what is queued offline stays queued until the *)
(* network is back.  Being offline counts as a failure of the entry like   *)
(* any other, and MAX_ATTEMPTS of them end it.                             *)
KeptWhileOffline == \A i \in DOMAIN outbox : outbox[i].status # "DEAD"

--------------------------------------------------------------------------------
(* Liveness.  The timer ticks while the app runs, a fetch ends one way or  *)
(* the other, and the loop goes on from there.  Nothing is asked of the    *)
(* network, the API or the driver.                                         *)
Fairness ==
  \A f \in Flushes : WF_appVars(StartFlush(f)) /\ WF_appVars(Run(f))

LiveSpec == Spec /\ Fairness

(* No entry waits for ever: an app that is in the end left running comes   *)
(* to an end with each, although a flush may set the work of another back. *)
(* That end need not be a sync: without a network, or signed out, it is    *)
(* DEAD.                                                                   *)
NothingWaitsForever ==
  <>[][~Kill]_appVars => <>[](\A i \in DOMAIN outbox : outbox[i].status # "PENDING")
================================================================================
