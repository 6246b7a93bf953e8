-------------------------------- MODULE Payments --------------------------------
(***************************************************************************)
(* PaymentsService with Stripe on the other side.  The API creates one     *)
(* PaymentIntent per card order, the client pays it with Stripe, and what  *)
(* happened comes back as webhook events, each delivered until it is       *)
(* answered with 200, in any order and more than once.                     *)
(***************************************************************************)
CONSTANTS
  CardOrders,   \* orders with paymentMethod CARD
  CashOrders,   \* orders with paymentMethod CASH_ON_DELIVERY
  Intents,      \* ids of PaymentIntents
  Procs,        \* requests the API can have in flight at once
  NoOrder, NoIntent

ASSUME PaymentsAssumption ==
  /\ CardOrders \cap CashOrders = {}
  /\ NoOrder \notin CardOrders \cup CashOrders
  /\ NoIntent \notin Intents

VARIABLES
  payment,     \* the payment table: status and intent, by order
  log,         \* the payment events in the order's audit log
  told,        \* orders whose room has heard PLACED, paid
  processed,   \* the processed_webhook_event table
  keys,        \* Stripe: the intent behind the idempotency key of an order
  intents,     \* Stripe: the order an intent is for and where it stands
  secrets,     \* intents whose client secret was returned to the client
  sent,        \* Stripe: events it has emitted
  acked,       \* Stripe: events that were answered with 200
  straddled,   \* history: orders whose key was forgotten under a request
  req          \* the API's requests in flight

api == <<payment, log, told, processed, secrets>>
stripe == <<keys, intents, sent, acked, straddled>>
paymentVars == <<payment, log, told, processed, secrets, keys, intents, sent, acked,
                 straddled, req>>

AllOrders == CardOrders \cup CashOrders

PaymentStatus == {"none", "PENDING", "CAPTURED", "FAILED", "REFUNDED"}
PaymentRow == [status : PaymentStatus, intent : Intents \cup {NoIntent}]

(* The webhook event types that are handled; an event is one of an intent. *)
Kind == {"succeeded", "failed", "refunded"}
WebhookEvent == [intent : Intents, kind : Kind]

(* What a handled event does to the row, and what it adds to the log.  A   *)
(* refund of a part of the amount makes the row REFUNDED as well:          *)
(* "refunded" is an intent of which anything was refunded.                 *)
NewStatus == [k \in Kind |-> CASE k = "succeeded" -> "CAPTURED"
                               [] k = "failed"    -> "FAILED"
                               [] k = "refunded"  -> "REFUNDED"]
LogEntry == {"INITIATED", "succeeded", "failed", "refunded", "CASH"}

IntentState == {"unused", "open", "declined", "captured", "refunded"}
Charged(i) == intents[i].state \in {"captured", "refunded"}

Pc == {"idle", "create", "upsert", "initiated", "cash", "apply", "record", "mark"}
Request == [pc : Pc, order : AllOrders \cup {NoOrder}, intent : Intents \cup {NoIntent},
            kind : Kind, ok : BOOLEAN]

Idle == [pc |-> "idle", order |-> NoOrder, intent |-> NoIntent,
         kind |-> "succeeded", ok |-> TRUE]
Finish(p) == req' = [req EXCEPT ![p] = Idle]
Goto(p, pc) == req' = [req EXCEPT ![p].pc = pc]
EventOf(p) == [intent |-> req[p].intent, kind |-> req[p].kind]

Log(o, entry) == log' = [log EXCEPT ![o] = @ \cup {entry}]

--------------------------------------------------------------------------------
(* createPaymentIntent: a row that has an intent is returned as it is, and *)
(* the client gets no secret a second time.  The mutant asks Stripe again. *)
StartIntentAgain(p, o) ==
  /\ req[p] = Idle
  /\ req' = [req EXCEPT ![p] = [Idle EXCEPT !.pc = "create", !.order = o]]
  /\ UNCHANGED <<api, stripe>>

StartIntent(p, o) ==
  /\ req[p] = Idle
  /\ payment[o].intent = NoIntent
  /\ req' = [req EXCEPT ![p] = [Idle EXCEPT !.pc = "create", !.order = o]]
  /\ UNCHANGED <<api, stripe>>

(* The call of Stripe.  With the key it has seen, Stripe answers with the  *)
(* intent it already made.  The mutant sends no key.                       *)
CreateIntentUnkeyed(p) ==
  LET o == req[p].order IN
  /\ req[p].pc = "create"
  /\ \E i \in Intents :
       /\ intents[i].state = "unused"
       /\ intents' = [intents EXCEPT ![i] = [order |-> o, state |-> "open"]]
       /\ req' = [req EXCEPT ![p].pc = "upsert", ![p].intent = i]
  /\ UNCHANGED <<api, keys, sent, acked, straddled>>

CreateIntent(p) ==
  LET o == req[p].order IN
  /\ req[p].pc = "create"
  /\ \E i \in Intents :
       /\ IF keys[o] = NoIntent
          THEN /\ intents[i].state = "unused"
               /\ keys' = [keys EXCEPT ![o] = i]
               /\ intents' = [intents EXCEPT ![i] = [order |-> o, state |-> "open"]]
          ELSE keys[o] = i /\ UNCHANGED <<keys, intents>>
       /\ req' = [req EXCEPT ![p].pc = "upsert", ![p].intent = i]
  /\ UNCHANGED <<api, sent, acked, straddled>>

(* The row becomes PENDING whatever it was. *)
UpsertPayment(p) ==
  LET r == req[p] IN
  /\ r.pc = "upsert"
  /\ payment' = [payment EXCEPT ![r.order] = [status |-> "PENDING", intent |-> r.intent]]
  /\ Goto(p, "initiated")
  /\ UNCHANGED <<log, told, processed, secrets, stripe>>

(* The event, and the response with the client secret. *)
ReturnSecret(p) ==
  LET r == req[p] IN
  /\ r.pc = "initiated"
  /\ Log(r.order, "INITIATED")
  /\ secrets' = secrets \cup {r.intent}
  /\ Finish(p)
  /\ UNCHANGED <<payment, told, processed, stripe>>

(* confirmCash: the driver's word is enough, as often as it is given.      *)
ConfirmCash(p, o) ==
  /\ req[p] = Idle
  /\ payment' = [payment EXCEPT ![o].status = "CAPTURED"]
  /\ req' = [req EXCEPT ![p] = [Idle EXCEPT !.pc = "cash", !.order = o]]
  /\ UNCHANGED <<log, told, processed, secrets, stripe>>

RecordCash(p) ==
  /\ req[p].pc = "cash"
  /\ Log(req[p].order, "CASH")
  /\ Finish(p)
  /\ UNCHANGED <<payment, told, processed, secrets, stripe>>

--------------------------------------------------------------------------------
(* handleWebhookEvent, from the read of the processed table on.            *)
Deliver(p, e) ==
  /\ req[p] = Idle
  /\ e \in sent \ acked
  /\ IF e \in processed
     THEN acked' = acked \cup {e} /\ UNCHANGED req          \* {handled: false}
     ELSE /\ req' = [req EXCEPT ![p] = [Idle EXCEPT !.pc = "apply",
                       !.order = intents[e.intent].order,
                       !.intent = e.intent, !.kind = e.kind]]
          /\ UNCHANGED acked
  /\ UNCHANGED <<api, keys, intents, sent, straddled>>

(* updateMany: no row, no update.  The mutants store the event's own word, *)
(* or take any event for success.                                          *)
ApplyEventRaw(p) ==
  LET r == req[p] IN
  /\ r.pc = "apply"
  /\ payment' = [payment EXCEPT ![r.order].status = IF @ = "none" THEN @ ELSE r.kind]
  /\ Goto(p, "record")
  /\ UNCHANGED <<log, told, processed, secrets, stripe>>

ApplyEventAsSuccess(p) ==
  LET r == req[p] IN
  /\ r.pc = "apply"
  /\ payment' = [payment EXCEPT ![r.order].status = IF @ = "none" THEN @ ELSE "CAPTURED"]
  /\ Goto(p, "record")
  /\ UNCHANGED <<log, told, processed, secrets, stripe>>

ApplyEvent(p) ==
  LET r == req[p] IN
  /\ r.pc = "apply"
  /\ payment' = [payment EXCEPT ![r.order].status =
                   IF @ = "none" THEN @ ELSE NewStatus[r.kind]]
  /\ Goto(p, "record")
  /\ UNCHANGED <<log, told, processed, secrets, stripe>>

RecordEvent(p) ==
  LET r == req[p] IN
  /\ r.pc = "record"
  /\ Log(r.order, r.kind)
  /\ told' = IF r.kind = "succeeded" THEN told \cup {r.order} ELSE told
  /\ Goto(p, "mark")
  /\ UNCHANGED <<payment, processed, secrets, stripe>>

(* A query of the handler fails; the finally block still runs. *)
EventError(p) ==
  /\ req[p].pc \in {"apply", "record"}
  /\ req' = [req EXCEPT ![p].pc = "mark", ![p].ok = FALSE]
  /\ UNCHANGED <<api, stripe>>

(* The finally block.  A second insert of one id fails, and that is a 500  *)
(* as a failed handler is.                                                 *)
Mark(p) ==
  LET e == EventOf(p) IN
  /\ req[p].pc = "mark"
  /\ processed' = processed \cup {e}
  /\ acked' = IF req[p].ok /\ e \notin processed THEN acked \cup {e} ELSE acked
  /\ Finish(p)
  /\ UNCHANGED <<payment, log, told, secrets, keys, intents, sent, straddled>>

--------------------------------------------------------------------------------
(* A request ends in a 500 without its last write; a webhook's handler     *)
(* only so when the insert itself fails.                                   *)
Fail(p) ==
  /\ req[p].pc \in {"create", "upsert", "initiated", "cash", "mark"}
  /\ Finish(p)
  /\ UNCHANGED <<api, stripe>>

Crash ==
  /\ \E p \in Procs : req[p] # Idle
  /\ req' = [p \in Procs |-> Idle]
  /\ UNCHANGED <<api, stripe>>

(* Stripe and the client.  A client pays only with the secret it was given. *)
Emit(i, kind) == sent' = sent \cup {[intent |-> i, kind |-> kind]}

Settle(i, state, kind) ==
  /\ intents' = [intents EXCEPT ![i].state = state]
  /\ Emit(i, kind)
  /\ UNCHANGED <<api, keys, acked, straddled, req>>

Pay(i) ==
  /\ i \in secrets
  /\ intents[i].state \in {"open", "declined"}
  /\ Settle(i, "captured", "succeeded")

Decline(i) ==
  /\ i \in secrets
  /\ intents[i].state = "open"
  /\ Settle(i, "declined", "failed")

Refund(i) == intents[i].state = "captured" /\ Settle(i, "refunded", "refunded")

(* Stripe forgets a key about a day after its first use, whatever is in    *)
(* flight at that time.                                                    *)
Creating(p) == req[p].pc \in {"create", "upsert", "initiated"}

ForgetKey(o) ==
  /\ keys[o] # NoIntent
  /\ keys' = [keys EXCEPT ![o] = NoIntent]
  /\ straddled' = IF \E p \in Procs : Creating(p) /\ req[p].order = o
                  THEN straddled \cup {o} ELSE straddled
  /\ UNCHANGED <<api, intents, sent, acked, req>>

--------------------------------------------------------------------------------
Init ==
  /\ payment = [o \in AllOrders |-> [status |-> "none", intent |-> NoIntent]]
  /\ log = [o \in AllOrders |-> {}]
  /\ told = {} /\ processed = {} /\ secrets = {} /\ sent = {} /\ acked = {}
  /\ straddled = {}
  /\ keys = [o \in CardOrders |-> NoIntent]
  /\ intents = [i \in Intents |-> [order |-> NoOrder, state |-> "unused"]]
  /\ req = [p \in Procs |-> Idle]

Run(p) ==
  \/ CreateIntent(p) \/ UpsertPayment(p) \/ ReturnSecret(p)
  \/ RecordCash(p) \/ ApplyEvent(p) \/ RecordEvent(p) \/ Mark(p)

Next ==
  \/ \E p \in Procs :
       \/ \E o \in CardOrders : StartIntent(p, o)
       \/ \E o \in CashOrders : ConfirmCash(p, o)
       \/ \E e \in sent : Deliver(p, e)
       \/ Run(p)
       \/ Fail(p) \/ EventError(p)
  \/ \E i \in Intents : Pay(i) \/ Decline(i) \/ Refund(i)
  \/ \E o \in CardOrders : ForgetKey(o)
  \/ Crash

Spec == Init /\ [][Next]_paymentVars
================================================================================
