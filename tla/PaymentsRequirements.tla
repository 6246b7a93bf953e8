-------------------------- MODULE PaymentsRequirements --------------------------
(***************************************************************************)
(* What must hold of Payments, under any interleaving, error and crash.    *)
(***************************************************************************)
EXTENDS Payments

(* The shape of the payment tables, of Stripe and of a request in flight.  *)
PaymentsTypeOK ==
  /\ payment \in [AllOrders -> PaymentRow]
  /\ log \in [AllOrders -> SUBSET LogEntry]
  /\ told \subseteq AllOrders
  /\ processed \subseteq WebhookEvent
  /\ keys \in [CardOrders -> Intents \cup {NoIntent}]
  /\ intents \in [Intents -> [order : AllOrders \cup {NoOrder}, state : IntentState]]
  /\ secrets \subseteq Intents
  /\ sent \subseteq WebhookEvent
  /\ acked \subseteq WebhookEvent
  /\ straddled \subseteq CardOrders
  /\ req \in [Procs -> Request]

(* An order is charged at most once, however often and however many        *)
(* clients ask for an intent: at most one intent of an order can be paid.  *)
(* The API has no guard of its own between the read of the row and the     *)
(* upsert, so the one thing that can end this is a key that Stripe forgets *)
(* while a request for an intent of the order is under way.                *)
ChargedOnce ==
  \A i, j \in Intents :
    /\ Charged(i) /\ Charged(j)
    /\ intents[i].order = intents[j].order
    /\ intents[i].order \notin straddled
    => i = j

(* The intent a client can pay is the one its order's row points to, so    *)
(* the charge can always be found from the order, with the same exception. *)
RowHoldsPayableIntent ==
  \A i \in secrets :
    intents[i].order \notin straddled => payment[intents[i].order].intent = i

(* Neither the row, nor the log, nor the room says that a card order was   *)
(* paid or refunded when Stripe did not charge or refund it, whatever is   *)
(* delivered late, twice or out of order.                                  *)
NoFalsePayment ==
  \A o \in CardOrders :
    /\ (payment[o].status = "CAPTURED" \/ "succeeded" \in log[o] \/ o \in told) =>
         \E i \in Intents : intents[i].order = o /\ Charged(i)
    /\ (payment[o].status = "REFUNDED" \/ "refunded" \in log[o]) =>
         \E i \in Intents : intents[i].order = o /\ intents[i].state = "refunded"

--------------------------------------------------------------------------------
(* "Idempotently handle a verified Stripe webhook event. Dedup is enforced *)
(* ... so re-deliveries are safe": an event that is marked has taken       *)
(* effect.  A failed handler marks its event all the same, and every       *)
(* redelivery is then ignored.                                             *)
ProcessedTookEffect ==
  \A e \in processed : e.kind \in log[intents[e.intent].order]
================================================================================
