----------------------------- MODULE PaymentsProofs -----------------------------
(***************************************************************************)
(* The safety of Payments for any sets of orders, intents and requests.    *)
(***************************************************************************)
EXTENDS PaymentsRequirements, TLAPS

Handling(p) == req[p].pc \in {"apply", "record", "mark"}

(* A request for an intent is for a card order; the intent it was given is *)
(* an intent of that order.                                                *)
CreatingInv ==
  \A p \in Procs : Creating(p) =>
    /\ req[p].order \in CardOrders
    /\ req[p].pc # "create" =>
         /\ req[p].intent \in Intents
         /\ intents[req[p].intent].order = req[p].order
         /\ intents[req[p].intent].state # "unused"

(* As long as Stripe forgets no key under a request, it remembers the key  *)
(* of every request: an intent the row has already is the one Stripe       *)
(* answers with.                                                           *)
KeyedInv ==
  \A p \in Procs : Creating(p) /\ req[p].order \notin straddled =>
    LET o == req[p].order IN
    /\ payment[o].intent # NoIntent => keys[o] = payment[o].intent
    /\ req[p].pc # "create" => keys[o] = req[p].intent
    /\ req[p].pc = "initiated" => payment[o].intent = req[p].intent

(* A handler works on an event Stripe has emitted, for the order it is of. *)
HandlingInv ==
  \A p \in Procs : Handling(p) =>
    EventOf(p) \in sent /\ req[p].order = intents[req[p].intent].order

CashInv == \A p \in Procs : req[p].pc = "cash" => req[p].order \in CashOrders

KeysInv ==
  \A o \in CardOrders : keys[o] # NoIntent =>
    intents[keys[o]].order = o /\ intents[keys[o]].state # "unused"

SecretsInv ==
  \A i \in secrets :
    intents[i].state # "unused" /\ intents[i].order \in CardOrders

(* Only an intent whose secret is out goes further than open.              *)
PaidInv == \A i \in Intents : intents[i].state \notin {"unused", "open"} => i \in secrets

SentInv ==
  \A e \in sent :
    /\ e.intent \in secrets
    /\ e.kind = "succeeded" => Charged(e.intent)
    /\ e.kind = "refunded" => intents[e.intent].state = "refunded"

PaymentsInv ==
  /\ PaymentsTypeOK
  /\ CreatingInv /\ KeyedInv /\ HandlingInv /\ CashInv
  /\ KeysInv /\ SecretsInv /\ PaidInv /\ SentInv
  /\ RowHoldsPayableIntent /\ NoFalsePayment

(* Init, with its parts expanded. *)
LEMMA PaymentsInit == Init => PaymentsInv
BY PaymentsAssumption
DEF Init, PaymentsInv, PaymentsTypeOK, PaymentRow, PaymentStatus, WebhookEvent, Kind, LogEntry, IntentState, Request, Pc, AllOrders, api, stripe, paymentVars, Idle, Creating, Handling, CreatingInv, KeyedInv, HandlingInv, CashInv, KeysInv,
    SecretsInv, PaidInv, SentInv, RowHoldsPayableIntent, NoFalsePayment

(* What a request in flight holds, by its program counter. *)
LEMMA RequestFacts ==
  ASSUME PaymentsInv, NEW p \in Procs
  PROVE  /\ req[p] \in Request
         /\ Creating(p) => req[p].order \in CardOrders
         /\ req[p].pc \in {"upsert", "initiated"} =>
              /\ req[p].intent \in Intents
              /\ intents[req[p].intent].order = req[p].order
              /\ intents[req[p].intent].state # "unused"
         /\ req[p].pc = "cash" => req[p].order \in CashOrders
         /\ Handling(p) =>
              /\ EventOf(p) \in sent /\ EventOf(p) \in WebhookEvent
              /\ req[p].intent \in secrets /\ req[p].intent \in Intents
              /\ req[p].order \in CardOrders
              /\ req[p].order = intents[req[p].intent].order
<1>1. req[p] \in Request
  BY DEF PaymentsInv, PaymentsTypeOK
<1>2. Creating(p) => req[p].order \in CardOrders
  BY DEF PaymentsInv, CreatingInv
<1>3. req[p].pc \in {"upsert", "initiated"} =>
        /\ req[p].intent \in Intents
        /\ intents[req[p].intent].order = req[p].order
        /\ intents[req[p].intent].state # "unused"
  BY <1>1 DEF PaymentsInv, CreatingInv, Creating
<1>4. req[p].pc = "cash" => req[p].order \in CashOrders
  BY DEF PaymentsInv, CashInv
<1>5. ASSUME Handling(p)
      PROVE  /\ EventOf(p) \in sent /\ EventOf(p) \in WebhookEvent
             /\ req[p].intent \in secrets /\ req[p].intent \in Intents
             /\ req[p].order \in CardOrders
             /\ req[p].order = intents[req[p].intent].order
  <2>1. EventOf(p) \in sent /\ req[p].order = intents[req[p].intent].order
    BY <1>5 DEF PaymentsInv, HandlingInv
  <2>2. EventOf(p) \in WebhookEvent
    BY <2>1 DEF PaymentsInv, PaymentsTypeOK
  <2>3. EventOf(p).intent \in secrets
    BY <2>1 DEF PaymentsInv, SentInv
  <2>4. req[p].intent \in secrets
    BY <2>3 DEF EventOf
  <2>5. req[p].intent \in Intents /\ req[p].order \in CardOrders
    BY <2>1, <2>4 DEF PaymentsInv, PaymentsTypeOK, SecretsInv
  <2> QED
    BY <2>1, <2>2, <2>4, <2>5
<1> QED
  BY <1>1, <1>2, <1>3, <1>4, <1>5

(* The tables and the requests keep their shape. *)
LEMMA PaymentsTypeStep == PaymentsInv /\ [Next]_paymentVars => PaymentsTypeOK'
<1> SUFFICES ASSUME PaymentsInv, [Next]_paymentVars PROVE PaymentsTypeOK'
  OBVIOUS
<1>0. PaymentsTypeOK
  BY DEF PaymentsInv
<1>i. Idle \in Request
  BY DEF Idle, Request, Pc, Kind
<1>1. ASSUME NEW p \in Procs, NEW o \in CardOrders, StartIntent(p, o) PROVE PaymentsTypeOK'
  <2>1. req' \in [Procs -> Request]
    BY <1>0, <1>i, RequestFacts, <1>1 DEF StartIntent, PaymentsTypeOK, AllOrders, api, stripe, Idle, Request, Pc
  <2>2. QED
    BY <1>0, <1>i, RequestFacts, <1>1, <2>1 DEF StartIntent, PaymentsTypeOK, AllOrders, api, stripe, Handling, Creating
<1>2. ASSUME NEW p \in Procs, NEW o \in CashOrders, ConfirmCash(p, o) PROVE PaymentsTypeOK'
  <2>1. req' \in [Procs -> Request]
    BY <1>0, <1>i, RequestFacts, <1>2 DEF ConfirmCash, PaymentsTypeOK, AllOrders, api, stripe, Idle, Request, Pc
  <2>2. QED
    BY <1>0, <1>i, RequestFacts, <1>2, <2>1 DEF ConfirmCash, PaymentsTypeOK, AllOrders, api, stripe, Handling, Creating, PaymentRow, PaymentStatus
<1>3. ASSUME NEW p \in Procs, NEW e \in sent, Deliver(p, e) PROVE PaymentsTypeOK'
  <2>1. e \in WebhookEvent
    BY <1>0 DEF PaymentsTypeOK
  <2>2. e.intent \in Intents /\ e.kind \in Kind
    BY <2>1 DEF WebhookEvent
  <2>3. intents[e.intent].order \in AllOrders \cup {NoOrder}
    BY <1>0, <2>2 DEF PaymentsTypeOK
  <2> DEFINE r == [Idle EXCEPT !.pc = "apply", !.order = intents[e.intent].order,
                               !.intent = e.intent, !.kind = e.kind]
  <2>4. r \in Request
    BY <2>2, <2>3 DEF Idle, Request, Pc
  <2>5. req' \in [Procs -> Request]
    BY <1>0, <2>4, <1>3 DEF Deliver, PaymentsTypeOK
  <2> QED
    BY <1>0, <2>1, <2>5, <1>3 DEF Deliver, PaymentsTypeOK, api
<1>4. ASSUME NEW p \in Procs, CreateIntent(p) PROVE PaymentsTypeOK'
  <2>0. PICK i \in Intents :
          /\ keys' = keys \/ keys' = [keys EXCEPT ![req[p].order] = i]
          /\ \/ intents' = intents
             \/ intents' = [intents EXCEPT ![i] = [order |-> req[p].order, state |-> "open"]]
          /\ req' = [req EXCEPT ![p].pc = "upsert", ![p].intent = i]
    BY <1>4 DEF CreateIntent
  <2>1. req[p] \in Request /\ req[p].order \in CardOrders
    BY RequestFacts, <1>4 DEF CreateIntent, Creating
  <2> DEFINE r == [req[p] EXCEPT !.pc = "upsert", !.intent = i]
  <2>2. r \in Request
    BY <2>1 DEF Request, Pc
  <2>3. req' = [req EXCEPT ![p] = r]
    BY <1>0, <2>0 DEF PaymentsTypeOK
  <2>4. req' \in [Procs -> Request]
    BY <1>0, <2>2, <2>3 DEF PaymentsTypeOK
  <2>5. intents' \in [Intents -> [order : AllOrders \cup {NoOrder}, state : IntentState]]
    BY <1>0, <2>0, <2>1 DEF PaymentsTypeOK, AllOrders, IntentState
  <2> QED
    BY <1>0, <2>0, <2>4, <2>5, <1>4 DEF CreateIntent, PaymentsTypeOK, api
<1>5. ASSUME NEW p \in Procs, UpsertPayment(p) PROVE PaymentsTypeOK'
  <2>1. req' \in [Procs -> Request]
    BY <1>0, <1>i, RequestFacts, <1>5 DEF UpsertPayment, PaymentsTypeOK, AllOrders, api, stripe, Goto, Request, Pc
  <2>2. QED
    BY <1>0, <1>i, RequestFacts, <1>5, <2>1 DEF UpsertPayment, PaymentsTypeOK, AllOrders, api, stripe, Handling, Creating, PaymentRow, PaymentStatus
<1>6. ASSUME NEW p \in Procs, ReturnSecret(p) PROVE PaymentsTypeOK'
  <2>1. req' \in [Procs -> Request]
    BY <1>0, <1>i, RequestFacts, <1>6 DEF ReturnSecret, PaymentsTypeOK, AllOrders, api, stripe, Finish
  <2>2. QED
    BY <1>0, <1>i, RequestFacts, <1>6, <2>1 DEF ReturnSecret, PaymentsTypeOK, AllOrders, api, stripe, Handling, Creating, Log, LogEntry
<1>7. ASSUME NEW p \in Procs, RecordCash(p) PROVE PaymentsTypeOK'
  <2>1. req' \in [Procs -> Request]
    BY <1>0, <1>i, RequestFacts, <1>7 DEF RecordCash, PaymentsTypeOK, AllOrders, api, stripe, Finish
  <2>2. QED
    BY <1>0, <1>i, RequestFacts, <1>7, <2>1 DEF RecordCash, PaymentsTypeOK, AllOrders, api, stripe, Handling, Creating, Log, LogEntry
<1>8. ASSUME NEW p \in Procs, ApplyEvent(p) PROVE PaymentsTypeOK'
  <2>1. req' \in [Procs -> Request]
    BY <1>0, <1>i, RequestFacts, <1>8 DEF ApplyEvent, PaymentsTypeOK, Goto, Request, Pc
  <2>2. req[p] \in Request /\ req[p].order \in AllOrders
    BY RequestFacts, <1>8 DEF ApplyEvent, Handling, AllOrders
  <2>3. NewStatus[req[p].kind] \in PaymentStatus
    BY <2>2 DEF Request, NewStatus, Kind, PaymentStatus
  <2>4. payment' \in [AllOrders -> PaymentRow]
    BY <1>0, <1>8, <2>2, <2>3 DEF ApplyEvent, PaymentsTypeOK, PaymentRow
  <2> QED
    BY <1>0, <2>1, <2>4, <1>8 DEF ApplyEvent, PaymentsTypeOK, stripe
<1>9. ASSUME NEW p \in Procs, RecordEvent(p) PROVE PaymentsTypeOK'
  <2>1. req' \in [Procs -> Request]
    BY <1>0, <1>i, RequestFacts, <1>9 DEF RecordEvent, PaymentsTypeOK, Goto, Request, Pc
  <2>2. req[p] \in Request /\ req[p].order \in AllOrders
    BY RequestFacts, <1>9 DEF RecordEvent, Handling, AllOrders
  <2>3. req[p].kind \in LogEntry
    BY <2>2 DEF Request, Kind, LogEntry
  <2>4. log' \in [AllOrders -> SUBSET LogEntry] /\ told' \subseteq AllOrders
    BY <1>0, <1>9, <2>2, <2>3 DEF RecordEvent, Log, PaymentsTypeOK
  <2> QED
    BY <1>0, <2>1, <2>4, <1>9 DEF RecordEvent, PaymentsTypeOK, stripe
<1>10. ASSUME NEW p \in Procs, Mark(p) PROVE PaymentsTypeOK'
  <2>1. req' \in [Procs -> Request]
    BY <1>0, <1>i, RequestFacts, <1>10 DEF Mark, PaymentsTypeOK, AllOrders, api, stripe, Finish
  <2>2. QED
    BY <1>0, <1>i, RequestFacts, <1>10, <2>1 DEF Mark, PaymentsTypeOK, AllOrders, api, stripe, Handling, Creating
<1>11. ASSUME NEW p \in Procs, Fail(p) PROVE PaymentsTypeOK'
  <2>1. req' \in [Procs -> Request]
    BY <1>0, <1>i, RequestFacts, <1>11 DEF Fail, PaymentsTypeOK, AllOrders, api, stripe, Finish
  <2>2. QED
    BY <1>0, <1>i, RequestFacts, <1>11, <2>1 DEF Fail, PaymentsTypeOK, AllOrders, api, stripe, Handling, Creating
<1>12. ASSUME NEW p \in Procs, EventError(p) PROVE PaymentsTypeOK'
  <2> DEFINE r == [req[p] EXCEPT !.pc = "mark", !.ok = FALSE]
  <2>1. r \in Request
    BY RequestFacts DEF Request, Pc
  <2>2. req' = [req EXCEPT ![p] = r]
    BY <1>0, <1>12 DEF EventError, PaymentsTypeOK
  <2>3. req' \in [Procs -> Request]
    BY <1>0, <2>1, <2>2 DEF PaymentsTypeOK
  <2> QED
    BY <1>0, <2>3, <1>12 DEF EventError, PaymentsTypeOK, api, stripe
<1>13. ASSUME Crash PROVE PaymentsTypeOK'
  <2>1. req' \in [Procs -> Request]
    BY <1>0, <1>i, <1>13 DEF Crash, PaymentsTypeOK, AllOrders, api, stripe
  <2>2. QED
    BY <1>0, <1>i, <1>13, <2>1 DEF Crash, PaymentsTypeOK, AllOrders, api, stripe, Handling, Creating
<1>14. ASSUME NEW i \in Intents, Pay(i) PROVE PaymentsTypeOK'
  <2>1. req' \in [Procs -> Request]
    BY <1>0, <1>i, <1>14 DEF Pay, PaymentsTypeOK, AllOrders, api, stripe, Settle
  <2>2. QED
    BY <1>0, <1>i, <1>14, <2>1 DEF Pay, PaymentsTypeOK, AllOrders, api, stripe, Handling, Creating, Emit, IntentState, WebhookEvent, Kind, Settle
<1>15. ASSUME NEW i \in Intents, Decline(i) PROVE PaymentsTypeOK'
  <2>1. req' \in [Procs -> Request]
    BY <1>0, <1>i, <1>15 DEF Decline, PaymentsTypeOK, AllOrders, api, stripe, Settle
  <2>2. QED
    BY <1>0, <1>i, <1>15, <2>1 DEF Decline, PaymentsTypeOK, AllOrders, api, stripe, Handling, Creating, Emit, IntentState, WebhookEvent, Kind, Settle
<1>16. ASSUME NEW i \in Intents, Refund(i) PROVE PaymentsTypeOK'
  <2>1. req' \in [Procs -> Request]
    BY <1>0, <1>i, <1>16 DEF Refund, PaymentsTypeOK, AllOrders, api, stripe, Settle
  <2>2. QED
    BY <1>0, <1>i, <1>16, <2>1 DEF Refund, PaymentsTypeOK, AllOrders, api, stripe, Handling, Creating, Emit, IntentState, WebhookEvent, Kind, Settle
<1>17. ASSUME NEW o \in CardOrders, ForgetKey(o) PROVE PaymentsTypeOK'
  <2>1. req' \in [Procs -> Request]
    BY <1>0, <1>i, <1>17 DEF ForgetKey, PaymentsTypeOK, AllOrders, api, stripe
  <2>2. QED
    BY <1>0, <1>i, <1>17, <2>1 DEF ForgetKey, PaymentsTypeOK, AllOrders, api, stripe, Handling, Creating
<1>18. CASE UNCHANGED paymentVars
  BY <1>0, <1>18 DEF PaymentsTypeOK, paymentVars
<1>19. QED
  BY <1>1, <1>2, <1>3, <1>4, <1>5, <1>6, <1>7, <1>8, <1>9, <1>10, <1>11, <1>12, <1>13, <1>14, <1>15, <1>16, <1>17, <1>18 DEF Next, Run

(* Every action preserves the invariant; the parts that only read what an  *)
(* action leaves alone are preserved as they are.                          *)
LEMMA PaymentsStep == PaymentsInv /\ [Next]_paymentVars => PaymentsInv'
<1> SUFFICES ASSUME PaymentsInv, [Next]_paymentVars PROVE PaymentsInv'
  OBVIOUS
<1>0. /\ PaymentsTypeOK /\ PaymentsTypeOK'
      /\ CreatingInv /\ KeyedInv /\ HandlingInv /\ CashInv /\ KeysInv /\ SecretsInv /\ PaidInv /\ SentInv
      /\ RowHoldsPayableIntent /\ NoFalsePayment
  BY PaymentsTypeStep DEF PaymentsInv
<1> USE PaymentsAssumption
<1>1. ASSUME NEW p \in Procs, NEW o \in CardOrders, StartIntent(p, o) PROVE PaymentsInv'
  <2>1. KeysInv' /\ SecretsInv' /\ PaidInv' /\ SentInv' /\ RowHoldsPayableIntent' /\ NoFalsePayment'
    BY <1>0, <1>1 DEF StartIntent, api, stripe, KeysInv, SecretsInv, PaidInv, SentInv, RowHoldsPayableIntent, NoFalsePayment, Charged
  <2>2. CreatingInv'
    BY <1>0, <1>1, RequestFacts DEF StartIntent, api, stripe, PaymentsTypeOK, CreatingInv, Creating, Idle
  <2>k. KeyedInv'
    BY <1>0, <1>1, RequestFacts DEF StartIntent, api, stripe, PaymentsTypeOK, KeyedInv, Creating, Idle
  <2>3. HandlingInv'
    BY <1>0, <1>1, RequestFacts DEF StartIntent, api, stripe, PaymentsTypeOK, HandlingInv, Handling, EventOf, Idle
  <2>4. CashInv'
    BY <1>0, <1>1, RequestFacts DEF StartIntent, api, stripe, PaymentsTypeOK, CashInv, Idle
  <2> QED
    BY <1>0, <2>1, <2>2, <2>k, <2>3, <2>4 DEF PaymentsInv
<1>2. ASSUME NEW p \in Procs, NEW o \in CashOrders, ConfirmCash(p, o) PROVE PaymentsInv'
  <2>1. KeysInv' /\ SecretsInv' /\ PaidInv' /\ SentInv'
    BY <1>0, <1>2 DEF ConfirmCash, api, stripe, KeysInv, SecretsInv, PaidInv, SentInv, Charged
  <2>2. CreatingInv'
    BY <1>0, <1>2, RequestFacts DEF ConfirmCash, api, stripe, PaymentsTypeOK, CreatingInv, Creating, Idle
  <2>k. KeyedInv'
    BY <1>0, <1>2, RequestFacts DEF ConfirmCash, api, stripe, PaymentsTypeOK, KeyedInv, Creating, Idle
  <2>3. HandlingInv'
    BY <1>0, <1>2, RequestFacts DEF ConfirmCash, api, stripe, PaymentsTypeOK, HandlingInv, Handling, EventOf, Idle
  <2>4. CashInv'
    BY <1>0, <1>2, RequestFacts DEF ConfirmCash, api, stripe, PaymentsTypeOK, CashInv, Idle
  <2>5. RowHoldsPayableIntent'
    BY <1>0, <1>2, RequestFacts DEF ConfirmCash, api, stripe, PaymentsTypeOK, RowHoldsPayableIntent, Idle
  <2>6. NoFalsePayment'
    BY <1>0, <1>2, RequestFacts DEF ConfirmCash, api, stripe, PaymentsTypeOK, NoFalsePayment, Charged, Idle
  <2> QED
    BY <1>0, <2>1, <2>2, <2>k, <2>3, <2>4, <2>5, <2>6 DEF PaymentsInv
<1>3. ASSUME NEW p \in Procs, NEW e \in sent, Deliver(p, e) PROVE PaymentsInv'
  <2>a. e \in WebhookEvent
    BY <1>0 DEF PaymentsTypeOK
  <2>b. \A q \in Procs :
          \/ req'[q] = req[q]
          \/ /\ req'[q].pc = "apply" /\ req'[q].order = intents[e.intent].order
             /\ req'[q].intent = e.intent /\ req'[q].kind = e.kind
    <3> DEFINE r == [Idle EXCEPT !.pc = "apply", !.order = intents[e.intent].order,
                                 !.intent = e.intent, !.kind = e.kind]
    <3>1. req' = req \/ req' = [req EXCEPT ![p] = r]
      BY <1>3 DEF Deliver
    <3>2. /\ r.pc = "apply" /\ r.order = intents[e.intent].order
          /\ r.intent = e.intent /\ r.kind = e.kind
      BY DEF Idle
    <3> QED
      BY <1>0, <3>1, <3>2 DEF PaymentsTypeOK
  <2>1. KeysInv' /\ SecretsInv' /\ PaidInv' /\ SentInv' /\ RowHoldsPayableIntent' /\ NoFalsePayment'
    BY <1>0, <1>3 DEF Deliver, api, stripe, KeysInv, SecretsInv, PaidInv, SentInv, RowHoldsPayableIntent, NoFalsePayment, Charged
  <2>2. CreatingInv'
    BY <1>0, <1>3, <2>b DEF Deliver, api, stripe, CreatingInv, Creating
  <2>k. KeyedInv'
    BY <1>0, <1>3, <2>b DEF Deliver, api, stripe, KeyedInv, Creating
  <2>3. HandlingInv'
    <3>1. sent' = sent /\ intents' = intents
      BY <1>3 DEF Deliver
    <3>2. e = [intent |-> e.intent, kind |-> e.kind]
      BY <2>a DEF WebhookEvent
    <3> QED
      BY <1>0, <2>b, <3>1, <3>2 DEF HandlingInv, Handling, EventOf
  <2>4. CashInv'
    BY <1>0, <2>b DEF CashInv
  <2> QED
    BY <1>0, <2>1, <2>2, <2>k, <2>3, <2>4 DEF PaymentsInv
<1>4. ASSUME NEW p \in Procs, CreateIntent(p) PROVE PaymentsInv'
  <2>a. \A j \in Intents : intents[j].state # "unused" => intents'[j] = intents[j]
    BY <1>0, <1>4 DEF CreateIntent, PaymentsTypeOK
  <2>b. secrets \subseteq Intents
    BY <1>0 DEF PaymentsTypeOK
  <2>2. CreatingInv'
    <3> DEFINE o == req[p].order
    <3>1. PICK i \in Intents :
            /\ keys[o] # NoIntent => keys[o] = i /\ intents' = intents
            /\ keys[o] = NoIntent =>
                 intents' = [intents EXCEPT ![i] = [order |-> o, state |-> "open"]]
            /\ req' = [req EXCEPT ![p].pc = "upsert", ![p].intent = i]
      BY <1>4 DEF CreateIntent
    <3>2. o \in CardOrders
      BY <1>4, RequestFacts DEF CreateIntent, Creating
    <3>3. /\ req'[p].pc = "upsert" /\ req'[p].intent = i /\ req'[p].order = o
          /\ \A q \in Procs : q # p => req'[q] = req[q]
      BY <1>0, <3>1 DEF PaymentsTypeOK
    <3>4. intents'[i].order = o /\ intents'[i].state # "unused"
      <4>1. CASE keys[o] = NoIntent
        BY <1>0, <3>1, <4>1 DEF PaymentsTypeOK
      <4>2. CASE keys[o] # NoIntent
        BY <1>0, <3>1, <3>2, <4>2 DEF KeysInv
      <4> QED
        BY <4>1, <4>2
    <3> QED
      BY <1>0, <2>a, <3>2, <3>3, <3>4 DEF CreatingInv, Creating
  <2>k. KeyedInv'
    <3> DEFINE o == req[p].order
    <3>1. PICK i \in Intents :
            /\ keys[o] # NoIntent => keys[o] = i /\ keys' = keys
            /\ keys[o] = NoIntent => keys' = [keys EXCEPT ![o] = i]
            /\ req' = [req EXCEPT ![p].pc = "upsert", ![p].intent = i]
      BY <1>4 DEF CreateIntent
    <3>2. payment' = payment /\ straddled' = straddled /\ req[p].pc = "create" /\ o \in CardOrders
      BY <1>4, RequestFacts DEF CreateIntent, Creating, api
    <3>3. /\ req'[p].pc = "upsert" /\ req'[p].intent = i /\ req'[p].order = o
          /\ \A q \in Procs : q # p => req'[q] = req[q]
      BY <1>0, <3>1 DEF PaymentsTypeOK
    <3>4. keys'[o] = i /\ \A c \in CardOrders : keys[c] # NoIntent => keys'[c] = keys[c]
      BY <1>0, <3>1, <3>2 DEF PaymentsTypeOK
    <3>5. ASSUME NEW q \in Procs, Creating(q)', req'[q].order \notin straddled'
          PROVE  /\ payment'[req'[q].order].intent # NoIntent =>
                      keys'[req'[q].order] = payment'[req'[q].order].intent
                 /\ req'[q].pc # "create" => keys'[req'[q].order] = req'[q].intent
                 /\ req'[q].pc = "initiated" =>
                      payment'[req'[q].order].intent = req'[q].intent
      <4>1. CASE q = p
        BY <1>0, <3>2, <3>3, <3>4, <3>5, <4>1 DEF KeyedInv, Creating
      <4>2. CASE q # p
        <5>1. req'[q] = req[q] /\ Creating(q) /\ req[q].order \in CardOrders
          BY <1>0, <3>3, <3>5, <4>2 DEF Creating, CreatingInv
        <5>2. req[q].pc # "create" => req[q].intent \in Intents
          BY <1>0, <5>1 DEF CreatingInv
        <5> QED
          BY <1>0, <3>2, <3>4, <3>5, <5>1, <5>2 DEF KeyedInv
      <4> QED
        BY <4>1, <4>2
    <3> QED
      BY <3>5 DEF KeyedInv
  <2>3. HandlingInv'
    <3>1. SUFFICES ASSUME NEW q \in Procs, Handling(q)'
                   PROVE  EventOf(q)' \in sent' /\ req'[q].order = intents'[req'[q].intent].order
      BY DEF HandlingInv
    <3>2. req'[q] = req[q] /\ sent' = sent
      BY <1>0, <1>4, <3>1 DEF CreateIntent, PaymentsTypeOK, Handling
    <3>3. Handling(q)
      BY <3>1, <3>2 DEF Handling
    <3>4. /\ EventOf(q) \in sent /\ req[q].intent \in secrets /\ req[q].intent \in Intents
          /\ req[q].order = intents[req[q].intent].order
      BY <3>3, RequestFacts
    <3>5. intents'[req[q].intent] = intents[req[q].intent]
      BY <1>0, <2>a, <3>4 DEF SecretsInv
    <3> QED
      BY <3>2, <3>4, <3>5 DEF EventOf
  <2>4. CashInv'
    BY <1>0, <1>4, RequestFacts DEF CreateIntent, api, stripe, PaymentsTypeOK, CashInv
  <2>5. KeysInv'
    BY <1>0, <1>4, RequestFacts DEF CreateIntent, api, stripe, PaymentsTypeOK, KeysInv
  <2>6. SecretsInv'
    BY <1>0, <1>4, RequestFacts DEF CreateIntent, api, stripe, PaymentsTypeOK, SecretsInv
  <2>7. PaidInv'
    BY <1>0, <1>4, RequestFacts DEF CreateIntent, api, stripe, PaymentsTypeOK, PaidInv
  <2>8. SentInv'
    BY <1>0, <1>4, RequestFacts DEF CreateIntent, api, stripe, PaymentsTypeOK, SentInv, Charged
  <2>9. RowHoldsPayableIntent'
    <3>1. \A j \in secrets : intents'[j] = intents[j]
      BY <1>0, <2>a, <2>b DEF SecretsInv
    <3> QED
      BY <1>0, <1>4, <3>1 DEF CreateIntent, api, RowHoldsPayableIntent
  <2>10. NoFalsePayment'
    <3>1. \A j \in Intents : Charged(j) => intents'[j] = intents[j]
      BY <2>a DEF Charged
    <3>2. payment' = payment /\ log' = log /\ told' = told
      BY <1>4 DEF CreateIntent, api
    <3>3. \A o \in CardOrders :
            /\ (\E j \in Intents : intents[j].order = o /\ Charged(j)) =>
                 \E j \in Intents : intents'[j].order = o /\ Charged(j)'
            /\ (\E j \in Intents : intents[j].order = o /\ intents[j].state = "refunded") =>
                 \E j \in Intents : intents'[j].order = o /\ intents'[j].state = "refunded"
      BY <3>1 DEF Charged
    <3> QED
      BY <1>0, <3>2, <3>3 DEF NoFalsePayment
  <2> QED
    BY <1>0, <2>2, <2>k, <2>3, <2>4, <2>5, <2>6, <2>7, <2>8, <2>9, <2>10 DEF PaymentsInv
<1>5. ASSUME NEW p \in Procs, UpsertPayment(p) PROVE PaymentsInv'
  <2>1. KeysInv' /\ SecretsInv' /\ PaidInv' /\ SentInv'
    BY <1>0, <1>5 DEF UpsertPayment, api, stripe, KeysInv, SecretsInv, PaidInv, SentInv, Charged
  <2>2. CreatingInv'
    BY <1>0, <1>5, RequestFacts DEF UpsertPayment, api, stripe, PaymentsTypeOK, CreatingInv, Creating, Goto
  <2>k. KeyedInv'
    BY <1>0, <1>5, RequestFacts DEF UpsertPayment, api, stripe, PaymentsTypeOK, KeyedInv, Creating, Goto
  <2>3. HandlingInv'
    BY <1>0, <1>5, RequestFacts DEF UpsertPayment, api, stripe, PaymentsTypeOK, HandlingInv, Handling, EventOf, Goto
  <2>4. CashInv'
    BY <1>0, <1>5, RequestFacts DEF UpsertPayment, api, stripe, PaymentsTypeOK, CashInv, Goto
  <2>5. RowHoldsPayableIntent'
    <3>1. req[p].order \in CardOrders /\ secrets' = secrets /\ straddled' = straddled /\ intents' = intents
      BY <1>0, <1>5, RequestFacts DEF UpsertPayment, Creating, stripe
    <3>2. ASSUME NEW j \in secrets, intents[j].order = req[p].order, req[p].order \notin straddled
          PROVE  j = req[p].intent
      <4>1. payment[req[p].order].intent = j /\ j # NoIntent
        BY <1>0, <3>2 DEF RowHoldsPayableIntent, PaymentsTypeOK
      <4> QED
        BY <1>0, <1>5, <3>1, <3>2, <4>1 DEF UpsertPayment, KeyedInv, Creating
    <3>3. \A o \in CardOrders :
            payment'[o].intent = IF o = req[p].order THEN req[p].intent ELSE payment[o].intent
      BY <1>0, <1>5 DEF UpsertPayment, PaymentsTypeOK, AllOrders
    <3>4. \A j \in secrets : intents[j].order \in CardOrders
      BY <1>0 DEF SecretsInv
    <3> QED
      BY <1>0, <3>1, <3>2, <3>3, <3>4 DEF RowHoldsPayableIntent
  <2>6. NoFalsePayment'
    BY <1>0, <1>5, RequestFacts DEF UpsertPayment, api, stripe, PaymentsTypeOK, NoFalsePayment, Charged, Goto
  <2> QED
    BY <1>0, <2>1, <2>2, <2>k, <2>3, <2>4, <2>5, <2>6 DEF PaymentsInv
<1>6. ASSUME NEW p \in Procs, ReturnSecret(p) PROVE PaymentsInv'
  <2>a. /\ req[p].order \in CardOrders /\ req[p].intent \in Intents
        /\ req[p].order \notin straddled => payment[req[p].order].intent = req[p].intent
    BY <1>0, <1>6, RequestFacts DEF ReturnSecret, KeyedInv, Creating
  <2>b. intents[req[p].intent].order = req[p].order /\ intents[req[p].intent].state # "unused"
    BY <1>6, RequestFacts DEF ReturnSecret
  <2>1. KeysInv'
    BY <1>0, <1>6 DEF ReturnSecret, api, stripe, KeysInv
  <2>2. CreatingInv'
    BY <1>0, <1>6, RequestFacts DEF ReturnSecret, api, stripe, PaymentsTypeOK, CreatingInv, Creating, Finish, Idle, Log
  <2>k. KeyedInv'
    BY <1>0, <1>6, RequestFacts DEF ReturnSecret, api, stripe, PaymentsTypeOK, KeyedInv, Creating, Finish, Idle, Log
  <2>3. HandlingInv'
    BY <1>0, <1>6, RequestFacts DEF ReturnSecret, api, stripe, PaymentsTypeOK, HandlingInv, Handling, EventOf, Finish, Idle, Log
  <2>4. CashInv'
    BY <1>0, <1>6, RequestFacts DEF ReturnSecret, api, stripe, PaymentsTypeOK, CashInv, Finish, Idle, Log
  <2>5. SecretsInv'
    BY <1>0, <1>6, <2>a, <2>b DEF ReturnSecret, stripe, SecretsInv
  <2>6. PaidInv'
    BY <1>0, <1>6, RequestFacts DEF ReturnSecret, api, stripe, PaymentsTypeOK, PaidInv, Finish, Idle, Log
  <2>7. SentInv'
    BY <1>0, <1>6, RequestFacts DEF ReturnSecret, api, stripe, PaymentsTypeOK, SentInv, Charged, Finish, Idle, Log
  <2>8. RowHoldsPayableIntent'
    BY <1>0, <1>6, <2>a, <2>b DEF ReturnSecret, stripe, RowHoldsPayableIntent
  <2>9. NoFalsePayment'
    BY <1>0, <1>6, RequestFacts DEF ReturnSecret, api, stripe, PaymentsTypeOK, NoFalsePayment, Charged, Finish, Idle, Log
  <2> QED
    BY <1>0, <2>1, <2>2, <2>k, <2>3, <2>4, <2>5, <2>6, <2>7, <2>8, <2>9 DEF PaymentsInv
<1>7. ASSUME NEW p \in Procs, RecordCash(p) PROVE PaymentsInv'
  <2>1. KeysInv' /\ SecretsInv' /\ PaidInv' /\ SentInv' /\ RowHoldsPayableIntent'
    BY <1>0, <1>7 DEF RecordCash, api, stripe, KeysInv, SecretsInv, PaidInv, SentInv, RowHoldsPayableIntent, Charged
  <2>2. CreatingInv'
    BY <1>0, <1>7, RequestFacts DEF RecordCash, api, stripe, PaymentsTypeOK, CreatingInv, Creating, Finish, Idle, Log
  <2>k. KeyedInv'
    BY <1>0, <1>7, RequestFacts DEF RecordCash, api, stripe, PaymentsTypeOK, KeyedInv, Creating, Finish, Idle, Log
  <2>3. HandlingInv'
    BY <1>0, <1>7, RequestFacts DEF RecordCash, api, stripe, PaymentsTypeOK, HandlingInv, Handling, EventOf, Finish, Idle, Log
  <2>4. CashInv'
    BY <1>0, <1>7, RequestFacts DEF RecordCash, api, stripe, PaymentsTypeOK, CashInv, Finish, Idle, Log
  <2>5. NoFalsePayment'
    BY <1>0, <1>7, RequestFacts DEF RecordCash, api, stripe, PaymentsTypeOK, NoFalsePayment, Charged, Finish, Idle, Log
  <2> QED
    BY <1>0, <2>1, <2>2, <2>k, <2>3, <2>4, <2>5 DEF PaymentsInv
<1>8. ASSUME NEW p \in Procs, ApplyEvent(p) PROVE PaymentsInv'
  <2>a. /\ req[p].intent \in Intents /\ req[p].order \in CardOrders
        /\ intents[req[p].intent].order = req[p].order /\ req[p].kind \in Kind
    BY <1>8, RequestFacts DEF ApplyEvent, Handling, Request
  <2>b. /\ req[p].kind = "succeeded" => Charged(req[p].intent)
        /\ req[p].kind = "refunded" => intents[req[p].intent].state = "refunded"
    <3>1. EventOf(p) \in sent
      BY <1>8, RequestFacts DEF ApplyEvent, Handling
    <3> QED
      BY <1>0, <3>1 DEF SentInv, EventOf
  <2>1. KeysInv' /\ SecretsInv' /\ PaidInv' /\ SentInv'
    BY <1>0, <1>8 DEF ApplyEvent, api, stripe, KeysInv, SecretsInv, PaidInv, SentInv, Charged
  <2>2. CreatingInv'
    BY <1>0, <1>8, RequestFacts DEF ApplyEvent, api, stripe, PaymentsTypeOK, CreatingInv, Creating, Goto, NewStatus, Kind
  <2>k. KeyedInv'
    BY <1>0, <1>8, RequestFacts DEF ApplyEvent, api, stripe, PaymentsTypeOK, KeyedInv, Creating, Goto, NewStatus, Kind
  <2>3. HandlingInv'
    BY <1>0, <1>8, RequestFacts DEF ApplyEvent, api, stripe, PaymentsTypeOK, HandlingInv, Handling, EventOf, Goto, NewStatus, Kind
  <2>4. CashInv'
    BY <1>0, <1>8, RequestFacts DEF ApplyEvent, api, stripe, PaymentsTypeOK, CashInv, Goto, NewStatus, Kind
  <2>5. RowHoldsPayableIntent'
    BY <1>0, <1>8, RequestFacts DEF ApplyEvent, api, stripe, PaymentsTypeOK, RowHoldsPayableIntent, Goto, NewStatus, Kind
  <2>6. NoFalsePayment'
    <3>1. log' = log /\ told' = told /\ intents' = intents
      BY <1>8 DEF ApplyEvent, stripe
    <3>2. \A o \in CardOrders :
            \/ payment'[o].status = payment[o].status
            \/ o = req[p].order /\ payment'[o].status = NewStatus[req[p].kind]
      BY <1>0, <1>8 DEF ApplyEvent, PaymentsTypeOK, AllOrders, PaymentRow
    <3>3. /\ NewStatus[req[p].kind] = "CAPTURED" => req[p].kind = "succeeded"
          /\ NewStatus[req[p].kind] = "REFUNDED" => req[p].kind = "refunded"
      BY <2>a DEF NewStatus, Kind
    <3> QED
      BY <1>0, <2>a, <2>b, <3>1, <3>2, <3>3 DEF NoFalsePayment, Charged
  <2> QED
    BY <1>0, <2>1, <2>2, <2>k, <2>3, <2>4, <2>5, <2>6 DEF PaymentsInv
<1>9. ASSUME NEW p \in Procs, RecordEvent(p) PROVE PaymentsInv'
  <2>a. /\ req[p].intent \in Intents /\ req[p].order \in CardOrders
        /\ intents[req[p].intent].order = req[p].order /\ req[p].kind \in Kind
    BY <1>9, RequestFacts DEF RecordEvent, Handling, Request
  <2>b. /\ req[p].kind = "succeeded" => Charged(req[p].intent)
        /\ req[p].kind = "refunded" => intents[req[p].intent].state = "refunded"
    <3>1. EventOf(p) \in sent
      BY <1>9, RequestFacts DEF RecordEvent, Handling
    <3> QED
      BY <1>0, <3>1 DEF SentInv, EventOf
  <2>1. KeysInv' /\ SecretsInv' /\ PaidInv' /\ SentInv' /\ RowHoldsPayableIntent'
    BY <1>0, <1>9 DEF RecordEvent, api, stripe, KeysInv, SecretsInv, PaidInv, SentInv, RowHoldsPayableIntent, Charged
  <2>2. CreatingInv'
    BY <1>0, <1>9, RequestFacts DEF RecordEvent, api, stripe, PaymentsTypeOK, CreatingInv, Creating, Goto, Log
  <2>k. KeyedInv'
    BY <1>0, <1>9, RequestFacts DEF RecordEvent, api, stripe, PaymentsTypeOK, KeyedInv, Creating, Goto, Log
  <2>3. HandlingInv'
    BY <1>0, <1>9, RequestFacts DEF RecordEvent, api, stripe, PaymentsTypeOK, HandlingInv, Handling, EventOf, Goto, Log
  <2>4. CashInv'
    BY <1>0, <1>9, RequestFacts DEF RecordEvent, api, stripe, PaymentsTypeOK, CashInv, Goto, Log
  <2>5. NoFalsePayment'
    <3>1. payment' = payment /\ intents' = intents
      BY <1>9 DEF RecordEvent, stripe
    <3>2. \A o \in CardOrders : \A k :
            k \in log'[o] => k \in log[o] \/ (o = req[p].order /\ k = req[p].kind)
      BY <1>0, <1>9 DEF RecordEvent, Log, PaymentsTypeOK, AllOrders
    <3>3. \A o \in told' : o \in told \/ (o = req[p].order /\ req[p].kind = "succeeded")
      BY <1>9 DEF RecordEvent
    <3> QED
      BY <1>0, <2>a, <2>b, <3>1, <3>2, <3>3 DEF NoFalsePayment, Charged
  <2> QED
    BY <1>0, <2>1, <2>2, <2>k, <2>3, <2>4, <2>5 DEF PaymentsInv
<1>10. ASSUME NEW p \in Procs, Mark(p) PROVE PaymentsInv'
  <2>1. KeysInv' /\ SecretsInv' /\ PaidInv' /\ SentInv' /\ RowHoldsPayableIntent' /\ NoFalsePayment'
    BY <1>0, <1>10 DEF Mark, api, stripe, KeysInv, SecretsInv, PaidInv, SentInv, RowHoldsPayableIntent, NoFalsePayment, Charged
  <2>2. CreatingInv'
    BY <1>0, <1>10, RequestFacts DEF Mark, api, stripe, PaymentsTypeOK, CreatingInv, Creating, Finish, Idle
  <2>k. KeyedInv'
    BY <1>0, <1>10, RequestFacts DEF Mark, api, stripe, PaymentsTypeOK, KeyedInv, Creating, Finish, Idle
  <2>3. HandlingInv'
    BY <1>0, <1>10, RequestFacts DEF Mark, api, stripe, PaymentsTypeOK, HandlingInv, Handling, EventOf, Finish, Idle
  <2>4. CashInv'
    BY <1>0, <1>10, RequestFacts DEF Mark, api, stripe, PaymentsTypeOK, CashInv, Finish, Idle
  <2> QED
    BY <1>0, <2>1, <2>2, <2>k, <2>3, <2>4 DEF PaymentsInv
<1>11. ASSUME NEW p \in Procs, Fail(p) PROVE PaymentsInv'
  <2>1. KeysInv' /\ SecretsInv' /\ PaidInv' /\ SentInv' /\ RowHoldsPayableIntent' /\ NoFalsePayment'
    BY <1>0, <1>11 DEF Fail, api, stripe, KeysInv, SecretsInv, PaidInv, SentInv, RowHoldsPayableIntent, NoFalsePayment, Charged
  <2>2. CreatingInv'
    BY <1>0, <1>11, RequestFacts DEF Fail, api, stripe, PaymentsTypeOK, CreatingInv, Creating, Finish, Idle
  <2>k. KeyedInv'
    BY <1>0, <1>11, RequestFacts DEF Fail, api, stripe, PaymentsTypeOK, KeyedInv, Creating, Finish, Idle
  <2>3. HandlingInv'
    BY <1>0, <1>11, RequestFacts DEF Fail, api, stripe, PaymentsTypeOK, HandlingInv, Handling, EventOf, Finish, Idle
  <2>4. CashInv'
    BY <1>0, <1>11, RequestFacts DEF Fail, api, stripe, PaymentsTypeOK, CashInv, Finish, Idle
  <2> QED
    BY <1>0, <2>1, <2>2, <2>k, <2>3, <2>4 DEF PaymentsInv
<1>12. ASSUME NEW p \in Procs, EventError(p) PROVE PaymentsInv'
  <2>1. KeysInv' /\ SecretsInv' /\ PaidInv' /\ SentInv' /\ RowHoldsPayableIntent' /\ NoFalsePayment'
    BY <1>0, <1>12 DEF EventError, api, stripe, KeysInv, SecretsInv, PaidInv, SentInv, RowHoldsPayableIntent, NoFalsePayment, Charged
  <2>2. CreatingInv'
    BY <1>0, <1>12, RequestFacts DEF EventError, api, stripe, PaymentsTypeOK, CreatingInv, Creating
  <2>k. KeyedInv'
    BY <1>0, <1>12, RequestFacts DEF EventError, api, stripe, PaymentsTypeOK, KeyedInv, Creating
  <2>3. HandlingInv'
    BY <1>0, <1>12, RequestFacts DEF EventError, api, stripe, PaymentsTypeOK, HandlingInv, Handling, EventOf
  <2>4. CashInv'
    BY <1>0, <1>12, RequestFacts DEF EventError, api, stripe, PaymentsTypeOK, CashInv
  <2> QED
    BY <1>0, <2>1, <2>2, <2>k, <2>3, <2>4 DEF PaymentsInv
<1>13. ASSUME Crash PROVE PaymentsInv'
  <2>1. KeysInv' /\ SecretsInv' /\ PaidInv' /\ SentInv' /\ RowHoldsPayableIntent' /\ NoFalsePayment'
    BY <1>0, <1>13 DEF Crash, api, stripe, KeysInv, SecretsInv, PaidInv, SentInv, RowHoldsPayableIntent, NoFalsePayment, Charged
  <2>2. CreatingInv'
    BY <1>0, <1>13 DEF Crash, api, stripe, PaymentsTypeOK, CreatingInv, Creating, Idle
  <2>k. KeyedInv'
    BY <1>0, <1>13 DEF Crash, api, stripe, PaymentsTypeOK, KeyedInv, Creating, Idle
  <2>3. HandlingInv'
    BY <1>0, <1>13 DEF Crash, api, stripe, PaymentsTypeOK, HandlingInv, Handling, EventOf, Idle
  <2>4. CashInv'
    BY <1>0, <1>13 DEF Crash, api, stripe, PaymentsTypeOK, CashInv, Idle
  <2> QED
    BY <1>0, <2>1, <2>2, <2>k, <2>3, <2>4 DEF PaymentsInv
<1>14. ASSUME NEW i \in Intents, Pay(i) PROVE PaymentsInv'
  <2>1. KeyedInv' /\ CashInv'
    BY <1>0, <1>14 DEF Pay, Settle, api, stripe, KeyedInv, CashInv, Creating
  <2>c. CreatingInv'
    BY <1>0, <1>14 DEF Pay, Settle, api, stripe, PaymentsTypeOK, CreatingInv, Creating
  <2>2. HandlingInv'
    BY <1>0, <1>14 DEF Pay, api, stripe, PaymentsTypeOK, HandlingInv, Handling, EventOf, Settle, Emit
  <2>3. KeysInv'
    BY <1>0, <1>14 DEF Pay, api, stripe, PaymentsTypeOK, KeysInv, Settle, Emit
  <2>4. SecretsInv'
    BY <1>0, <1>14 DEF Pay, api, stripe, PaymentsTypeOK, SecretsInv, Settle, Emit
  <2>5. PaidInv'
    BY <1>0, <1>14 DEF Pay, api, stripe, PaymentsTypeOK, PaidInv, Settle, Emit
  <2>6. SentInv'
    BY <1>0, <1>14 DEF Pay, api, stripe, PaymentsTypeOK, SentInv, Charged, Settle, Emit
  <2>7. RowHoldsPayableIntent'
    BY <1>0, <1>14 DEF Pay, api, stripe, PaymentsTypeOK, RowHoldsPayableIntent, Settle, Emit
  <2>8. NoFalsePayment'
    BY <1>0, <1>14 DEF Pay, api, stripe, PaymentsTypeOK, NoFalsePayment, Charged, Settle, Emit
  <2> QED
    BY <1>0, <2>1, <2>c, <2>2, <2>3, <2>4, <2>5, <2>6, <2>7, <2>8 DEF PaymentsInv
<1>15. ASSUME NEW i \in Intents, Decline(i) PROVE PaymentsInv'
  <2>1. KeyedInv' /\ CashInv'
    BY <1>0, <1>15 DEF Decline, Settle, api, stripe, KeyedInv, CashInv, Creating
  <2>c. CreatingInv'
    BY <1>0, <1>15 DEF Decline, Settle, api, stripe, PaymentsTypeOK, CreatingInv, Creating
  <2>2. HandlingInv'
    BY <1>0, <1>15 DEF Decline, api, stripe, PaymentsTypeOK, HandlingInv, Handling, EventOf, Settle, Emit
  <2>3. KeysInv'
    BY <1>0, <1>15 DEF Decline, api, stripe, PaymentsTypeOK, KeysInv, Settle, Emit
  <2>4. SecretsInv'
    BY <1>0, <1>15 DEF Decline, api, stripe, PaymentsTypeOK, SecretsInv, Settle, Emit
  <2>5. PaidInv'
    BY <1>0, <1>15 DEF Decline, api, stripe, PaymentsTypeOK, PaidInv, Settle, Emit
  <2>6. SentInv'
    BY <1>0, <1>15 DEF Decline, api, stripe, PaymentsTypeOK, SentInv, Charged, Settle, Emit
  <2>7. RowHoldsPayableIntent'
    BY <1>0, <1>15 DEF Decline, api, stripe, PaymentsTypeOK, RowHoldsPayableIntent, Settle, Emit
  <2>8. NoFalsePayment'
    BY <1>0, <1>15 DEF Decline, api, stripe, PaymentsTypeOK, NoFalsePayment, Charged, Settle, Emit
  <2> QED
    BY <1>0, <2>1, <2>c, <2>2, <2>3, <2>4, <2>5, <2>6, <2>7, <2>8 DEF PaymentsInv
<1>16. ASSUME NEW i \in Intents, Refund(i) PROVE PaymentsInv'
  <2>1. KeyedInv' /\ CashInv'
    BY <1>0, <1>16 DEF Refund, Settle, api, stripe, KeyedInv, CashInv, Creating
  <2>c. CreatingInv'
    BY <1>0, <1>16 DEF Refund, Settle, api, stripe, PaymentsTypeOK, CreatingInv, Creating
  <2>2. HandlingInv'
    BY <1>0, <1>16 DEF Refund, api, stripe, PaymentsTypeOK, HandlingInv, Handling, EventOf, Settle, Emit
  <2>3. KeysInv'
    BY <1>0, <1>16 DEF Refund, api, stripe, PaymentsTypeOK, KeysInv, Settle, Emit
  <2>4. SecretsInv'
    BY <1>0, <1>16 DEF Refund, api, stripe, PaymentsTypeOK, SecretsInv, Settle, Emit
  <2>5. PaidInv'
    BY <1>0, <1>16 DEF Refund, api, stripe, PaymentsTypeOK, PaidInv, Settle, Emit
  <2>6. SentInv'
    <3>1. i \in secrets /\ secrets' = secrets
      BY <1>0, <1>16 DEF Refund, Settle, api, PaidInv
    <3>2. intents' = [intents EXCEPT ![i].state = "refunded"]
      BY <1>16 DEF Refund, Settle
    <3>3. intents'[i].state = "refunded" /\ \A j \in Intents : j # i => intents'[j] = intents[j]
      BY <1>0, <3>2 DEF PaymentsTypeOK
    <3>4. sent' = sent \cup {[intent |-> i, kind |-> "refunded"]}
      BY <1>16 DEF Refund, Settle, Emit
    <3>5. \A e \in sent : e.intent \in Intents
      BY <1>0 DEF PaymentsTypeOK, WebhookEvent
    <3> QED
      BY <1>0, <3>1, <3>3, <3>4, <3>5 DEF SentInv, Charged
  <2>7. RowHoldsPayableIntent'
    BY <1>0, <1>16 DEF Refund, api, stripe, PaymentsTypeOK, RowHoldsPayableIntent, Settle, Emit
  <2>8. NoFalsePayment'
    BY <1>0, <1>16 DEF Refund, api, stripe, PaymentsTypeOK, NoFalsePayment, Charged, Settle, Emit
  <2> QED
    BY <1>0, <2>1, <2>c, <2>2, <2>3, <2>4, <2>5, <2>6, <2>7, <2>8 DEF PaymentsInv
<1>17. ASSUME NEW o \in CardOrders, ForgetKey(o) PROVE PaymentsInv'
  <2>1. HandlingInv' /\ CashInv' /\ SecretsInv' /\ PaidInv' /\ SentInv' /\ RowHoldsPayableIntent' /\ NoFalsePayment'
    BY <1>0, <1>17 DEF ForgetKey, api, HandlingInv, CashInv, SecretsInv, PaidInv, SentInv, RowHoldsPayableIntent, NoFalsePayment, Charged, EventOf, Handling
  <2>2. CreatingInv'
    BY <1>0, <1>17 DEF ForgetKey, api, stripe, PaymentsTypeOK, CreatingInv, Creating
  <2>k. KeyedInv'
    BY <1>0, <1>17 DEF ForgetKey, api, stripe, PaymentsTypeOK, KeyedInv, Creating
  <2>3. KeysInv'
    BY <1>0, <1>17 DEF ForgetKey, api, stripe, PaymentsTypeOK, KeysInv
  <2> QED
    BY <1>0, <2>1, <2>2, <2>k, <2>3 DEF PaymentsInv
<1>18. CASE UNCHANGED paymentVars
  BY <1>0, <1>18 DEF PaymentsInv, paymentVars, PaymentsTypeOK, Creating, Handling, EventOf, Charged, CreatingInv, KeyedInv, HandlingInv, CashInv, KeysInv, SecretsInv, PaidInv, SentInv, RowHoldsPayableIntent, NoFalsePayment
<1>19. QED
  BY <1>1, <1>2, <1>3, <1>4, <1>5, <1>6, <1>7, <1>8, <1>9, <1>10, <1>11, <1>12, <1>13, <1>14, <1>15, <1>16, <1>17, <1>18 DEF Next, Run

(* The payment tables, Stripe and the requests keep their shape under any  *)
(* interleaving, error and crash.                                          *)
THEOREM PaymentsTypeCorrect == Spec => []PaymentsTypeOK
<1>1. PaymentsInv => PaymentsTypeOK
  BY DEF PaymentsInv
<1> QED
  BY PaymentsInit, PaymentsStep, <1>1, PTL DEF Spec

(* No order is charged twice, however many clients ask for an intent at    *)
(* once, unless Stripe forgets its key while one of them is asking.        *)
THEOREM ChargeCorrect == Spec => []ChargedOnce
<1>1. PaymentsInv => ChargedOnce
  <2>1. PaymentsInv => \A i \in Intents : Charged(i) => i \in secrets
    BY DEF PaymentsInv, PaidInv, Charged
  <2> QED
    BY <2>1 DEF PaymentsInv, RowHoldsPayableIntent, ChargedOnce
<1> QED
  BY PaymentsInit, PaymentsStep, <1>1, PTL DEF Spec

(* The row of an order points to the intent whose secret its client has,   *)
(* which is why there is no other to charge; with the same exception.      *)
THEOREM PayableCorrect == Spec => []RowHoldsPayableIntent
<1>1. PaymentsInv => RowHoldsPayableIntent
  BY DEF PaymentsInv
<1> QED
  BY PaymentsInit, PaymentsStep, <1>1, PTL DEF Spec

(* Row, log and room never claim a payment or a refund Stripe did not      *)
(* make, with webhooks late, repeated and out of order.                    *)
THEOREM LedgerCorrect == Spec => []NoFalsePayment
<1>1. PaymentsInv => NoFalsePayment
  BY DEF PaymentsInv
<1> QED
  BY PaymentsInit, PaymentsStep, <1>1, PTL DEF Spec
================================================================================
