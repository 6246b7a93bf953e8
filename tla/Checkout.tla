-------------------------------- MODULE Checkout --------------------------------
(***************************************************************************)
(* POST /orders, from the rate limit to the stored response, while         *)
(* managers edit what it reads.  A request passes RateLimitGuard, then     *)
(* IdempotencyInterceptor when it has a key, then OrdersService.create,    *)
(* which prices the order with PricingService.  There is a step per query; *)
(* any of them may fail, or find its process dead.                         *)
(***************************************************************************)
EXTENDS PriceBook

CONSTANTS
  Requests,    \* what the API can have in flight at once
  Keys, NoKey, \* Idempotency-Keys
  Bodies,      \* request bodies; a hash stands for its body
  NoBody,
  Sent,        \* what clients send: keys, or none, with bodies
  Distance,    \* metres from the pickup to a point
  Limit,       \* requests in a window of the order-create bucket
  MaxOrders    \* bound: orders ever made

(* createOrderSchema: quantities of products, where to, and for when.       *)
ValidBody(b) ==
  /\ DOMAIN b.items \subseteq Products /\ DOMAIN b.items # {} /\ IsFiniteSet(DOMAIN b.items)
  /\ \A x \in DOMAIN b.items : b.items[x] \in 1 .. 99
  /\ b.point \in Points
  /\ b.at \in [day : 0 .. 6, minute : 0 .. 1439]

ASSUME CheckoutAssumption ==
  /\ NoKey \notin Keys /\ NoBody \notin Bodies
  /\ Distance \in [Points -> Nat]
  /\ \A b \in Bodies : ValidBody(b)
  /\ Sent \subseteq (Keys \cup {NoKey}) \X Bodies
  /\ Limit \in Nat \ {0} /\ MaxOrders \in Nat

VARIABLES
  req,         \* the requests in flight
  keyRows,     \* idempotency_keys; order 0 is a NULL responseBody
  locks,       \* Redis: keys that are locked
  window,      \* Redis: the counter of the one client address there is
  orders,      \* the orders made; with each, what it was made of
  answers      \* what clients that sent a key were answered

webVars == <<req, keyRows, locks, window, orders, answers>>
checkoutVars == <<bookVars, webVars>>

OrderIds == 1 .. MaxOrders

Pc == {"idle", "expire", "lookup", "lock", "insert", "products", "zone", "rule", "commit",
       "respond", "stored", "told"}

KeyRow == [body : Bodies \cup {NoBody}, order : 0 .. MaxOrders]
NoRow == [body |-> NoBody, order |-> 0]
NoWindow == [count |-> 0, expires |-> FALSE]
Idle == [pc |-> "idle", key |-> NoKey, body |-> NoBody, subtotal |-> 0, zone |-> NoZone,
         snapshot |-> FreeOfCharge(0), order |-> 0]

Goto(p, pc) == req' = [req EXCEPT ![p].pc = pc]
Finish(p) == req' = [req EXCEPT ![p] = Idle]

Answer(k, b, o) ==
  answers' = IF k = NoKey THEN answers
             ELSE answers \cup {[key |-> k, body |-> b, order |-> o]}

--------------------------------------------------------------------------------
(* RateLimitGuard and RedisService.rateLimit: INCR, and EXPIRE for the     *)
(* first.  One over the limit is refused; how far over is not counted.     *)
(* The mutant lets the second set the expiry.                              *)
Interceptor(k) == IF k = NoKey THEN "products" ELSE "lookup"

ArriveLate(p, k, b) ==
  /\ req[p] = Idle
  /\ window.count < Limit
  /\ window' = [window EXCEPT !.count = @ + 1]
  /\ req' = [req EXCEPT ![p] = [Idle EXCEPT !.key = k, !.body = b,
                                  !.pc = IF window.count = 1 THEN "expire" ELSE Interceptor(k)]]
  /\ UNCHANGED <<bookVars, keyRows, locks, orders, answers>>

Arrive(p, k, b) ==
  /\ req[p] = Idle
  /\ window.count < Limit
  /\ window' = [window EXCEPT !.count = @ + 1]
  /\ req' = [req EXCEPT ![p] = [Idle EXCEPT !.key = k, !.body = b,
                                  !.pc = IF window.count = 0 THEN "expire" ELSE Interceptor(k)]]
  /\ UNCHANGED <<bookVars, keyRows, locks, orders, answers>>

Expire(p) ==
  /\ req[p].pc = "expire"
  /\ window' = [window EXCEPT !.expires = window.count > 0]
  /\ Goto(p, Interceptor(req[p].key))
  /\ UNCHANGED <<bookVars, keyRows, locks, orders, answers>>

WindowEnds ==
  /\ window.expires
  /\ window' = NoWindow
  /\ UNCHANGED <<bookVars, req, keyRows, locks, orders, answers>>

--------------------------------------------------------------------------------
(* IdempotencyInterceptor.prepare.  A row with another body, or without a  *)
(* response, is a conflict.  The mutant runs the handler again for a row   *)
(* without a response.                                                     *)
LookUpAgain(p) ==
  LET row == keyRows[req[p].key] IN
  /\ req[p].pc = "lookup"
  /\ \/ row = NoRow /\ Goto(p, "lock")
     \/ row.body = req[p].body /\ row.order = 0 /\ Goto(p, "products")
     \/ row # NoRow /\ row.body # req[p].body /\ Finish(p)
  /\ UNCHANGED <<bookVars, keyRows, locks, window, orders, answers>>

LookUp(p) ==
  LET row == keyRows[req[p].key] IN
  /\ req[p].pc = "lookup"
  /\ \/ row = NoRow /\ Goto(p, "lock")
     \/ row # NoRow /\ (row.body # req[p].body \/ row.order = 0) /\ Finish(p)
  /\ UNCHANGED <<bookVars, keyRows, locks, window, orders, answers>>

Replay(p) ==
  LET row == keyRows[req[p].key] IN
  /\ req[p].pc = "lookup"
  /\ row.body = req[p].body /\ row.order # 0
  /\ Answer(req[p].key, req[p].body, row.order)
  /\ Finish(p)
  /\ UNCHANGED <<bookVars, keyRows, locks, window, orders>>

(* SET NX: a lock that is taken is a conflict. *)
AcquireLock(p) ==
  /\ req[p].pc = "lock"
  /\ IF req[p].key \in locks THEN Finish(p) ELSE Goto(p, "insert")
  /\ locks' = locks \cup {req[p].key}
  /\ UNCHANGED <<bookVars, keyRows, window, orders, answers>>

(* Nothing deletes it; it has a time to live of a day, or Redis loses it.  *)
LockEnds(k) ==
  /\ k \in locks
  /\ locks' = locks \ {k}
  /\ UNCHANGED <<bookVars, req, keyRows, window, orders, answers>>

(* The row is unique by key. *)
InsertKey(p) ==
  LET r == req[p] IN
  /\ r.pc = "insert"
  /\ IF keyRows[r.key] = NoRow
     THEN Goto(p, "products") /\ keyRows' = [keyRows EXCEPT ![r.key] = [NoRow EXCEPT !.body = r.body]]
     ELSE Finish(p) /\ UNCHANGED keyRows
  /\ UNCHANGED <<bookVars, locks, window, orders, answers>>

--------------------------------------------------------------------------------
(* OrdersService.create and PricingService.quote.  The body is validated   *)
(* here, after the interceptor, so a refusal leaves a row behind.          *)
Subtotal(items) ==
  MapThenSumSet(LAMBDA x : products[x].priceMinor * items[x], DOMAIN items)

ReadProducts(p) ==
  LET items == req[p].body.items IN
  /\ req[p].pc = "products"
  /\ IF \A x \in DOMAIN items : products[x].isAvailable
     THEN req' = [req EXCEPT ![p].pc = "zone", ![p].subtotal = Subtotal(items)]
     ELSE Finish(p)
  /\ UNCHANGED <<bookVars, keyRows, locks, window, orders, answers>>

FindZone(p) ==
  /\ req[p].pc = "zone"
  /\ \E z \in ZonesForPoint(req[p].body.point) :
       req' = [req EXCEPT ![p].pc = "rule", ![p].zone = z]
  /\ UNCHANGED <<bookVars, keyRows, locks, window, orders, answers>>

Quote(r) ==
  LET id == IF r.zone = NoZone THEN 0 ELSE RuleOfZone(r.zone)
  IN IF id = 0 THEN FreeOfCharge(r.subtotal)
     ELSE ComputePricing(id, rules[id].terms, r.subtotal, Distance[r.body.point], r.body.at)

ReadRule(p) ==
  LET snapshot == Quote(req[p]) IN
  /\ req[p].pc = "rule"
  /\ IF snapshot.minOrderMet
     THEN req' = [req EXCEPT ![p].pc = "commit", ![p].snapshot = snapshot]
     ELSE Finish(p)
  /\ UNCHANGED <<bookVars, keyRows, locks, window, orders, answers>>

(* The transaction: order, items and events. *)
CommitOrder(p) ==
  LET r == req[p] IN
  /\ r.pc = "commit"
  /\ Len(orders) < MaxOrders
  /\ orders' = Append(orders, [key |-> r.key, body |-> r.body, zoneId |-> r.zone,
                               subtotalMinor |-> r.subtotal, pricing |-> r.snapshot,
                               totalMinor |-> r.snapshot.totalMinor])
  /\ req' = [req EXCEPT ![p].pc = "respond", ![p].order = Len(orders) + 1]
  /\ UNCHANGED <<bookVars, keyRows, locks, window, answers>>

--------------------------------------------------------------------------------
(* The response and, nobody waiting for it, IdempotencyInterceptor.persist: *)
(* they come in either order.  The mutant answers and stores nothing.      *)
RespondOnly(p) ==
  LET r == req[p] IN
  /\ r.pc \in {"respond", "stored"}
  /\ Answer(r.key, r.body, r.order)
  /\ Finish(p)
  /\ UNCHANGED <<bookVars, keyRows, locks, window, orders>>

Respond(p) ==
  LET r == req[p] IN
  /\ r.pc \in {"respond", "stored"}
  /\ Answer(r.key, r.body, r.order)
  /\ IF r.pc = "stored" \/ r.key = NoKey THEN Finish(p) ELSE Goto(p, "told")
  /\ UNCHANGED <<bookVars, keyRows, locks, window, orders>>

Persist(p) ==
  LET r == req[p] IN
  /\ r.pc \in {"respond", "told"} /\ r.key # NoKey
  /\ keyRows' = [keyRows EXCEPT ![r.key].order = r.order]
  /\ IF r.pc = "told" THEN Finish(p) ELSE Goto(p, "stored")
  /\ UNCHANGED <<bookVars, locks, window, orders, answers>>

(* A query fails, or the process dies.  What Redis and PostgreSQL have     *)
(* stays; a failed persist is an unhandled rejection, which is the second. *)
Fail(p) ==
  /\ req[p] # Idle
  /\ Finish(p)
  /\ UNCHANGED <<bookVars, keyRows, locks, window, orders, answers>>

--------------------------------------------------------------------------------
Init ==
  /\ BookInit
  /\ req = [p \in Requests |-> Idle]
  /\ keyRows = [k \in Keys |-> NoRow]
  /\ locks = {}
  /\ window = NoWindow
  /\ orders = <<>>
  /\ answers = {}

Step(p) ==
  \/ Expire(p) \/ LookUp(p) \/ Replay(p) \/ AcquireLock(p) \/ InsertKey(p)
  \/ ReadProducts(p) \/ FindZone(p) \/ ReadRule(p) \/ CommitOrder(p)
  \/ Respond(p) \/ Persist(p) \/ Fail(p)

Next ==
  \/ \E p \in Requests : Step(p) \/ \E s \in Sent : Arrive(p, s[1], s[2])
  \/ WindowEnds
  \/ \E k \in Keys : LockEnds(k)
  \/ BookNext /\ UNCHANGED webVars

Spec == Init /\ [][Next]_checkoutVars
================================================================================
