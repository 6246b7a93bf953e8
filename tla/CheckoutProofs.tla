----------------------------- MODULE CheckoutProofs -----------------------------
(***************************************************************************)
(* Proofs about Checkout, for any number of requests, keys, bodies and     *)
(* managers: the pipeline from the rate limit to the stored response       *)
(* implements OncePerKey, whatever fails and whatever Redis loses; orders  *)
(* stay replayable; totals are what their snapshots add up to; counters    *)
(* keep their expiry, and the area of a zone its polygon.                  *)
(***************************************************************************)
EXTENDS CheckoutRequirements, SequenceTheorems, FiniteSetTheorems, WellFoundedInduction, TLAPS

(* Where a request is that has inserted its key.                           *)
Making == {"products", "zone", "rule", "commit"}
Done == {"respond", "stored", "told"}

Fields == {"pc", "key", "body", "subtotal", "zone", "snapshot", "order"}

(* What a request has of its own.  Sums and fees are left open: nothing    *)
(* about keys depends on them.                                             *)
RequestOK(r) ==
  /\ DOMAIN r = Fields
  /\ r.key \in Keys \cup {NoKey}
  /\ r.pc # "idle" => r.body \in Bodies
  /\ r.pc \in {"lookup", "lock", "insert", "stored", "told"} => r.key # NoKey

(* A request behind InsertKey has its key for itself: the row is of its    *)
(* body, and the key's order is still to be made, or is its own.           *)
Owns(p) ==
  LET r == req[p] IN
  r.key # NoKey /\ r.pc \in Making \cup Done =>
    /\ keyRows[r.key].body = r.body
    /\ \A q \in Requests \ {p} : req[q].key = r.key => req[q].pc \notin Making \cup Done
    /\ r.pc \in Making => Made(r.key) = {}
    /\ r.pc \in Done => [body |-> r.body, order |-> r.order] \in Made(r.key)

(* A key without a row has made nothing; a stored response is of an order  *)
(* that was made with the key, of the body in the row.                     *)
RowOK(k) ==
  /\ keyRows[k].body = NoBody => Made(k) = {}
  /\ keyRows[k].order # 0 =>
       [body |-> keyRows[k].body, order |-> keyRows[k].order] \in Made(k)

OrdersOK ==
  /\ \E S : orders \in Seq(S)
  /\ Len(orders) <= MaxOrders
  /\ \A i \in DOMAIN orders : orders[i].body \in Bodies

KeyInv ==
  /\ req = [p \in Requests |-> req[p]] /\ \A p \in Requests : RequestOK(req[p])
  /\ keyRows \in [Keys -> KeyRow]
  /\ OrdersOK
  /\ \A p \in Requests : Owns(p)
  /\ \A k \in Keys : RowOK(k)

--------------------------------------------------------------------------------
(* A row that exists has a body. *)
LEMMA RowShape ==
  ASSUME KeyInv, NEW k \in Keys
  PROVE  /\ keyRows[k] \in KeyRow
         /\ keyRows[k].body = NoBody => keyRows[k] = NoRow \/ keyRows[k].order # 0
  BY DEF KeyInv, KeyRow, NoRow

LEMMA IdleOK == RequestOK(Idle) /\ Idle.pc = "idle"
  BY DEF RequestOK, Idle, Fields

LEMMA KeysInitially == Init => KeyInv
<1> SUFFICES ASSUME Init PROVE KeyInv
  OBVIOUS
<1>1. \A p \in Requests : req[p] = Idle
  BY DEF Init
<1>2. orders = <<>> /\ DOMAIN orders = {} /\ Len(orders) = 0 /\ orders \in Seq({})
  BY DEF Init
<1>3. \A k : Made(k) = {}
  BY <1>2 DEF Made
<1>4. \A k \in Keys : keyRows[k] = NoRow
  BY DEF Init
<1>5. OrdersOK
  BY <1>2, CheckoutAssumption DEF OrdersOK
<1>6. keyRows \in [Keys -> KeyRow] /\ \A k \in Keys : RowOK(k)
  BY <1>3, <1>4, CheckoutAssumption DEF Init, NoRow, KeyRow, RowOK
<1>7. req = [p \in Requests |-> req[p]]
  BY DEF Init
<1> QED
  BY <1>1, <1>5, <1>6, <1>7, IdleOK DEF KeyInv, Owns, Making, Done

(* The orders made with each key, after one more is made.                  *)
LEMMA OneMore ==
  ASSUME OrdersOK, NEW o, orders' = Append(orders, o)
  PROVE  /\ \E S : orders' \in Seq(S)
         /\ Len(orders') = Len(orders) + 1 /\ Len(orders) \in Nat
         /\ DOMAIN orders' = DOMAIN orders \cup {Len(orders) + 1}
         /\ Len(orders) + 1 \notin DOMAIN orders
         /\ \A i \in DOMAIN orders : orders'[i] = orders[i]
         /\ orders'[Len(orders) + 1] = o
<1>1. PICK S : orders \in Seq(S)
  BY DEF OrdersOK
<1> DEFINE T == S \cup {o}
<1>2. orders \in Seq(T)
  BY <1>1
<1>3. /\ orders' \in Seq(T) /\ Len(orders') = Len(orders) + 1
      /\ \A i \in 1 .. Len(orders) : orders'[i] = orders[i]
      /\ orders'[Len(orders) + 1] = o
  BY <1>2, AppendProperties
<1>4. Len(orders) \in Nat /\ DOMAIN orders = 1 .. Len(orders)
  BY <1>2, LenProperties
<1>5. DOMAIN orders' = 1 .. Len(orders')
  BY <1>3, LenProperties
<1> QED
  BY <1>3, <1>4, <1>5

LEMMA RequestFacts ==
  ASSUME KeyInv, NEW p \in Requests
  PROVE  RequestOK(req[p]) /\ Owns(p) /\ p \in DOMAIN req
  BY DEF KeyInv

(* A request behind InsertKey has sent a body, and the key's row exists.    *)
LEMMA Owner ==
  ASSUME KeyInv, NEW q \in Requests, req[q].key # NoKey, req[q].pc \in Making \cup Done
  PROVE  /\ req[q].key \in Keys /\ req[q].body \in Bodies /\ req[q].body # NoBody
         /\ keyRows[req[q].key].body = req[q].body
         /\ \A x \in Requests \ {q} :
              req[x].key = req[q].key => req[x].pc \notin Making \cup Done
         /\ req[q].pc \in Making => Made(req[q].key) = {}
         /\ req[q].pc \in Done =>
              [body |-> req[q].body, order |-> req[q].order] \in Made(req[q].key)
<1>1. RequestOK(req[q]) /\ Owns(q)
  BY RequestFacts
<1>2. req[q].pc # "idle"
  BY DEF Making, Done
<1>3. req[q].key \in Keys /\ req[q].body \in Bodies /\ req[q].body # NoBody
  BY <1>1, <1>2, CheckoutAssumption DEF RequestOK
<1> QED
  BY <1>1, <1>3 DEF Owns

(* A step of p that makes nothing and changes no row's body: where it ends *)
(* behind InsertKey it was there before.                                   *)
LEMMA LocalStep ==
  ASSUME KeyInv, NEW p \in Requests, NEW r, RequestOK(r), req' = [req EXCEPT ![p] = r],
         orders' = orders, keyRows' \in [Keys -> KeyRow],
         \A k \in Keys : keyRows'[k].body = keyRows[k].body /\ RowOK(k)',
         \/ r.key = NoKey
         \/ r.pc \notin Making \cup Done
         \/ /\ r.key = req[p].key /\ r.body = req[p].body
            /\ \/ r.pc \in Making /\ req[p].pc \in Making
               \/ r.pc \in Done /\ req[p].pc \in Done /\ r.order = req[p].order
  PROVE  KeyInv'
<1>1. /\ req' = [q \in Requests |-> req'[q]]
      /\ \A q \in Requests : req'[q] = IF q = p THEN r ELSE req[q]
  BY DEF KeyInv
<1>2. OrdersOK' /\ \A k : Made(k)' = Made(k)
  BY DEF Made, KeyInv, OrdersOK
<1>3. ASSUME NEW q \in Requests PROVE Owns(q)'
  <2> SUFFICES ASSUME req'[q].key # NoKey, req'[q].pc \in Making \cup Done
               PROVE  /\ keyRows'[req'[q].key].body = req'[q].body
                      /\ \A x \in Requests \ {q} :
                           req'[x].key = req'[q].key => req'[x].pc \notin Making \cup Done
                      /\ req'[q].pc \in Making => Made(req'[q].key) = {}
                      /\ req'[q].pc \in Done =>
                           [body |-> req'[q].body, order |-> req'[q].order] \in Made(req'[q].key)
    BY <1>2 DEF Owns
  <2>1. /\ req'[q].key = req[q].key /\ req'[q].body = req[q].body
        /\ req[q].pc \in Making \cup Done
        /\ req'[q].pc \in Making => req[q].pc \in Making
        /\ req'[q].pc \in Done => req[q].pc \in Done /\ req'[q].order = req[q].order
    BY <1>1 DEF Making, Done
  <2>2. ASSUME NEW x \in Requests \ {q}, req'[x].key = req'[q].key,
               req'[x].pc \in Making \cup Done
        PROVE  FALSE
    <3>1. req[x].key = req[q].key /\ req[x].pc \in Making \cup Done
      BY <1>1, <2>1, <2>2
    <3> QED
      BY <2>1, <3>1, Owner
  <2> QED
    BY <2>1, <2>2, Owner
<1> QED
  BY <1>1, <1>2, <1>3 DEF KeyInv

LEMMA Local ==
  ASSUME KeyInv, NEW p \in Requests, NEW r, RequestOK(r), req' = [req EXCEPT ![p] = r],
         UNCHANGED <<orders, keyRows>>,
         \/ r.key = NoKey
         \/ r.pc \notin Making \cup Done
         \/ /\ r.key = req[p].key /\ r.body = req[p].body
            /\ \/ r.pc \in Making /\ req[p].pc \in Making
               \/ r.pc \in Done /\ req[p].pc \in Done /\ r.order = req[p].order
  PROVE  KeyInv'
<1>1. /\ orders' = orders /\ keyRows' \in [Keys -> KeyRow]
      /\ \A k \in Keys : keyRows'[k].body = keyRows[k].body /\ RowOK(k)'
  BY DEF KeyInv, RowOK, Made
<1> QED
  BY <1>1, LocalStep

LEMMA Arrivals ==
  ASSUME KeyInv, NEW p \in Requests, NEW s \in Sent, Arrive(p, s[1], s[2])
  PROVE  KeyInv'
<1> DEFINE pc == IF window.count = 0 THEN "expire" ELSE Interceptor(s[1])
           r == [Idle EXCEPT !.key = s[1], !.body = s[2], !.pc = pc]
<1>1. s[1] \in Keys \cup {NoKey} /\ s[2] \in Bodies
  BY CheckoutAssumption
<1>2. /\ pc \in {"expire", "products", "lookup"} /\ (pc = "products" => s[1] = NoKey)
      /\ (pc = "lookup" => s[1] # NoKey)
  BY DEF Interceptor
<1>3. req' = [req EXCEPT ![p] = r] /\ UNCHANGED <<orders, keyRows>>
  BY DEF Arrive
<1>4. RequestOK(r) /\ r.key = s[1] /\ r.pc = pc
  <2> HIDE DEF pc
  <2> QED
    BY <1>1, <1>2 DEF RequestOK, Idle, Fields
<1>5. r.key = NoKey \/ r.pc \notin Making \cup Done
  BY <1>2, <1>4 DEF Making, Done
<1> HIDE DEF r
<1> QED
  BY <1>3, <1>4, <1>5, Local

LEMMA Finishes ==
  ASSUME KeyInv, NEW p \in Requests, Finish(p), UNCHANGED <<orders, keyRows>>
  PROVE  KeyInv'
  BY IdleOK, Local DEF Finish, Making, Done

(* On to another place. *)
LEMMA Moves ==
  ASSUME KeyInv, NEW p \in Requests, NEW pc, Goto(p, pc), UNCHANGED <<orders, keyRows>>,
         req[p].pc # "idle",
         pc \in {"lookup", "lock", "insert", "stored", "told"} => req[p].key # NoKey,
         \/ req[p].key = NoKey
         \/ pc \notin Making \cup Done
         \/ pc \in Making /\ req[p].pc \in Making
         \/ pc \in Done /\ req[p].pc \in Done
  PROVE  KeyInv'
<1> DEFINE r == [req[p] EXCEPT !.pc = pc]
<1>1. RequestOK(r) /\ r.pc = pc /\ r.key = req[p].key /\ r.body = req[p].body
      /\ r.order = req[p].order
  BY RequestFacts DEF RequestOK, Fields
<1>2. req' = [req EXCEPT ![p] = r]
  BY DEF Goto
<1> HIDE DEF r
<1> QED
  BY <1>1, <1>2, Local

LEMMA Lookups ==
  ASSUME KeyInv, NEW p \in Requests, Expire(p) \/ LookUp(p) \/ Replay(p) \/ AcquireLock(p)
  PROVE  KeyInv'
<1>1. CASE Expire(p)
  <2> DEFINE pc == Interceptor(req[p].key)
  <2>1. /\ pc \in {"lookup", "products"}
        /\ pc = "lookup" => req[p].key # NoKey
        /\ pc = "products" => req[p].key = NoKey
    BY DEF Interceptor
  <2>2. Goto(p, pc) /\ req[p].pc = "expire" /\ UNCHANGED <<orders, keyRows>>
    BY <1>1 DEF Expire
  <2> HIDE DEF pc
  <2>3. /\ pc \in {"lookup", "lock", "insert", "stored", "told"} => req[p].key # NoKey
        /\ req[p].key = NoKey \/ pc \notin Making \cup Done
    BY <2>1 DEF Making, Done
  <2> QED
    BY <2>2, <2>3, Moves
<1>2. CASE LookUp(p) \/ Replay(p) \/ AcquireLock(p)
  <2>1. CASE Finish(p)
    BY <1>2, <2>1, Finishes DEF LookUp, Replay, AcquireLock
  <2>2. CASE LookUp(p) /\ Goto(p, "lock")
    BY <2>2, Moves, RequestFacts DEF LookUp, RequestOK, Making, Done
  <2>3. CASE AcquireLock(p) /\ Goto(p, "insert")
    BY <2>3, Moves, RequestFacts DEF AcquireLock, RequestOK, Making, Done
  <2> QED
    BY <1>2, <2>1, <2>2, <2>3 DEF LookUp, Replay, AcquireLock
<1> QED
  BY <1>1, <1>2

(* Reading what managers edit changes none of it. *)
LEMMA Pricings ==
  ASSUME KeyInv, NEW p \in Requests, ReadProducts(p) \/ FindZone(p) \/ ReadRule(p)
  PROVE  KeyInv'
<1>1. CASE Finish(p)
  BY <1>1, Finishes DEF ReadProducts, FindZone, ReadRule
<1>2. ASSUME NEW r, req' = [req EXCEPT ![p] = r], DOMAIN r = DOMAIN req[p],
             r.pc \in Making, req[p].pc \in Making,
             r.key = req[p].key, r.body = req[p].body
      PROVE  KeyInv'
  <2>1. RequestOK(r)
    BY <1>2, RequestFacts DEF RequestOK, Making
  <2>2. UNCHANGED <<orders, keyRows>>
    BY DEF ReadProducts, FindZone, ReadRule
  <2> QED
    BY <1>2, <2>1, <2>2, Local
<1>3. CASE ReadProducts(p) /\ ~Finish(p)
  <2> DEFINE s == Subtotal(req[p].body.items)
             r == [req[p] EXCEPT !.pc = "zone", !.subtotal = s]
  <2>1. req' = [req EXCEPT ![p] = r] /\ req[p].pc = "products"
    BY <1>3 DEF ReadProducts
  <2> HIDE DEF s
  <2>2. /\ DOMAIN r = DOMAIN req[p] /\ r.pc = "zone"
        /\ r.key = req[p].key /\ r.body = req[p].body
    BY RequestFacts DEF RequestOK, Fields
  <2> HIDE DEF r
  <2> QED
    BY <1>2, <2>1, <2>2 DEF Making
<1>4. CASE FindZone(p)
  <2>1. PICK z : req' = [req EXCEPT ![p].pc = "rule", ![p].zone = z] /\ req[p].pc = "zone"
    BY <1>4 DEF FindZone
  <2> DEFINE r == [req[p] EXCEPT !.pc = "rule", !.zone = z]
  <2>2. req' = [req EXCEPT ![p] = r]
    BY <2>1
  <2>3. /\ DOMAIN r = DOMAIN req[p] /\ r.pc = "rule"
        /\ r.key = req[p].key /\ r.body = req[p].body
    BY RequestFacts DEF RequestOK, Fields
  <2> HIDE DEF r
  <2> QED
    BY <1>2, <2>1, <2>2, <2>3 DEF Making
<1>5. CASE ReadRule(p) /\ ~Finish(p)
  <2> DEFINE snapshot == Quote(req[p])
             r == [req[p] EXCEPT !.pc = "commit", !.snapshot = snapshot]
  <2>1. req' = [req EXCEPT ![p] = r] /\ req[p].pc = "rule"
    BY <1>5 DEF ReadRule
  <2> HIDE DEF snapshot
  <2>2. /\ DOMAIN r = DOMAIN req[p] /\ r.pc = "commit"
        /\ r.key = req[p].key /\ r.body = req[p].body
    BY RequestFacts DEF RequestOK, Fields
  <2> HIDE DEF r
  <2> QED
    BY <1>2, <2>1, <2>2 DEF Making
<1> QED
  BY <1>1, <1>3, <1>4, <1>5

(* The row is made of the request's own body, and nothing was made yet.    *)
LEMMA Insertions ==
  ASSUME KeyInv, NEW p \in Requests, InsertKey(p)
  PROVE  KeyInv'
<1> DEFINE k == req[p].key
           row == [NoRow EXCEPT !.body = req[p].body]
<1>1. CASE keyRows[k] # NoRow
  BY <1>1, Finishes DEF InsertKey
<1>2. CASE keyRows[k] = NoRow
  <2>1. k \in Keys /\ req[p].body \in Bodies /\ req[p].body # NoBody
    BY RequestFacts, CheckoutAssumption DEF InsertKey, RequestOK
  <2>2. /\ keyRows' = [keyRows EXCEPT ![k] = row] /\ Goto(p, "products") /\ orders' = orders
        /\ row \in KeyRow /\ row.body = req[p].body /\ row.order = 0
    BY <1>2, <2>1, CheckoutAssumption DEF InsertKey, NoRow, KeyRow
  <2> HIDE DEF row
  <2>3. /\ req' = [q \in Requests |-> req'[q]]
        /\ \A q \in Requests : q # p => req'[q] = req[q]
        /\ RequestOK(req'[p]) /\ req'[p].pc = "products"
        /\ req'[p].key = k /\ req'[p].body = req[p].body
    <3> DEFINE r == [req[p] EXCEPT !.pc = "products"]
    <3>1. r.pc = "products" /\ r.key = k /\ r.body = req[p].body /\ RequestOK(r)
      BY <2>1, RequestFacts DEF RequestOK, Fields
    <3>2. req' = [req EXCEPT ![p] = r]
      BY <2>2 DEF Goto
    <3> HIDE DEF r
    <3> QED
      BY <3>1, <3>2 DEF KeyInv
  <2>4. keyRows' \in [Keys -> KeyRow] /\ \A x \in Keys : keyRows'[x] = IF x = k THEN row ELSE keyRows[x]
    BY <2>1, <2>2 DEF KeyInv
  <2>5. \A x : Made(x)' = Made(x)
    BY <2>2 DEF Made
  <2>6. Made(k) = {}
    BY <1>2, <2>1 DEF KeyInv, RowOK, NoRow
  <2>7. ASSUME NEW q \in Requests, req[q].key = k, req[q].pc \in Making \cup Done
        PROVE  FALSE
    <3>1. req[q].key # NoKey
      BY <2>1, <2>7, CheckoutAssumption
    <3>2. keyRows[k].body = req[q].body /\ req[q].body # NoBody
      BY <2>7, <3>1, Owner
    <3>3. keyRows[k].body = NoBody
      BY <1>2 DEF NoRow
    <3> QED
      BY <3>2, <3>3
  <2>8. \A x \in Keys : RowOK(x)'
    BY <2>1, <2>2, <2>4, <2>5 DEF KeyInv, RowOK
  <2>9. ASSUME NEW q \in Requests PROVE Owns(q)'
    <3>1. CASE q = p
      BY <2>1, <2>2, <2>3, <2>4, <2>5, <2>6, <2>7, <3>1 DEF Owns, Making, Done
    <3>2. CASE q # p
      <4>1. Owns(q) /\ req'[q] = req[q] /\ RequestOK(req[q])
        BY <2>3, <3>2, RequestFacts
      <4>2. CASE req[q].key = k \/ req[q].key = NoKey \/ req[q].pc \notin Making \cup Done
        BY <2>7, <4>1, <4>2 DEF Owns
      <4>3. CASE req[q].key # k /\ req[q].key # NoKey /\ req[q].pc \in Making \cup Done
        <5>1. req[q].key \in Keys /\ keyRows'[req[q].key] = keyRows[req[q].key]
          BY <2>4, <4>1, <4>3 DEF RequestOK
        <5>2. \A x \in Requests \ {q} :
                req'[x].key = req[q].key => req'[x].pc \notin Making \cup Done
          BY <2>3, <4>1, <4>3 DEF Owns
        <5> QED
          BY <2>5, <4>1, <4>3, <5>1, <5>2 DEF Owns
      <4> QED
        BY <4>2, <4>3
    <3> QED
      BY <3>1, <3>2
  <2>10. OrdersOK'
    BY <2>2 DEF KeyInv, OrdersOK
  <2> QED
    BY <2>3, <2>4, <2>8, <2>9, <2>10, RequestFacts DEF KeyInv
<1> QED
  BY <1>1, <1>2

(***************************************************************************)
(* An order is made: of p's key and body, and nothing else is.             *)
(***************************************************************************)
LEMMA NextOrder ==
  ASSUME KeyInv, NEW p \in Requests, CommitOrder(p)
  PROVE  /\ Len(orders) \in Nat /\ Len(orders) + 1 \in OrderIds
         /\ \A k : Made(k)' = IF k = req[p].key
                               THEN Made(k) \cup {[body |-> req[p].body, order |-> Len(orders) + 1]}
                               ELSE Made(k)
         /\ OrdersOK'
<1> DEFINE r == req[p]
           o == [key |-> r.key, body |-> r.body, zoneId |-> r.zone,
                 subtotalMinor |-> r.subtotal, pricing |-> r.snapshot,
                 totalMinor |-> r.snapshot.totalMinor]
           n == Len(orders) + 1
<1>1. orders' = Append(orders, o) /\ Len(orders) < MaxOrders /\ r.pc = "commit"
  BY DEF CommitOrder
<1>2. o.key = r.key /\ o.body = r.body /\ r.body \in Bodies
  BY <1>1, RequestFacts DEF RequestOK
<1> HIDE DEF o, r
<1>3. /\ \E S : orders' \in Seq(S)
      /\ Len(orders') = n /\ Len(orders) \in Nat
      /\ DOMAIN orders' = DOMAIN orders \cup {n} /\ n \notin DOMAIN orders
      /\ \A i \in DOMAIN orders : orders'[i] = orders[i]
      /\ orders'[n] = o
  <2>1. OrdersOK
    BY DEF KeyInv
  <2> QED
    BY <1>1, <2>1, OneMore
<1> HIDE DEF n
<1>4. ASSUME NEW k
      PROVE  Made(k)' = IF k = r.key THEN Made(k) \cup {[body |-> r.body, order |-> n]}
                        ELSE Made(k)
  <2>1. {j \in DOMAIN orders' : orders'[j].key = k} =
          {j \in DOMAIN orders : orders[j].key = k} \cup (IF k = r.key THEN {n} ELSE {})
    BY <1>2, <1>3
  <2>2. \A j \in DOMAIN orders : orders'[j].body = orders[j].body
    BY <1>3
  <2> QED
    BY <1>2, <1>3, <2>1, <2>2 DEF Made
<1>5. n \in OrderIds
  BY <1>1, <1>3, CheckoutAssumption DEF OrderIds, n
<1>6. OrdersOK'
  BY <1>1, <1>2, <1>3, CheckoutAssumption DEF OrdersOK, n, KeyInv
<1> QED
  BY <1>3, <1>4, <1>5, <1>6 DEF r, n

LEMMA Commits ==
  ASSUME KeyInv, NEW p \in Requests, CommitOrder(p)
  PROVE  KeyInv'
<1> DEFINE k == req[p].key
           n == Len(orders) + 1
           r == [req[p] EXCEPT !.pc = "respond", !.order = n]
<1>1. /\ \A x : Made(x)' = IF x = k THEN Made(x) \cup {[body |-> req[p].body, order |-> n]}
                            ELSE Made(x)
      /\ OrdersOK'
  BY NextOrder
<1>2. req' = [req EXCEPT ![p] = r] /\ req[p].pc = "commit" /\ keyRows' = keyRows
  BY DEF CommitOrder
<1> HIDE DEF n
<1>3. /\ r.pc = "respond" /\ r.key = k /\ r.body = req[p].body /\ r.order = n
      /\ RequestOK(r)
  BY <1>2, RequestFacts DEF RequestOK, Fields
<1> HIDE DEF r
<1>4. /\ req' = [q \in Requests |-> req'[q]]
      /\ \A q \in Requests : req'[q] = IF q = p THEN r ELSE req[q]
  BY <1>2 DEF KeyInv
<1>5. req[p].pc \in Making /\ r.pc \in Done /\ r.pc \notin Making
  BY <1>2, <1>3 DEF Making, Done
<1>6. ASSUME NEW q \in Requests PROVE Owns(q)'
  <2>1. CASE q = p /\ k # NoKey
    <3>1. /\ keyRows[k].body = r.body
          /\ \A x \in Requests \ {p} : req[x].key = k => req[x].pc \notin Making \cup Done
      BY <1>3, <1>5, <2>1, Owner
    <3>2. \A x \in Requests \ {p} : req'[x] = req[x]
      BY <1>4
    <3>3. [body |-> r.body, order |-> r.order] \in Made(k)' /\ req'[q] = r
      BY <1>1, <1>3, <1>4, <2>1
    <3> QED
      BY <1>2, <1>3, <1>5, <2>1, <3>1, <3>2, <3>3 DEF Owns
  <2>2. CASE q = p /\ k = NoKey
    BY <1>3, <1>4, <2>2 DEF Owns
  <2>3. CASE q # p /\ req[q].key # NoKey /\ req[q].pc \in Making \cup Done
    <3>1. req'[q] = req[q] /\ Owns(q)
      BY <1>4, <2>3, RequestFacts
    <3>2. ASSUME req[q].key = k PROVE FALSE
      <4>1. k # NoKey /\ q \in Requests \ {p}
        BY <2>3, <3>2
      <4>2. req[q].pc \notin Making \cup Done
        BY <1>5, <3>2, <4>1, Owner
      <4> QED
        BY <2>3, <4>2
    <3>3. Made(req[q].key)' = Made(req[q].key)
      BY <1>1, <3>1, <3>2
    <3>4. \A x \in Requests \ {q} :
            req'[x].key = req[q].key => req'[x].pc \notin Making \cup Done
      <4>1. \A x \in Requests \ {q} : req[x].key = req[q].key => req[x].pc \notin Making \cup Done
        BY <2>3, Owner
      <4> QED
        BY <1>3, <1>4, <3>2, <4>1
    <3> QED
      BY <1>2, <2>3, <3>1, <3>3, <3>4 DEF Owns
  <2>4. CASE q # p /\ ~(req[q].key # NoKey /\ req[q].pc \in Making \cup Done)
    BY <1>4, <2>4 DEF Owns
  <2> QED
    BY <2>1, <2>2, <2>3, <2>4
<1>7. ASSUME NEW x \in Keys PROVE RowOK(x)'
  <2>1. Made(x) \subseteq Made(x)' /\ RowOK(x)
    BY <1>1 DEF KeyInv
  <2>2. CASE x = k
    <3>1. keyRows[x].body # NoBody
      BY <1>5, <2>2, Owner, CheckoutAssumption
    <3> QED
      BY <1>2, <2>1, <3>1 DEF RowOK
  <2>3. CASE x # k
    BY <1>1, <1>2, <2>1, <2>3 DEF RowOK
  <2> QED
    BY <2>2, <2>3
<1>8. \A q \in Requests : RequestOK(req'[q])
  BY <1>3, <1>4, RequestFacts
<1>9. keyRows' \in [Keys -> KeyRow]
  BY <1>2 DEF KeyInv
<1> QED
  BY <1>1, <1>4, <1>6, <1>7, <1>8, <1>9 DEF KeyInv

(* What is in Made was given an id. *)
LEMMA MadeIds ==
  ASSUME KeyInv, NEW k, NEW b, NEW o, [body |-> b, order |-> o] \in Made(k)
  PROVE  b \in Bodies /\ o \in OrderIds
<1>1. PICK i \in DOMAIN orders : [body |-> b, order |-> o] = [body |-> orders[i].body, order |-> i]
  BY DEF Made
<1>2. b = orders[i].body /\ o = i
  BY <1>1
<1>3. DOMAIN orders = 1 .. Len(orders) /\ Len(orders) \in Nat /\ Len(orders) <= MaxOrders
  BY LenProperties DEF KeyInv, OrdersOK
<1>4. \A j \in DOMAIN orders : orders[j].body \in Bodies
  BY DEF KeyInv, OrdersOK
<1>5. i \in 1 .. Len(orders)
  BY <1>1, <1>3
<1> QED
  BY <1>2, <1>3, <1>4, <1>5, CheckoutAssumption DEF OrderIds

(* The response that is stored is p's own order. *)
LEMMA Stores ==
  ASSUME KeyInv, NEW p \in Requests, Persist(p)
  PROVE  KeyInv'
<1> DEFINE k == req[p].key
           o == req[p].order
<1>1. /\ req[p].pc \in {"respond", "told"} /\ k # NoKey /\ orders' = orders
      /\ keyRows' = [keyRows EXCEPT ![k].order = o]
      /\ Finish(p) \/ Goto(p, "stored")
  BY DEF Persist
<1>2. /\ req[p].pc \in Done /\ k \in Keys /\ req[p].body # NoBody
      /\ keyRows[k].body = req[p].body
      /\ [body |-> req[p].body, order |-> o] \in Made(k)
  BY <1>1, Owner DEF Done
<1>3. o \in 0 .. MaxOrders
  BY <1>2, MadeIds, CheckoutAssumption DEF OrderIds
<1>4. keyRows \in [Keys -> KeyRow] /\ keyRows[k] \in KeyRow
  BY <1>2 DEF KeyInv
<1> DEFINE row == [keyRows[k] EXCEPT !.order = o]
<1>5. row \in KeyRow /\ row.body = keyRows[k].body /\ row.order = o
  BY <1>3, <1>4 DEF KeyRow
<1>6. keyRows' = [keyRows EXCEPT ![k] = row]
  BY <1>1
<1> HIDE DEF row
<1>7. keyRows' \in [Keys -> KeyRow] /\ \A x \in Keys : keyRows'[x] = IF x = k THEN row ELSE keyRows[x]
  BY <1>2, <1>4, <1>5, <1>6
<1>8. \A x : Made(x)' = Made(x)
  BY <1>1 DEF Made
<1>9. ASSUME NEW x \in Keys
      PROVE  keyRows'[x].body = keyRows[x].body /\ RowOK(x)'
  <2>1. RowOK(x)
    BY DEF KeyInv
  <2> QED
    BY <1>2, <1>5, <1>7, <1>8, <2>1 DEF RowOK
<1>10. CASE Finish(p)
  <2>1. req' = [req EXCEPT ![p] = Idle] /\ RequestOK(Idle) /\ Idle.pc \notin Making \cup Done
    BY <1>10, IdleOK DEF Finish, Making, Done
  <2> QED
    BY <1>1, <1>7, <1>9, <2>1, LocalStep
<1>11. CASE Goto(p, "stored")
  <2> DEFINE r == [req[p] EXCEPT !.pc = "stored"]
  <2>1. req' = [req EXCEPT ![p] = r]
    BY <1>11 DEF Goto
  <2>2. /\ RequestOK(r) /\ r.pc = "stored" /\ r.key = k /\ r.body = req[p].body
        /\ r.order = req[p].order
    BY <1>1, RequestFacts DEF RequestOK, Fields
  <2>3. r.pc \in Done
    BY <2>2 DEF Done
  <2> HIDE DEF r
  <2> QED
    BY <1>1, <1>2, <1>7, <1>9, <2>1, <2>2, <2>3, LocalStep
<1> QED
  BY <1>1, <1>10, <1>11

LEMMA Responses ==
  ASSUME KeyInv, NEW p \in Requests, Respond(p)
  PROVE  KeyInv'
<1>1. req[p].pc \in {"respond", "stored"} /\ UNCHANGED <<orders, keyRows>>
  BY DEF Respond
<1>2. CASE Finish(p)
  BY <1>1, <1>2, Finishes
<1>3. CASE req[p].key # NoKey /\ Goto(p, "told")
  BY <1>1, <1>3, Moves DEF Done
<1> QED
  BY <1>2, <1>3 DEF Respond

LEMMA KeysStep == KeyInv /\ [Next]_checkoutVars => KeyInv'
<1> SUFFICES ASSUME KeyInv, [Next]_checkoutVars PROVE KeyInv'
  OBVIOUS
<1>1. ASSUME NEW p \in Requests, Step(p) PROVE KeyInv'
  <2>1. CASE Fail(p)
    BY <2>1, Finishes DEF Fail
  <2> QED
    BY <1>1, <2>1, Lookups, Insertions, Pricings, Commits, Responses, Stores DEF Step
<1>2. ASSUME NEW p \in Requests, NEW s \in Sent, Arrive(p, s[1], s[2]) PROVE KeyInv'
  BY <1>2, Arrivals
<1>3. CASE UNCHANGED <<req, keyRows, orders>>
  <2>1. \A k : Made(k)' = Made(k)
    BY <1>3 DEF Made
  <2>2. \A p \in Requests : Owns(p)' <=> Owns(p)
    BY <1>3, <2>1 DEF Owns
  <2>3. OrdersOK' /\ \A k \in Keys : RowOK(k)'
    BY <1>3, <2>1 DEF KeyInv, OrdersOK, RowOK
  <2> QED
    BY <1>3, <2>2, <2>3 DEF KeyInv
<1>4. CASE WindowEnds \/ (\E k \in Keys : LockEnds(k)) \/ (BookNext /\ UNCHANGED webVars)
            \/ UNCHANGED checkoutVars
  BY <1>3, <1>4 DEF WindowEnds, LockEnds, webVars, checkoutVars
<1> QED
  BY <1>1, <1>2, <1>4 DEF Next

--------------------------------------------------------------------------------
(* The orders and the answers change as OncePerKey allows.                 *)
LEMMA OnceInitially == Init => Once!Init
<1> SUFFICES ASSUME Init PROVE Once!Init
  OBVIOUS
<1>1. DOMAIN orders = {} /\ answers = {}
  BY DEF Init
<1>2. \A k : Made(k) = {}
  BY <1>1 DEF Made
<1> QED
  BY <1>1, <1>2 DEF Once!Init

LEMMA Told ==
  ASSUME KeyInv, NEW k \in Keys, NEW b, NEW o, [body |-> b, order |-> o] \in Made(k),
         Answer(k, b, o), orders' = orders
  PROVE  Once!Next
<1>1. b \in Bodies /\ o \in OrderIds
  BY MadeIds
<1>2. \A x : Made(x)' = Made(x)
  BY DEF Made
<1>3. answers' = answers \cup {[key |-> k, body |-> b, order |-> o]}
  BY CheckoutAssumption DEF Answer
<1>4. Once!Tell(k, b, o)
  BY <1>2, <1>3 DEF Once!Tell
<1> QED
  BY <1>1, <1>4 DEF Once!Next

LEMMA OnceStep ==
  KeyInv /\ [Next]_checkoutVars => [Once!Next]_<<[k \in Keys |-> Made(k)], answers>>
<1> DEFINE made == [k \in Keys |-> Made(k)]
<1> SUFFICES ASSUME KeyInv, [Next]_checkoutVars
             PROVE  Once!Next \/ UNCHANGED <<made, answers>>
  OBVIOUS
<1>1. ASSUME orders' = orders, answers' = answers
      PROVE  UNCHANGED <<made, answers>>
  BY <1>1 DEF Made
<1>2. ASSUME NEW p \in Requests, CommitOrder(p)
      PROVE  Once!Next \/ UNCHANGED <<made, answers>>
  <2> DEFINE k == req[p].key
             b == req[p].body
             n == Len(orders) + 1
  <2>1. /\ n \in OrderIds
        /\ \A x : Made(x)' = IF x = k THEN Made(x) \cup {[body |-> b, order |-> n]} ELSE Made(x)
    BY <1>2, NextOrder
  <2>2. answers' = answers /\ req[p].pc \in Making
    BY <1>2 DEF CommitOrder, Making
  <2> HIDE DEF n
  <2>3. CASE k = NoKey
    BY <2>1, <2>2, <2>3, CheckoutAssumption
  <2>4. CASE k # NoKey
    <3>1. k \in Keys /\ b \in Bodies /\ Made(k) = {}
      BY <2>2, <2>4, Owner
    <3>2. Once!Make(k, b, n)
      BY <2>1, <2>2, <3>1 DEF Once!Make
    <3> QED
      BY <2>1, <3>1, <3>2 DEF Once!Next
  <2> QED
    BY <2>3, <2>4
<1>3. ASSUME NEW p \in Requests, Replay(p)
      PROVE  Once!Next
  <2> DEFINE k == req[p].key
  <2>1. /\ req[p].pc = "lookup" /\ orders' = orders
        /\ keyRows[k].body = req[p].body /\ keyRows[k].order # 0
        /\ Answer(k, req[p].body, keyRows[k].order)
    BY <1>3 DEF Replay
  <2>2. k \in Keys
    BY <2>1, RequestFacts DEF RequestOK
  <2>3. [body |-> req[p].body, order |-> keyRows[k].order] \in Made(k)
    BY <2>1, <2>2 DEF KeyInv, RowOK
  <2> QED
    BY <2>1, <2>2, <2>3, Told
<1>4. ASSUME NEW p \in Requests, Respond(p)
      PROVE  Once!Next \/ UNCHANGED <<made, answers>>
  <2>1. /\ req[p].pc \in Done /\ orders' = orders
        /\ Answer(req[p].key, req[p].body, req[p].order)
    BY <1>4 DEF Respond, Done
  <2>2. CASE req[p].key = NoKey
    BY <1>1, <2>1, <2>2 DEF Answer
  <2>3. CASE req[p].key # NoKey
    BY <2>1, <2>3, Owner, Told
  <2> QED
    BY <2>2, <2>3
<1>5. ASSUME NEW p \in Requests, Step(p)
      PROVE  Once!Next \/ UNCHANGED <<made, answers>>
  <2>1. CASE \/ Expire(p) \/ LookUp(p) \/ AcquireLock(p) \/ InsertKey(p) \/ ReadProducts(p)
             \/ FindZone(p) \/ ReadRule(p) \/ Persist(p) \/ Fail(p)
    BY <1>1, <2>1 DEF Expire, LookUp, AcquireLock, InsertKey, ReadProducts, FindZone, ReadRule,
                      Persist, Fail
  <2> QED
    BY <1>2, <1>3, <1>4, <1>5, <2>1 DEF Step
<1>6. ASSUME NEW p \in Requests, NEW s \in Sent, Arrive(p, s[1], s[2])
      PROVE  UNCHANGED <<made, answers>>
  BY <1>1, <1>6 DEF Arrive
<1>7. CASE WindowEnds \/ (\E k \in Keys : LockEnds(k)) \/ (BookNext /\ UNCHANGED webVars)
            \/ UNCHANGED checkoutVars
  BY <1>1, <1>7 DEF WindowEnds, LockEnds, webVars, checkoutVars
<1> QED
  BY <1>5, <1>6, <1>7 DEF Next

(***************************************************************************)
(* IdempotencyInterceptor keeps its promise around OrdersService.create,   *)
(* for any clients, keys and bodies: a key makes one order at most, and an *)
(* answer is an order that was made with the key, of the body that was     *)
(* sent; whatever fails, dies or is lost in Redis on the way.              *)
(***************************************************************************)
THEOREM OnceCorrect == Spec => ImplementsOncePerKey
<1>1. KeyInv /\ [Next]_checkoutVars => [Once!Next]_<<[k \in Keys |-> Made(k)], answers>>
  BY OnceStep
<1> QED
  BY <1>1, KeysInitially, KeysStep, OnceInitially, PTL DEF Spec, ImplementsOncePerKey, Once!Spec

--------------------------------------------------------------------------------
(***************************************************************************)
(* Numbers: what the sums, the roundings and the maxima of the pricing     *)
(* are.  Every set of natural numbers has a least member, and that is all  *)
(* the induction there is to it.                                           *)
(***************************************************************************)

LEMMA Least ==
  ASSUME NEW T \in SUBSET Nat, T # {}
  PROVE  \E n \in T : \A m \in T : n <= m
<1>1. PICK n \in T : \A m \in T : ~ (<<m, n>> \in OpToRel(<, Nat))
  BY NatLessThanWellFounded, WFMin
<1>2. \A m \in T : ~(m < n)
  BY <1>1 DEF OpToRel
<1> QED
  BY <1>2

LEMMA Greatest ==
  ASSUME NEW T \in SUBSET Nat, T # {}, NEW b \in Nat, \A n \in T : n <= b
  PROVE  Max(T) \in T /\ \A n \in T : n <= Max(T)
<1> DEFINE R == {r \in Nat : b - r \in T}
<1>1. PICK t \in T : TRUE
  OBVIOUS
<1>2. b - t \in Nat /\ b - (b - t) = t
  OBVIOUS
<1>3. b - t \in R
  BY <1>2
<1>4. PICK r \in R : \A s \in R : r <= s
  BY <1>3, Least
<1>5. ASSUME NEW m \in T
      PROVE  b - r >= m
  <2>1. b - m \in Nat /\ b - (b - m) = m
    OBVIOUS
  <2>2. b - m \in R
    BY <2>1
  <2>3. r <= b - m /\ r \in Nat
    BY <1>4, <2>2
  <2> HIDE DEF R
  <2> QED
    BY <2>1, <2>3
<1>6. b - r \in T
  OBVIOUS
<1> QED
  BY <1>5, <1>6 DEF Max

(* The lines are summed up line by line; so is this proof. *)
LEMMA SubtotalIsNat ==
  ASSUME NEW items, IsFiniteSet(DOMAIN items),
         \A x \in DOMAIN items : products[x].priceMinor * items[x] \in Nat
  PROVE  Subtotal(items) \in Nat
<1> DEFINE D == DOMAIN items
           w(x) == products[x].priceMinor * items[x]
           pick(s) == CHOOSE x \in s : TRUE
           Sum(g, s) == IF s = {} THEN 0 ELSE w(pick(s)) + g[s \ {pick(s)}]
           Small(n) == {s \in SUBSET D : Cardinality(s) <= n}
           Sums(n) == \E g : g = [s \in Small(n) |-> Sum(g, s)]
           it == CHOOSE g : g = [s \in SUBSET D |-> Sum(g, s)]
<1>1. Subtotal(items) = it[D]
  BY Zenon DEF Subtotal, MapThenSumSet, MapThenFoldSet
<1>2. /\ \A x \in D : w(x) \in Nat
      /\ \A s \in SUBSET D : IsFiniteSet(s) /\ Cardinality(s) \in Nat
  BY FS_Subset, FS_CardinalityType
<1>3. ASSUME NEW s \in SUBSET D, s # {}
      PROVE  /\ pick(s) \in D /\ pick(s) \in s /\ s \ {pick(s)} \in SUBSET D
             /\ Cardinality(s \ {pick(s)}) = Cardinality(s) - 1
  <2>1. pick(s) \in s
    BY <1>3
  <2>2. Cardinality(s \ {pick(s)}) = Cardinality(s) - 1
    BY <1>2, <2>1, FS_RemoveElement
  <2> QED
    BY <2>1, <2>2
<1> HIDE DEF w, pick
<1>4. Sums(0)
  <2> DEFINE g == [s \in Small(0) |-> 0]
  <2>1. \A s \in Small(0) : s = {}
    BY <1>2, FS_EmptySet
  <2>2. g = [s \in Small(0) |-> Sum(g, s)]
    BY <2>1
  <2> QED
    BY <2>2
<1>5. ASSUME NEW n \in Nat, Sums(n)
      PROVE  Sums(n + 1)
  <2>1. PICK f : f = [s \in Small(n) |-> Sum(f, s)]
    BY <1>5
  <2> DEFINE g == [s \in Small(n + 1) |-> Sum(f, s)]
  <2>2. \A s \in Small(n) : s \in Small(n + 1) /\ g[s] = f[s]
    <3> TAKE s \in Small(n)
    <3>1. s \in Small(n + 1)
      BY <1>2
    <3>2. f[s] = Sum(f, s)
      BY <2>1
    <3> HIDE DEF Sum, Small
    <3> QED
      BY <3>1, <3>2
  <2>3. ASSUME NEW s \in Small(n + 1)
        PROVE  Sum(f, s) = Sum(g, s)
    <3>1. CASE s = {}
      BY <3>1
    <3>2. CASE s # {}
      <4>1. s \ {pick(s)} \in Small(n)
        BY <1>2, <1>3, <3>2
      <4>2. g[s \ {pick(s)}] = f[s \ {pick(s)}]
        BY <2>2, <4>1
      <4> HIDE DEF g
      <4> QED
        BY <4>2
    <3> QED
      BY <3>1, <3>2
  <2>4. g = [s \in Small(n + 1) |-> Sum(g, s)]
    <3>1. \A s \in Small(n + 1) : Sum(f, s) = Sum(g, s)
      BY <2>3
    <3> HIDE DEF Sum, Small
    <3> QED
      BY <3>1
  <2> HIDE DEF g
  <2> QED
    BY <2>4
<1>6. \A n \in Nat : Sums(n)
  <2> DEFINE Bad == {n \in Nat : ~Sums(n)}
  <2> SUFFICES ASSUME Bad # {} PROVE FALSE
    OBVIOUS
  <2> HIDE DEF Sums
  <2>1. PICK n \in Bad : \A m \in Bad : n <= m
    BY Least
  <2>2. n # 0 /\ n - 1 \in Nat /\ n - 1 \notin Bad
    BY <1>4, <2>1
  <2>3. Sums((n - 1) + 1) /\ (n - 1) + 1 = n
    BY <1>5, <2>2
  <2> QED
    BY <2>3
<1>7. it = [s \in SUBSET D |-> Sum(it, s)]
  <2>1. Small(Cardinality(D)) = SUBSET D
    BY <1>2, FS_Subset
  <2>2. Sums(Cardinality(D))
    BY <1>2, <1>6
  <2>3. \E g : g = [s \in SUBSET D |-> Sum(g, s)]
    BY <2>1, <2>2
  <2> HIDE DEF Sum
  <2> QED
    BY <2>3
<1>8. \A s \in SUBSET D : it[s] = Sum(it, s)
  BY <1>7
<1> HIDE DEF it
<1>9. \A s \in SUBSET D : it[s] \in Nat
  <2> DEFINE Bad == {n \in Nat : \E s \in SUBSET D : Cardinality(s) = n /\ it[s] \notin Nat}
  <2>1. ASSUME Bad # {} PROVE FALSE
    <3>1. PICK n \in Bad : \A m \in Bad : n <= m
      BY <2>1, Least
    <3>2. PICK s \in SUBSET D : Cardinality(s) = n /\ it[s] \notin Nat
      BY <3>1
    <3>3. s # {} /\ it[s] = w(pick(s)) + it[s \ {pick(s)}]
      BY <1>8, <3>2
    <3>4. /\ s \ {pick(s)} \in SUBSET D /\ w(pick(s)) \in Nat
          /\ Cardinality(s \ {pick(s)}) = n - 1
      BY <1>2, <1>3, <3>2, <3>3
    <3>5. n - 1 \in Nat /\ n - 1 \notin Bad
      BY <1>2, <3>1, <3>4
    <3>6. it[s \ {pick(s)}] \in Nat
      BY <3>4, <3>5
    <3> QED
      BY <3>2, <3>3, <3>4, <3>6
  <2> QED
    BY <1>2, <2>1
<1> QED
  BY <1>1, <1>9

(* What a manager's edit or a quote reads. *)
BookOK ==
  /\ products \in [Products -> ProductRow]
  /\ zones \in [Zones -> ZoneRow]
  /\ rules \in Seq(RuleRow)
  /\ editing \in [Editors -> [zone : Zones \cup {NoZone}, polygon : Polygons \cup {NoPolygon}]]

(* A snapshot adds up: its parts make the fee, and with the lines the total. *)
Adds(subtotal, s) ==
  /\ subtotal = s.subtotalMinor
  /\ s.deliveryFeeMinor = IF s.freeDeliveryApplied THEN 0
                          ELSE s.baseFeeMinor + s.distanceFeeMinor + s.surgeFeeMinor
  /\ s.totalMinor = s.subtotalMinor + s.deliveryFeeMinor

LEMMA Rounding ==
  ASSUME NEW n \in Nat
  PROVE  /\ RoundMinor(n, 1000) \in Nat /\ RoundMinor(n, 100) \in Nat
         /\ \A m \in Nat : n >= 100 * m => RoundMinor(n, 100) >= m
  BY DEF RoundMinor

LEMMA Surge ==
  ASSUME NEW windows \in SUBSET Window, NEW at
  PROVE  ResolveSurgeMultiplier(windows, at) \in 100 .. 500
<1> DEFINE open == {v \in windows : /\ at.day \in v.days
                                    /\ v.startTime <= at.minute
                                    /\ at.minute <= v.endTime}
           T == {100} \cup {w.multiplier : w \in open}
<1>1. \A w \in open : w.multiplier \in 100 .. 500
  BY DEF Window
<1> HIDE DEF open
<1>2. T \in SUBSET Nat /\ 100 \in T /\ \A n \in T : n \in 100 .. 500
  BY <1>1
<1>3. Max(T) \in T
  <2> HIDE DEF T
  <2>1. T # {} /\ 500 \in Nat /\ \A n \in T : n <= 500
    BY <1>2
  <2> QED
    BY <1>2, <2>1, Greatest
<1>4. Max(T) \in 100 .. 500
  BY <1>2, <1>3
<1>5. ResolveSurgeMultiplier(windows, at) = Max(T)
  BY DEF ResolveSurgeMultiplier, open
<1> QED
  BY <1>4, <1>5

LEMMA PricingAddsUp ==
  ASSUME NEW id \in Nat, NEW terms \in Terms, NEW subtotal \in Nat, NEW meters \in Nat, NEW at
  PROVE  /\ ComputePricing(id, terms, subtotal, meters, at) \in Snapshot
         /\ Adds(subtotal, ComputePricing(id, terms, subtotal, meters, at))
<1> DEFINE distanceFee == RoundMinor(terms.perKmMinor * meters, 1000)
           multiplier == ResolveSurgeMultiplier(terms.surgeWindows, at)
           base == terms.baseFeeMinor
           preSurge == base + distanceFee
           surged == RoundMinor(preSurge * multiplier, 100)
           threshold == terms.freeDeliveryThresholdMinor
           free == threshold # NoThreshold /\ subtotal >= threshold
           fee == IF free THEN 0 ELSE surged
           met == subtotal >= terms.minOrderMinor
           s == [ruleId |-> id, subtotalMinor |-> subtotal, baseFeeMinor |-> base,
                 distanceFeeMinor |-> distanceFee, surgeFeeMinor |-> surged - preSurge,
                 freeDeliveryApplied |-> free, deliveryFeeMinor |-> fee,
                 minOrderMet |-> met, totalMinor |-> subtotal + fee]
<1>1. ComputePricing(id, terms, subtotal, meters, at) = s
  BY DEF ComputePricing
<1>2. base \in Nat /\ terms.perKmMinor \in Nat /\ terms.surgeWindows \in SUBSET Window
  BY DEF Terms
<1>3. distanceFee \in Nat
  <2>1. terms.perKmMinor * meters \in Nat
    BY <1>2
  <2> QED
    BY <2>1, Rounding
<1>4. multiplier \in 100 .. 500
  BY <1>2, Surge
<1>5. free \in BOOLEAN /\ met \in BOOLEAN
  OBVIOUS
<1> HIDE DEF base, distanceFee, multiplier, free, met
<1>6. preSurge \in Nat
  BY <1>2, <1>3
<1> HIDE DEF preSurge
<1>7. preSurge * multiplier \in Nat /\ preSurge * multiplier >= 100 * preSurge
  <2>1. multiplier - 100 \in Nat
    BY <1>4
  <2>2. preSurge * (multiplier - 100) \in Nat
    BY <1>6, <2>1
  <2>3. preSurge * multiplier = preSurge * (multiplier - 100) + 100 * preSurge
    BY <1>4, <1>6
  <2> QED
    BY <1>6, <2>2, <2>3
<1>8. surged \in Nat /\ surged >= preSurge
  BY <1>6, <1>7, Rounding
<1> HIDE DEF surged
<1>9. fee \in Nat /\ surged - preSurge \in Nat /\ subtotal + fee \in Nat
  BY <1>6, <1>8
<1>10. s \in Snapshot
  <2> HIDE DEF fee
  <2> QED
    BY <1>2, <1>3, <1>5, <1>9 DEF Snapshot
<1>11. Adds(subtotal, s)
  <2>1. base + distanceFee + (surged - preSurge) = surged
    BY <1>2, <1>3, <1>8 DEF preSurge
  <2> QED
    BY <2>1 DEF Adds
<1> QED
  BY <1>1, <1>10, <1>11

LEMMA RuleExists ==
  ASSUME BookOK, NEW z
  PROVE  RuleOfZone(z) \in {0} \cup DOMAIN rules /\ DOMAIN rules \subseteq Nat
<1> DEFINE T == {0} \cup {i \in DOMAIN rules : rules[i].zoneId = z /\ rules[i].isActive}
<1>1. Len(rules) \in Nat /\ DOMAIN rules = 1 .. Len(rules)
  BY LenProperties DEF BookOK
<1>2. T \in SUBSET Nat /\ T # {} /\ \A n \in T : n <= Len(rules)
  BY <1>1
<1>3. RuleOfZone(z) = Max(T)
  BY DEF RuleOfZone
<1>4. Max(T) \in T
  <2> HIDE DEF T
  <2> QED
    BY <1>1, <1>2, Greatest
<1> QED
  BY <1>1, <1>3, <1>4

LEMMA QuoteAddsUp ==
  ASSUME BookOK, NEW r, r.body \in Bodies, r.subtotal \in Nat
  PROVE  Quote(r) \in Snapshot /\ Adds(r.subtotal, Quote(r))
<1>1. FreeOfCharge(r.subtotal) \in Snapshot /\ Adds(r.subtotal, FreeOfCharge(r.subtotal))
  BY DEF FreeOfCharge, Snapshot, Adds
<1>2. CASE r.zone = NoZone \/ RuleOfZone(r.zone) = 0
  <2>1. Quote(r) = FreeOfCharge(r.subtotal)
    BY <1>2 DEF Quote
  <2> QED
    BY <1>1, <2>1
<1>3. CASE r.zone # NoZone /\ RuleOfZone(r.zone) # 0
  <2> DEFINE id == RuleOfZone(r.zone)
  <2>1. id \in DOMAIN rules /\ id \in Nat
    BY <1>3, RuleExists
  <2>2. rules[id].terms \in Terms
    <3>1. rules[id] \in RuleRow
      BY <2>1, ElementOfSeq, LenProperties DEF BookOK
    <3> QED
      BY <3>1, PriceBookAssumption DEF RuleRow
  <2>3. Distance[r.body.point] \in Nat
    BY CheckoutAssumption DEF ValidBody
  <2>4. Quote(r) = ComputePricing(id, rules[id].terms, r.subtotal, Distance[r.body.point], r.body.at)
    BY <1>3 DEF Quote
  <2> HIDE DEF id
  <2> QED
    BY <2>1, <2>2, <2>3, <2>4, PricingAddsUp
<1> QED
  BY <1>2, <1>3

--------------------------------------------------------------------------------
(***************************************************************************)
(* The book keeps its shape.                                               *)
(***************************************************************************)
LEMMA BookInitially == BookInit => BookOK
<1> SUFFICES ASSUME BookInit PROVE BookOK
  OBVIOUS
<1>1. /\ Opening.priceMinor \in Prices /\ Opening.polygon \in Polygons
      /\ Opening.terms \in TermsOffered
  BY PriceBookAssumption
<1>2. PICK z \in Zones, n \in Priorities :
        /\ products = [x \in Products |-> [priceMinor |-> Opening.priceMinor, isAvailable |-> TRUE]]
        /\ zones = [y \in Zones |->
                      IF y = z
                      THEN [isActive |-> TRUE, priority |-> n,
                            geojson |-> Opening.polygon, area |-> Opening.polygon]
                      ELSE [isActive |-> FALSE, priority |-> n,
                            geojson |-> NoPolygon, area |-> NoPolygon]]
        /\ rules = <<[zoneId |-> z, terms |-> Opening.terms, isActive |-> TRUE]>>
        /\ editing = [e \in Editors |-> NotEditing]
  BY DEF BookInit
<1>3. products \in [Products -> ProductRow]
  BY <1>1, <1>2 DEF ProductRow
<1>4. zones \in [Zones -> ZoneRow]
  BY <1>1, <1>2 DEF ZoneRow
<1>5. rules \in Seq(RuleRow)
  <2>1. [zoneId |-> z, terms |-> Opening.terms, isActive |-> TRUE] \in RuleRow
    BY <1>1, <1>2 DEF RuleRow
  <2> QED
    BY <1>2, <2>1
<1>6. editing \in [Editors -> [zone : Zones \cup {NoZone}, polygon : Polygons \cup {NoPolygon}]]
  BY <1>2 DEF NotEditing
<1> QED
  BY <1>3, <1>4, <1>5, <1>6 DEF BookOK

LEMMA ZoneSteps ==
  ASSUME BookOK, NEW e \in Editors, NEW z \in Zones, NEW b \in BOOLEAN, NEW n \in Priorities
  PROVE  /\ UpdateZone(e, z, b, n) => BookOK'
         /\ \A g \in Polygons : CreateZone(e, z, b, n, g) \/ RedrawZone(e, z, b, n, g) => BookOK'
<1>0. /\ zones \in [Zones -> ZoneRow] /\ zones[z] \in ZoneRow
      /\ editing \in [Editors -> [zone : Zones \cup {NoZone}, polygon : Polygons \cup {NoPolygon}]]
  BY DEF BookOK
<1>1. ASSUME UpdateZone(e, z, b, n) PROVE BookOK'
  <2> DEFINE row == [zones[z] EXCEPT !.isActive = b, !.priority = n]
  <2>1. zones' = [zones EXCEPT ![z] = row] /\ UNCHANGED <<products, rules, editing>>
    BY <1>1 DEF UpdateZone
  <2>2. row \in ZoneRow
    BY <1>0 DEF ZoneRow
  <2> HIDE DEF row
  <2> QED
    BY <2>1, <2>2 DEF BookOK
<1>2. ASSUME NEW g \in Polygons, NEW row \in ZoneRow, zones' = [zones EXCEPT ![z] = row],
             editing' = [editing EXCEPT ![e] = [zone |-> z, polygon |-> g]],
             UNCHANGED <<products, rules>>
      PROVE  BookOK'
  BY <1>2 DEF BookOK
<1>3. ASSUME NEW g \in Polygons, CreateZone(e, z, b, n, g) PROVE BookOK'
  <2> DEFINE row == [isActive |-> b, priority |-> n, geojson |-> g, area |-> NoPolygon]
  <2>1. row \in ZoneRow /\ zones' = [zones EXCEPT ![z] = row]
    BY <1>3 DEF CreateZone, ZoneRow
  <2> HIDE DEF row
  <2> QED
    BY <1>2, <1>3, <2>1 DEF CreateZone
<1>4. ASSUME NEW g \in Polygons, RedrawZone(e, z, b, n, g) PROVE BookOK'
  <2> DEFINE row == [zones[z] EXCEPT !.isActive = b, !.priority = n, !.geojson = g]
  <2>1. zones' = [zones EXCEPT ![z] = row]
    BY <1>4 DEF RedrawZone
  <2>2. row \in ZoneRow
    BY <1>0 DEF ZoneRow
  <2> HIDE DEF row
  <2> QED
    BY <1>2, <1>4, <2>1, <2>2 DEF RedrawZone
<1> QED
  BY <1>1, <1>3, <1>4

LEMMA RuleSteps ==
  ASSUME BookOK, NEW e \in Editors, NEW t \in TermsOffered, NEW b \in BOOLEAN
  PROVE  /\ \A z \in Zones : CreateRule(e, z, t, b) => BookOK'
         /\ \A i \in DOMAIN rules : UpdateRule(e, i, t, b) => BookOK'
<1>0. rules \in Seq(RuleRow)
  BY DEF BookOK
<1>1. ASSUME NEW z \in Zones, CreateRule(e, z, t, b) PROVE BookOK'
  <2> DEFINE row == [zoneId |-> z, terms |-> t, isActive |-> b]
  <2>1. row \in RuleRow /\ rules' = Append(rules, row) /\ UNCHANGED <<products, zones, editing>>
    BY <1>1 DEF CreateRule, RuleRow
  <2> HIDE DEF row
  <2>2. rules' \in Seq(RuleRow)
    BY <1>0, <2>1, AppendProperties
  <2> QED
    BY <2>1, <2>2 DEF BookOK
<1>2. ASSUME NEW i \in DOMAIN rules, UpdateRule(e, i, t, b) PROVE BookOK'
  <2> DEFINE row == [rules[i] EXCEPT !.terms = t, !.isActive = b]
  <2>1. i \in 1 .. Len(rules) /\ rules[i] \in RuleRow
    BY <1>0, LenProperties, ElementOfSeq
  <2>2. rules' = [rules EXCEPT ![i] = row] /\ UNCHANGED <<products, zones, editing>>
    BY <1>2 DEF UpdateRule
  <2>3. row \in RuleRow
    BY <2>1 DEF RuleRow
  <2> HIDE DEF row
  <2>4. rules' \in Seq(RuleRow)
    BY <1>0, <2>1, <2>2, <2>3, ExceptSeq
  <2> QED
    BY <2>2, <2>4 DEF BookOK
<1> QED
  BY <1>1, <1>2

LEMMA BookStep ==
  ASSUME BookOK, BookNext
  PROVE  BookOK'
<1>0. /\ zones \in [Zones -> ZoneRow] /\ products \in [Products -> ProductRow]
      /\ editing \in [Editors -> [zone : Zones \cup {NoZone}, polygon : Polygons \cup {NoPolygon}]]
  BY DEF BookOK
<1>1. ASSUME NEW e \in Editors, NEW x \in Products, NEW m \in Prices, NEW b \in BOOLEAN,
             UpdateProduct(e, x, m, b)
      PROVE  BookOK'
  <2> DEFINE row == [priceMinor |-> m, isAvailable |-> b]
  <2>1. row \in ProductRow /\ products' = [products EXCEPT ![x] = row]
        /\ UNCHANGED <<zones, rules, editing>>
    BY <1>1 DEF UpdateProduct, ProductRow
  <2> HIDE DEF row
  <2> QED
    BY <2>1 DEF BookOK
<1>2. ASSUME NEW e \in Editors, ProductEdit(e) PROVE BookOK'
  <2>1. ASSUME NEW x \in Products, DeleteProduct(e, x) PROVE BookOK'
    <3>1. products[x].priceMinor \in Prices
      BY <1>0 DEF ProductRow
    <3> QED
      BY <1>1, <2>1, <3>1 DEF DeleteProduct
  <2> QED
    BY <1>1, <1>2, <2>1 DEF ProductEdit
<1>3. ASSUME NEW e \in Editors, ZoneEdit(e) PROVE BookOK'
  BY <1>3, ZoneSteps, RuleSteps DEF ZoneEdit
<1>4. ASSUME NEW e \in Editors, SyncZoneArea(e) PROVE BookOK'
  <2> DEFINE z == editing[e].zone
             row == [zones[z] EXCEPT !.area = editing[e].polygon]
  <2>1. zones' = [zones EXCEPT ![z] = row] /\ editing' = [editing EXCEPT ![e] = NotEditing]
        /\ UNCHANGED <<products, rules>>
    BY <1>4 DEF SyncZoneArea
  <2>2. z \in Zones => row \in ZoneRow
    <3> SUFFICES ASSUME z \in Zones PROVE row \in ZoneRow
      OBVIOUS
    <3>1. zones[z] \in ZoneRow /\ editing[e].polygon \in Polygons \cup {NoPolygon}
      BY <1>0
    <3> QED
      BY <3>1 DEF ZoneRow
  <2>3. NotEditing \in [zone : Zones \cup {NoZone}, polygon : Polygons \cup {NoPolygon}]
    BY DEF NotEditing
  <2> HIDE DEF row, z
  <2> QED
    BY <1>0, <2>1, <2>2, <2>3 DEF BookOK
<1>5. ASSUME NEW e \in Editors, EditFails(e) PROVE BookOK'
  BY <1>5 DEF EditFails, BookOK, NotEditing
<1> QED
  BY <1>2, <1>3, <1>4, <1>5 DEF BookNext

--------------------------------------------------------------------------------
(***************************************************************************)
(* The shape of the rest, and the orders' totals.  Before an order is made *)
(* its request holds a snapshot that adds up to the lines it read.         *)
(***************************************************************************)
ReqRow == [pc : Pc, key : Keys \cup {NoKey}, body : Bodies \cup {NoBody},
           subtotal : Nat, zone : Zones \cup {NoZone}, snapshot : Snapshot,
           order : 0 .. MaxOrders]

OrderRow == [key : Keys \cup {NoKey}, body : Bodies, zoneId : Zones \cup {NoZone},
             subtotalMinor : Nat, pricing : Snapshot, totalMinor : Nat]

AnswerRow == [key : Keys, body : Bodies, order : OrderIds]

ReqOK(r) == r \in ReqRow /\ (r.pc = "commit" => Adds(r.subtotal, r.snapshot))

OrderOK(o) ==
  o \in OrderRow /\ Adds(o.subtotalMinor, o.pricing) /\ o.totalMinor = o.pricing.totalMinor

ShapeInv ==
  /\ BookOK
  /\ req \in [Requests -> ReqRow] /\ \A p \in Requests : ReqOK(req[p])
  /\ locks \subseteq Keys
  /\ window \in [count : 0 .. Limit, expires : BOOLEAN]
  /\ orders \in Seq(OrderRow) /\ \A i \in DOMAIN orders : OrderOK(orders[i])
  /\ answers \subseteq AnswerRow

CheckoutInv == KeyInv /\ ShapeInv

LEMMA IdleRow == Idle \in ReqRow /\ ReqOK(Idle)
<1>1. FreeOfCharge(0) \in Snapshot
  BY DEF FreeOfCharge, Snapshot
<1>2. 0 \in 0 .. MaxOrders
  BY CheckoutAssumption
<1> QED
  BY <1>1, <1>2 DEF Idle, ReqRow, ReqOK, Pc

LEMMA ShapeInitially == Init => ShapeInv
<1> SUFFICES ASSUME Init PROVE ShapeInv
  OBVIOUS
<1>1. BookOK
  BY BookInitially DEF Init
<1>2. req \in [Requests -> ReqRow] /\ \A p \in Requests : ReqOK(req[p])
  BY IdleRow DEF Init
<1>3. window \in [count : 0 .. Limit, expires : BOOLEAN]
  BY CheckoutAssumption DEF Init, NoWindow
<1>4. orders \in Seq(OrderRow) /\ DOMAIN orders = {}
  BY DEF Init
<1> QED
  BY <1>1, <1>2, <1>3, <1>4 DEF Init, ShapeInv

(* A request moves on, and nothing else changes but locks, window, answers. *)
LEMMA RequestMoves ==
  ASSUME ShapeInv, NEW p \in Requests, NEW r, ReqOK(r), req' = [req EXCEPT ![p] = r],
         UNCHANGED <<bookVars, orders>>,
         locks' \subseteq Keys, answers' \subseteq AnswerRow,
         window' \in [count : 0 .. Limit, expires : BOOLEAN]
  PROVE  ShapeInv'
<1>1. BookOK'
  BY DEF ShapeInv, BookOK, bookVars
<1>2. req' \in [Requests -> ReqRow] /\ \A q \in Requests : req'[q] = IF q = p THEN r ELSE req[q]
  BY DEF ShapeInv, ReqOK
<1> QED
  BY <1>1, <1>2 DEF ShapeInv

LEMMA GoesTo ==
  ASSUME ShapeInv, NEW p \in Requests, NEW pc \in Pc \ {"commit"}, Goto(p, pc) \/ Finish(p),
         UNCHANGED <<bookVars, orders>>,
         locks' \subseteq Keys, answers' \subseteq AnswerRow,
         window' \in [count : 0 .. Limit, expires : BOOLEAN]
  PROVE  ShapeInv'
<1>1. CASE Goto(p, pc)
  <2> DEFINE r == [req[p] EXCEPT !.pc = pc]
  <2>1. req' = [req EXCEPT ![p] = r]
    BY <1>1 DEF Goto
  <2>2. ReqOK(r)
    <3>1. req[p] \in ReqRow
      BY DEF ShapeInv
    <3>2. r \in ReqRow /\ r.pc = pc
      BY <3>1 DEF ReqRow
    <3> QED
      BY <3>2 DEF ReqOK
  <2> HIDE DEF r
  <2> QED
    BY <2>1, <2>2, RequestMoves
<1>2. CASE Finish(p)
  BY <1>2, IdleRow, RequestMoves DEF Finish
<1> QED
  BY <1>1, <1>2

(* An answer is of an order that was made with the key, of that body. *)
LEMMA AnswersOK ==
  ASSUME CheckoutInv, NEW p \in Requests, Replay(p) \/ Respond(p)
  PROVE  answers' \subseteq AnswerRow
<1>0. answers \subseteq AnswerRow
  BY DEF CheckoutInv, ShapeInv
<1>1. ASSUME NEW k \in Keys, NEW b, NEW o, [body |-> b, order |-> o] \in Made(k), Answer(k, b, o)
      PROVE  answers' \subseteq AnswerRow
  <2>1. b \in Bodies /\ o \in OrderIds
    BY <1>1, MadeIds DEF CheckoutInv
  <2>2. answers' = answers \cup {[key |-> k, body |-> b, order |-> o]}
    BY <1>1, CheckoutAssumption DEF Answer
  <2> QED
    BY <1>0, <2>1, <2>2 DEF AnswerRow
<1>2. CASE Replay(p)
  <2> DEFINE k == req[p].key
  <2>1. /\ req[p].pc = "lookup" /\ keyRows[k].body = req[p].body /\ keyRows[k].order # 0
        /\ Answer(k, req[p].body, keyRows[k].order)
    BY <1>2 DEF Replay
  <2>2. k \in Keys
    BY <2>1, RequestFacts DEF RequestOK, CheckoutInv
  <2>3. [body |-> req[p].body, order |-> keyRows[k].order] \in Made(k)
    BY <2>1, <2>2 DEF CheckoutInv, KeyInv, RowOK
  <2> QED
    BY <1>1, <2>1, <2>2, <2>3
<1>3. CASE Respond(p)
  <2>1. req[p].pc \in Done /\ Answer(req[p].key, req[p].body, req[p].order)
    BY <1>3 DEF Respond, Done
  <2>2. CASE req[p].key = NoKey
    BY <1>0, <2>1, <2>2 DEF Answer
  <2>3. CASE req[p].key # NoKey
    BY <1>1, <2>1, <2>3, Owner DEF CheckoutInv
  <2> QED
    BY <2>2, <2>3
<1> QED
  BY <1>2, <1>3

LEMMA ReadsProducts ==
  ASSUME CheckoutInv, NEW p \in Requests, ReadProducts(p)
  PROVE  ShapeInv'
<1>0. /\ ShapeInv /\ req[p] \in ReqRow /\ req[p].body \in Bodies /\ locks' \subseteq Keys
      /\ answers' \subseteq AnswerRow /\ window' \in [count : 0 .. Limit, expires : BOOLEAN]
      /\ UNCHANGED <<bookVars, orders>>
  BY RequestFacts DEF CheckoutInv, ShapeInv, ReadProducts, RequestOK
<1>1. CASE Finish(p)
  BY <1>0, <1>1, GoesTo DEF Pc
<1>2. CASE ~Finish(p)
  <2> DEFINE items == req[p].body.items
             r == [req[p] EXCEPT !.pc = "zone", !.subtotal = Subtotal(items)]
  <2>1. req' = [req EXCEPT ![p] = r]
    BY <1>2 DEF ReadProducts
  <2>2. Subtotal(items) \in Nat
    <3>1. /\ IsFiniteSet(DOMAIN items) /\ DOMAIN items \subseteq Products
          /\ \A x \in DOMAIN items : items[x] \in 1 .. 99
      BY <1>0, CheckoutAssumption DEF ValidBody
    <3>2. \A x \in DOMAIN items : products[x].priceMinor \in Nat
      BY <1>0, <3>1, PriceBookAssumption DEF ShapeInv, BookOK, ProductRow
    <3>3. \A x \in DOMAIN items : products[x].priceMinor * items[x] \in Nat
      BY <3>1, <3>2
    <3> HIDE DEF items
    <3> QED
      BY <3>1, <3>3, SubtotalIsNat
  <2>3. r \in ReqRow /\ r.pc = "zone"
    BY <1>0, <2>2 DEF ReqRow, Pc
  <2> HIDE DEF r, items
  <2>4. ReqOK(r)
    BY <2>3 DEF ReqOK
  <2> QED
    BY <1>0, <2>1, <2>4, RequestMoves
<1> QED
  BY <1>1, <1>2

LEMMA FindsZone ==
  ASSUME CheckoutInv, NEW p \in Requests, FindZone(p)
  PROVE  ShapeInv'
<1>1. PICK z \in ZonesForPoint(req[p].body.point) :
        req' = [req EXCEPT ![p].pc = "rule", ![p].zone = z]
  BY DEF FindZone
<1>2. z \in Zones \cup {NoZone}
  BY <1>1 DEF ZonesForPoint, Covering
<1> DEFINE r == [req[p] EXCEPT !.pc = "rule", !.zone = z]
<1>3. req' = [req EXCEPT ![p] = r]
  BY <1>1
<1>4. r \in ReqRow /\ r.pc = "rule"
  <2>1. req[p] \in ReqRow
    BY DEF CheckoutInv, ShapeInv
  <2> QED
    BY <1>2, <2>1 DEF ReqRow, Pc
<1> HIDE DEF r
<1>5. ReqOK(r)
  BY <1>4 DEF ReqOK
<1>6. /\ ShapeInv /\ UNCHANGED <<bookVars, orders>> /\ locks' \subseteq Keys
      /\ answers' \subseteq AnswerRow /\ window' \in [count : 0 .. Limit, expires : BOOLEAN]
  BY DEF CheckoutInv, ShapeInv, FindZone
<1> QED
  BY <1>3, <1>5, <1>6, RequestMoves

LEMMA ReadsRule ==
  ASSUME CheckoutInv, NEW p \in Requests, ReadRule(p)
  PROVE  ShapeInv'
<1>0. /\ ShapeInv /\ req[p] \in ReqRow /\ req[p].body \in Bodies /\ locks' \subseteq Keys
      /\ answers' \subseteq AnswerRow /\ window' \in [count : 0 .. Limit, expires : BOOLEAN]
      /\ UNCHANGED <<bookVars, orders>>
  BY RequestFacts DEF CheckoutInv, ShapeInv, ReadRule, RequestOK
<1>1. CASE Finish(p)
  BY <1>0, <1>1, GoesTo DEF Pc
<1>2. CASE ~Finish(p)
  <2> DEFINE s == Quote(req[p])
             r == [req[p] EXCEPT !.pc = "commit", !.snapshot = s]
  <2>1. req' = [req EXCEPT ![p] = r]
    BY <1>2 DEF ReadRule
  <2>2. s \in Snapshot /\ Adds(req[p].subtotal, s)
    BY <1>0, QuoteAddsUp DEF ShapeInv, ReqRow
  <2> HIDE DEF s
  <2>3. r \in ReqRow /\ r.subtotal = req[p].subtotal /\ r.snapshot = s
    BY <1>0, <2>2 DEF ReqRow, Pc
  <2> HIDE DEF r
  <2>4. ReqOK(r)
    BY <2>2, <2>3 DEF ReqOK
  <2> QED
    BY <1>0, <2>1, <2>4, RequestMoves
<1> QED
  BY <1>1, <1>2

LEMMA MakesOrder ==
  ASSUME CheckoutInv, NEW p \in Requests, CommitOrder(p)
  PROVE  ShapeInv'
<1> DEFINE o == [key |-> req[p].key, body |-> req[p].body, zoneId |-> req[p].zone,
                 subtotalMinor |-> req[p].subtotal, pricing |-> req[p].snapshot,
                 totalMinor |-> req[p].snapshot.totalMinor]
           n == Len(orders) + 1
           r == [req[p] EXCEPT !.pc = "respond", !.order = n]
<1>0. /\ ShapeInv /\ KeyInv /\ req[p] \in ReqRow /\ req[p].body \in Bodies
      /\ req[p].pc = "commit" /\ Adds(req[p].subtotal, req[p].snapshot)
      /\ orders' = Append(orders, o) /\ req' = [req EXCEPT ![p] = r]
      /\ UNCHANGED <<bookVars, keyRows, locks, window, answers>>
  BY RequestFacts DEF CheckoutInv, ShapeInv, CommitOrder, RequestOK, ReqOK
<1>1. n \in 0 .. MaxOrders
  BY <1>0, NextOrder DEF OrderIds
<1> HIDE DEF n
<1>2. r \in ReqRow /\ r.pc = "respond"
  BY <1>0, <1>1 DEF ReqRow, Pc
<1>3. o \in OrderRow
  BY <1>0 DEF ReqRow, OrderRow, Snapshot
<1>4. OrderOK(o)
  BY <1>0, <1>3 DEF OrderOK
<1> HIDE DEF o, r
<1>5. /\ orders' \in Seq(OrderRow)
      /\ DOMAIN orders' = DOMAIN orders \cup {Len(orders) + 1}
      /\ \A i \in DOMAIN orders : orders'[i] = orders[i]
      /\ orders'[Len(orders) + 1] = o
  <2>1. orders \in Seq(OrderRow) /\ OrdersOK
    BY <1>0 DEF ShapeInv, KeyInv
  <2> QED
    BY <1>0, <1>3, <2>1, AppendProperties, OneMore
<1>6. \A i \in DOMAIN orders' : OrderOK(orders'[i])
  BY <1>0, <1>4, <1>5 DEF ShapeInv
<1>7. req' \in [Requests -> ReqRow] /\ \A q \in Requests : ReqOK(req'[q])
  <2>1. req \in [Requests -> ReqRow] /\ (\A q \in Requests : ReqOK(req[q])) /\ ReqOK(r)
    BY <1>0, <1>2 DEF ShapeInv, ReqOK
  <2> QED
    BY <1>0, <1>2, <2>1
<1>8. BookOK'
  BY <1>0 DEF ShapeInv, BookOK, bookVars
<1> QED
  BY <1>0, <1>5, <1>6, <1>7, <1>8 DEF ShapeInv

LEMMA ShapeStep ==
  ASSUME CheckoutInv, [Next]_checkoutVars
  PROVE  ShapeInv'
<1>0. /\ ShapeInv /\ KeyInv /\ locks \subseteq Keys /\ answers \subseteq AnswerRow
      /\ window \in [count : 0 .. Limit, expires : BOOLEAN]
      /\ \A p \in Requests : RequestOK(req[p])
  BY RequestFacts DEF CheckoutInv, ShapeInv
<1>1. ASSUME NEW p \in Requests, NEW s \in Sent, Arrive(p, s[1], s[2])
      PROVE  ShapeInv'
  <2> DEFINE pc == IF window.count = 0 THEN "expire" ELSE Interceptor(s[1])
             r == [Idle EXCEPT !.key = s[1], !.body = s[2], !.pc = pc]
  <2>1. s[1] \in Keys \cup {NoKey} /\ s[2] \in Bodies
    BY CheckoutAssumption
  <2>2. pc \in Pc \ {"commit"}
    BY DEF Interceptor, Pc
  <2>3. req' = [req EXCEPT ![p] = r] /\ UNCHANGED <<bookVars, keyRows, locks, orders, answers>>
    BY <1>1 DEF Arrive
  <2> HIDE DEF pc
  <2>4. r \in ReqRow /\ r.pc = pc
    BY <2>1, <2>2, IdleRow DEF ReqRow, Idle
  <2>5. window' \in [count : 0 .. Limit, expires : BOOLEAN]
    BY <1>0, <1>1, CheckoutAssumption DEF Arrive
  <2> HIDE DEF r
  <2>6. ReqOK(r)
    BY <2>2, <2>4 DEF ReqOK
  <2> QED
    BY <1>0, <2>3, <2>5, <2>6, RequestMoves
<1>2. ASSUME NEW p \in Requests, Expire(p)
      PROVE  ShapeInv'
  <2>1. Interceptor(req[p].key) \in Pc \ {"commit"}
    BY DEF Interceptor, Pc
  <2>2. window' \in [count : 0 .. Limit, expires : BOOLEAN]
    <3> DEFINE b == window.count > 0
    <3>1. window' = [window EXCEPT !.expires = b] /\ b \in BOOLEAN
      BY <1>2 DEF Expire
    <3> HIDE DEF b
    <3> QED
      BY <1>0, <3>1
  <2> QED
    BY <1>0, <1>2, <2>1, <2>2, GoesTo DEF Expire
<1>3. ASSUME NEW p \in Requests, LookUp(p) \/ Replay(p)
      PROVE  ShapeInv'
  <2>1. answers' \subseteq AnswerRow
    BY <1>0, <1>3, AnswersOK DEF LookUp
  <2>2. Goto(p, "lock") \/ Finish(p)
    BY <1>3 DEF LookUp, Replay
  <2>3. UNCHANGED <<bookVars, orders, locks, window>>
    BY <1>3 DEF LookUp, Replay
  <2> QED
    BY <1>0, <2>1, <2>2, <2>3, GoesTo DEF Pc
<1>4. ASSUME NEW p \in Requests, AcquireLock(p)
      PROVE  ShapeInv'
  <2>1. req[p].key \in Keys
    BY <1>0, <1>4 DEF AcquireLock, RequestOK
  <2>2. locks' \subseteq Keys /\ (Goto(p, "insert") \/ Finish(p))
        /\ UNCHANGED <<bookVars, orders, answers, window>>
    BY <1>0, <1>4, <2>1 DEF AcquireLock
  <2> QED
    BY <1>0, <2>2, GoesTo DEF Pc
<1>5. ASSUME NEW p \in Requests, InsertKey(p) \/ Fail(p)
      PROVE  ShapeInv'
  <2>1. Goto(p, "products") \/ Finish(p)
    BY <1>5 DEF InsertKey, Fail
  <2>2. UNCHANGED <<bookVars, locks, window, orders, answers>>
    BY <1>5 DEF InsertKey, Fail
  <2> QED
    BY <1>0, <2>1, <2>2, GoesTo DEF Pc
<1>6. ASSUME NEW p \in Requests, Respond(p)
      PROVE  ShapeInv'
  <2>1. answers' \subseteq AnswerRow
    BY <1>6, AnswersOK
  <2>2. (Goto(p, "told") \/ Finish(p)) /\ UNCHANGED <<bookVars, orders, locks, window>>
    BY <1>6 DEF Respond
  <2> QED
    BY <1>0, <2>1, <2>2, GoesTo DEF Pc
<1>7. ASSUME NEW p \in Requests, Persist(p)
      PROVE  ShapeInv'
  <2>1. (Goto(p, "stored") \/ Finish(p)) /\ UNCHANGED <<bookVars, orders, locks, window, answers>>
    BY <1>7 DEF Persist
  <2> QED
    BY <1>0, <2>1, GoesTo DEF Pc
<1>8. CASE WindowEnds \/ \E k \in Keys : LockEnds(k)
  <2>1. UNCHANGED <<bookVars, req, orders, answers>>
    BY <1>8 DEF WindowEnds, LockEnds
  <2>2. locks' \subseteq Keys
    BY <1>0, <1>8 DEF WindowEnds, LockEnds
  <2>3. window' \in [count : 0 .. Limit, expires : BOOLEAN]
    <3>1. NoWindow \in [count : 0 .. Limit, expires : BOOLEAN]
      BY CheckoutAssumption DEF NoWindow
    <3> QED
      BY <1>0, <1>8, <3>1 DEF WindowEnds, LockEnds
  <2> QED
    BY <1>0, <2>1, <2>2, <2>3 DEF ShapeInv, BookOK, bookVars
<1>9. CASE BookNext /\ UNCHANGED webVars
  <2>1. BookOK'
    BY <1>0, <1>9, BookStep DEF ShapeInv
  <2> QED
    BY <1>0, <1>9, <2>1 DEF ShapeInv, webVars
<1>10. CASE UNCHANGED checkoutVars
  BY <1>0, <1>10 DEF ShapeInv, checkoutVars, webVars, bookVars, BookOK
<1> QED
  BY <1>1, <1>2, <1>3, <1>4, <1>5, <1>6, <1>7, <1>8, <1>9, <1>10, ReadsProducts, FindsZone,
     ReadsRule, MakesOrder
  DEF Next, Step

LEMMA CheckoutInitially == Init => CheckoutInv
  BY KeysInitially, ShapeInitially DEF CheckoutInv

LEMMA CheckoutStep == CheckoutInv /\ [Next]_checkoutVars => CheckoutInv'
  BY KeysStep, ShapeStep DEF CheckoutInv

(* The tables, Redis and the requests keep their shape, for any products,  *)
(* quantities, prices and terms: PricingService never makes a fee that is  *)
(* negative or no whole number of minor units, whatever rounding, surge    *)
(* and free delivery do.                                                   *)
THEOREM CheckoutTypeCorrect == Spec => []CheckoutTypeOK
<1>1. CheckoutInv => CheckoutTypeOK
  BY DEF CheckoutInv, ShapeInv, KeyInv, BookOK, ReqRow, OrderRow, AnswerRow, CheckoutTypeOK
<1> QED
  BY <1>1, CheckoutInitially, CheckoutStep, PTL DEF Spec

(* OrdersService.create stores a total that its own row explains, though   *)
(* products, zones and rules are read in queries of their own while        *)
(* managers edit them.                                                     *)
THEOREM TotalCorrect == Spec => []TotalIsReproducible
<1>1. CheckoutInv => TotalIsReproducible
  BY DEF CheckoutInv, ShapeInv, OrderOK, Adds, TotalIsReproducible
<1> QED
  BY <1>1, CheckoutInitially, CheckoutStep, PTL DEF Spec

--------------------------------------------------------------------------------
(***************************************************************************)
(* An order stays replayable.  A key has one order at most, and a request  *)
(* that has made an order knows which.                                     *)
(***************************************************************************)
OneOrder == \A k \in Keys : \A a, b \in Made(k) : a = b

KnowsOrder ==
  \A p \in Requests : req[p].pc \in Done =>
    req[p].order \in DOMAIN orders /\ orders[req[p].order].key = req[p].key

ReplayInv == CheckoutInv /\ OneOrder /\ KnowsOrder

LEMMA ReplayInitially == Init => ReplayInv
<1> SUFFICES ASSUME Init PROVE ReplayInv
  OBVIOUS
<1>1. DOMAIN orders = {} /\ \A p \in Requests : req[p] = Idle
  BY DEF Init
<1>2. OneOrder
  BY <1>1 DEF OneOrder, Made
<1>3. KnowsOrder
  BY <1>1 DEF KnowsOrder, Idle, Done
<1> QED
  BY <1>2, <1>3, CheckoutInitially DEF ReplayInv

(* What a step of a request other than CommitOrder does to the requests.   *)
LEMMA RequestSteps ==
  ASSUME CheckoutInv, NEW p \in Requests,
         (Step(p) /\ ~CommitOrder(p)) \/ \E s \in Sent : Arrive(p, s[1], s[2])
  PROVE  /\ orders' = orders
         /\ \A q \in Requests : q # p => req'[q] = req[q]
         /\ req'[p].pc \in Done =>
              /\ req[p].pc \in Done
              /\ req'[p].order = req[p].order /\ req'[p].key = req[p].key
         /\ req'[p].pc = "expire" => window.count = 0
         /\ req[p].pc = "expire" => Expire(p) \/ Fail(p)
<1>0. /\ req \in [Requests -> ReqRow] /\ req[p] \in ReqRow
  BY DEF CheckoutInv, ShapeInv
<1>1. CASE Finish(p)
  <2>1. req'[p] = Idle /\ \A q \in Requests : q # p => req'[q] = req[q]
    BY <1>0, <1>1 DEF Finish
  <2>2. Idle.pc = "idle"
    BY DEF Idle
  <2>3. orders' = orders /\ (req[p].pc = "expire" => Expire(p) \/ Fail(p))
    <3>1. CASE Step(p) /\ ~CommitOrder(p)
      BY <3>1 DEF Step, Expire, LookUp, Replay, AcquireLock, InsertKey, ReadProducts, FindZone,
                  ReadRule, Respond, Persist, Fail
    <3>2. CASE \E s \in Sent : Arrive(p, s[1], s[2])
      BY <2>2, <3>2 DEF Arrive
    <3> QED
      BY <3>1, <3>2
  <2> QED
    BY <2>1, <2>2, <2>3 DEF Done
<1>2. ASSUME NEW pc, Goto(p, pc)
      PROVE  /\ req'[p].pc = pc /\ req'[p].key = req[p].key /\ req'[p].order = req[p].order
             /\ \A q \in Requests : q # p => req'[q] = req[q]
  BY <1>0, <1>2 DEF Goto, ReqRow
<1>3. CASE Expire(p)
  <2>1. Goto(p, Interceptor(req[p].key)) /\ Interceptor(req[p].key) \in {"products", "lookup"}
        /\ orders' = orders
    BY <1>3 DEF Expire, Interceptor
  <2> QED
    BY <1>2, <1>3, <2>1 DEF Done
<1>4. CASE ~Finish(p) /\ (LookUp(p) \/ AcquireLock(p) \/ InsertKey(p))
  <2>1. \E pc \in {"lock", "insert", "products"} : Goto(p, pc)
    BY <1>4 DEF LookUp, AcquireLock, InsertKey
  <2>2. orders' = orders /\ req[p].pc # "expire"
    BY <1>4 DEF LookUp, AcquireLock, InsertKey
  <2> QED
    BY <1>2, <2>1, <2>2 DEF Done
<1>5. CASE ~Finish(p) /\ (Respond(p) \/ Persist(p))
  <2>1. \E pc \in {"told", "stored"} : Goto(p, pc)
    BY <1>5 DEF Respond, Persist
  <2>2. orders' = orders /\ req[p].pc \in Done
    BY <1>5 DEF Respond, Persist, Done
  <2> QED
    BY <1>2, <2>1, <2>2 DEF Done
<1>6. CASE ~Finish(p) /\ (ReadProducts(p) \/ FindZone(p) \/ ReadRule(p))
  <2>1. orders' = orders /\ req[p].pc # "expire"
    BY <1>6 DEF ReadProducts, FindZone, ReadRule
  <2>2. \E pc \in {"zone", "rule", "commit"} :
          req'[p].pc = pc /\ \A q \in Requests : q # p => req'[q] = req[q]
    <3>1. CASE ReadProducts(p)
      BY <1>0, <1>6, <3>1 DEF ReadProducts, ReqRow
    <3>2. CASE FindZone(p)
      BY <1>0, <3>2 DEF FindZone, ReqRow
    <3>3. CASE ReadRule(p)
      <4> DEFINE s == Quote(req[p])
      <4>1. req' = [req EXCEPT ![p].pc = "commit", ![p].snapshot = s]
        BY <1>6, <3>3 DEF ReadRule
      <4> HIDE DEF s
      <4> QED
        BY <1>0, <4>1 DEF ReqRow
    <3> QED
      BY <1>6, <3>1, <3>2, <3>3
  <2> QED
    BY <2>1, <2>2 DEF Done
<1>7. ASSUME NEW s \in Sent, Arrive(p, s[1], s[2])
      PROVE  /\ orders' = orders /\ req[p].pc = "idle"
             /\ \A q \in Requests : q # p => req'[q] = req[q]
             /\ req'[p].pc \notin Done
             /\ req'[p].pc = "expire" => window.count = 0
  <2> DEFINE pc == IF window.count = 0 THEN "expire" ELSE Interceptor(s[1])
             r == [Idle EXCEPT !.key = s[1], !.body = s[2], !.pc = pc]
  <2>1. req' = [req EXCEPT ![p] = r] /\ orders' = orders /\ req[p] = Idle
    BY <1>7 DEF Arrive
  <2>2. pc \notin Done /\ (pc = "expire" => window.count = 0)
    BY DEF Interceptor, Done
  <2> HIDE DEF pc
  <2>3. r.pc = pc /\ Idle.pc = "idle"
    BY DEF Idle
  <2> HIDE DEF r
  <2> QED
    BY <1>0, <2>1, <2>2, <2>3
<1>8. Replay(p) \/ Fail(p) => Finish(p)
  BY DEF Replay, Fail
<1> QED
  BY <1>1, <1>3, <1>4, <1>5, <1>6, <1>7, <1>8 DEF Step

(* What making an order does. *)
LEMMA CommitFacts ==
  ASSUME CheckoutInv, NEW p \in Requests, CommitOrder(p)
  PROVE  /\ DOMAIN orders' = DOMAIN orders \cup {Len(orders) + 1}
         /\ \A i \in DOMAIN orders : orders'[i] = orders[i]
         /\ Len(orders) + 1 \notin DOMAIN orders
         /\ orders'[Len(orders) + 1].key = req[p].key
         /\ req'[p].pc = "respond" /\ req'[p].order = Len(orders) + 1 /\ req'[p].key = req[p].key
         /\ \A q \in Requests : q # p => req'[q] = req[q]
         /\ keyRows' = keyRows /\ req[p].pc = "commit"
<1> DEFINE o == [key |-> req[p].key, body |-> req[p].body, zoneId |-> req[p].zone,
                 subtotalMinor |-> req[p].subtotal, pricing |-> req[p].snapshot,
                 totalMinor |-> req[p].snapshot.totalMinor]
           n == Len(orders) + 1
           r == [req[p] EXCEPT !.pc = "respond", !.order = n]
<1>1. /\ OrdersOK /\ req \in [Requests -> ReqRow] /\ req[p] \in ReqRow
      /\ orders' = Append(orders, o) /\ req' = [req EXCEPT ![p] = r]
      /\ keyRows' = keyRows /\ req[p].pc = "commit"
  BY DEF CheckoutInv, KeyInv, ShapeInv, CommitOrder
<1>2. r.pc = "respond" /\ r.order = n /\ r.key = req[p].key
  <2> HIDE DEF n
  <2> QED
    BY <1>1 DEF ReqRow
<1>3. o.key = req[p].key
  OBVIOUS
<1> HIDE DEF o, r
<1>4. /\ DOMAIN orders' = DOMAIN orders \cup {n} /\ n \notin DOMAIN orders
      /\ \A i \in DOMAIN orders : orders'[i] = orders[i]
      /\ orders'[n] = o
  BY <1>1, OneMore
<1> HIDE DEF n
<1>5. req'[p] = r /\ \A q \in Requests : q # p => req'[q] = req[q]
  BY <1>1
<1> QED
  BY <1>1, <1>2, <1>3, <1>4, <1>5 DEF n

LEMMA ReplayStep ==
  ASSUME ReplayInv, [Next]_checkoutVars
  PROVE  ReplayInv'
<1>0. CheckoutInv /\ CheckoutInv' /\ KeyInv /\ OneOrder /\ KnowsOrder
  BY CheckoutStep DEF ReplayInv, CheckoutInv
<1>1. ASSUME orders' = orders
      PROVE  OneOrder'
  BY <1>0, <1>1 DEF OneOrder, Made
<1>2. ASSUME NEW p \in Requests,
             (Step(p) /\ ~CommitOrder(p)) \/ \E s \in Sent : Arrive(p, s[1], s[2])
      PROVE  OneOrder' /\ KnowsOrder'
  <2>1. KnowsOrder'
    BY <1>0, <1>2, RequestSteps DEF KnowsOrder
  <2> QED
    BY <1>0, <1>1, <1>2, <2>1, RequestSteps
<1>3. ASSUME NEW p \in Requests, CommitOrder(p)
      PROVE  OneOrder' /\ KnowsOrder'
  <2>1. KnowsOrder'
    BY <1>0, <1>3, CommitFacts DEF KnowsOrder
  <2>2. ASSUME NEW k \in Keys
        PROVE  \A a, b \in Made(k)' : a = b
    <3>1. CASE k = req[p].key
      <4>1. req[p].pc \in Making /\ req[p].key # NoKey
        BY <1>3, <3>1, CheckoutAssumption DEF CommitOrder, Making
      <4>2. Made(k) = {}
        BY <1>0, <3>1, <4>1, Owner
      <4>3. Made(k)' = Made(k) \cup {[body |-> req[p].body, order |-> Len(orders) + 1]}
        BY <1>0, <1>3, <3>1, NextOrder
      <4> QED
        BY <4>2, <4>3
    <3>2. CASE k # req[p].key
      <4>1. Made(k)' = Made(k)
        BY <1>0, <1>3, <3>2, NextOrder
      <4> QED
        BY <1>0, <4>1 DEF OneOrder
    <3> QED
      BY <3>1, <3>2
  <2> QED
    BY <2>1, <2>2 DEF OneOrder
<1>4. ASSUME req' = req, orders' = orders
      PROVE  OneOrder' /\ KnowsOrder'
  <2>1. KnowsOrder'
    BY <1>0, <1>4 DEF KnowsOrder
  <2> QED
    BY <1>1, <1>4, <2>1
<1>5. OneOrder' /\ KnowsOrder'
  <2>1. CASE WindowEnds \/ (\E k \in Keys : LockEnds(k)) \/ (BookNext /\ UNCHANGED webVars)
               \/ UNCHANGED checkoutVars
    BY <1>4, <2>1 DEF WindowEnds, LockEnds, webVars, checkoutVars
  <2> QED
    BY <1>2, <1>3, <2>1 DEF Next
<1> QED
  BY <1>0, <1>5 DEF ReplayInv

(* The rows of the keys: only Persist stores an order, its own.            *)
LEMMA Stored ==
  ASSUME ReplayInv, [Next]_checkoutVars, NEW k \in Keys, NEW i \in DOMAIN orders,
         orders[i].key = k, keyRows[k].order = i
  PROVE  keyRows'[k].order = i
<1>0. /\ KeyInv /\ keyRows \in [Keys -> KeyRow] /\ i # 0
  <2>1. DOMAIN orders = 1 .. Len(orders)
    BY LenProperties DEF ReplayInv, CheckoutInv, ShapeInv
  <2> QED
    BY <2>1 DEF ReplayInv, CheckoutInv, KeyInv
<1>1. ASSUME NEW p \in Requests, InsertKey(p)
      PROVE  keyRows'[k].order = i
  <2>1. keyRows[k] # NoRow
    BY <1>0 DEF NoRow
  <2>2. CASE keyRows' = keyRows
    BY <2>2
  <2>3. CASE /\ keyRows[req[p].key] = NoRow
             /\ keyRows' = [keyRows EXCEPT ![req[p].key] = [NoRow EXCEPT !.body = req[p].body]]
    BY <1>0, <2>1, <2>3
  <2> QED
    BY <1>1, <2>2, <2>3 DEF InsertKey
<1>2. ASSUME NEW p \in Requests, Persist(p)
      PROVE  keyRows'[k].order = i
  <2>1. /\ req[p].pc \in Done /\ req[p].key # NoKey
        /\ keyRows' = [keyRows EXCEPT ![req[p].key].order = req[p].order]
    BY <1>2 DEF Persist, Done
  <2>2. CASE req[p].key = k
    <3>1. [body |-> req[p].body, order |-> req[p].order] \in Made(k)
      BY <1>0, <2>1, <2>2, Owner
    <3>2. [body |-> orders[i].body, order |-> i] \in Made(k)
      BY DEF Made
    <3>3. req[p].order = i
      BY <3>1, <3>2 DEF ReplayInv, OneOrder
    <3>4. keyRows[k] \in KeyRow
      BY <1>0
    <3> QED
      BY <1>0, <2>1, <2>2, <3>3, <3>4 DEF KeyRow
  <2>3. CASE req[p].key # k
    BY <1>0, <2>1, <2>3
  <2> QED
    BY <2>2, <2>3
<1>3. CASE keyRows' = keyRows
  BY <1>3
<1> QED
  BY <1>1, <1>2, <1>3
  DEF Next, Step, Arrive, Expire, LookUp, Replay, AcquireLock, ReadProducts, FindZone, ReadRule,
      CommitOrder, Respond, Fail, WindowEnds, LockEnds, webVars, checkoutVars

LEMMA StaysReplayable ==
  ASSUME ReplayInv, [Next]_checkoutVars, \A p \in Requests : ~Fail(p),
         NEW i \in DOMAIN orders, Replayable(i)
  PROVE  Replayable(i)'
<1> DEFINE k == orders[i].key
<1>0. /\ CheckoutInv /\ KeyInv /\ KnowsOrder /\ keyRows \in [Keys -> KeyRow]
      /\ k \in Keys \cup {NoKey}
      /\ req \in [Requests -> ReqRow]
  <2>1. OrderOK(orders[i])
    BY DEF ReplayInv, CheckoutInv, ShapeInv
  <2> QED
    BY <2>1 DEF ReplayInv, CheckoutInv, ShapeInv, KeyInv, OrderOK, OrderRow
<1>1. orders'[i].key = k
  <2>1. CASE orders' = orders
    BY <2>1
  <2>2. ASSUME NEW p \in Requests, CommitOrder(p) PROVE orders'[i].key = k
    BY <1>0, <2>2, CommitFacts
  <2> QED
    BY <2>1, <2>2
    DEF Next, Step, Arrive, Expire, LookUp, Replay, AcquireLock, InsertKey, ReadProducts, FindZone,
        ReadRule, Respond, Persist, Fail, WindowEnds, LockEnds, webVars, checkoutVars
<1>2. CASE k = NoKey
  BY <1>1, <1>2 DEF Replayable
<1>3. CASE k # NoKey /\ keyRows[k].order = i
  BY <1>0, <1>1, <1>3, Stored DEF Replayable
<1>4. ASSUME k # NoKey,
             NEW p \in Requests, req[p].pc \in {"respond", "told"}, req[p].order = i
      PROVE  Replayable(i)'
  <2>1. req[p].pc \in Done /\ req[p].key = k /\ k \in Keys
    BY <1>0, <1>4 DEF KnowsOrder, Done
  <2>2. CASE Persist(p)
    <3>1. keyRows' = [keyRows EXCEPT ![k].order = i]
      BY <1>4, <2>1, <2>2 DEF Persist
    <3>2. keyRows'[k].order = i
      BY <1>0, <2>1, <3>1 DEF KeyRow
    <3> QED
      BY <1>1, <3>2 DEF Replayable
  <2>3. CASE Respond(p)
    <3>1. req[p].pc = "respond" /\ Goto(p, "told")
      BY <1>4, <2>1, <2>3 DEF Respond
    <3>2. req'[p].pc = "told" /\ req'[p].order = i
      BY <1>0, <1>4, <3>1 DEF Goto, ReqRow
    <3> QED
      BY <3>2 DEF Replayable
  <2>4. CASE req'[p] = req[p]
    BY <1>4, <2>4 DEF Replayable
  <2>5. ASSUME NEW q \in Requests \ {p},
               Step(q) \/ \E s \in Sent : Arrive(q, s[1], s[2])
        PROVE  req'[p] = req[p]
    <3>1. CASE CommitOrder(q)
      BY <1>0, <2>5, <3>1, CommitFacts
    <3>2. CASE ~CommitOrder(q)
      BY <1>0, <2>5, <3>2, RequestSteps
    <3> QED
      BY <3>1, <3>2
  <2>6. ASSUME Step(p) \/ \E s \in Sent : Arrive(p, s[1], s[2])
        PROVE  Persist(p) \/ Respond(p)
    <3>1. req[p] # Idle
      BY <1>4 DEF Idle
    <3>2. ~Fail(p) /\ Step(p)
      BY <2>6, <3>1 DEF Arrive
    <3> QED
      BY <1>4, <3>2
      DEF Step, Expire, LookUp, Replay, AcquireLock, InsertKey, ReadProducts, FindZone, ReadRule,
          CommitOrder
  <2>7. CASE UNCHANGED req
    BY <2>4, <2>7
  <2> QED
    BY <2>2, <2>3, <2>4, <2>5, <2>6, <2>7
    DEF Next, WindowEnds, LockEnds, webVars, checkoutVars
<1> QED
  BY <1>2, <1>3, <1>4 DEF Replayable

(* An order that OrdersService.create makes with a key can be replayed, or *)
(* its response is about to be stored: without a failure in between, no    *)
(* step of any request, and no lock that Redis loses, ends that.           *)
THEOREM ReplayCorrect == Spec => OrdersStayReplayable
<1>1. ASSUME ReplayInv, [Next]_checkoutVars, \A p \in Requests : ~Fail(p),
             NEW i \in DOMAIN orders', i \in DOMAIN orders => Replayable(i)
      PROVE  Replayable(i)'
  <2>1. CASE i \in DOMAIN orders
    BY <1>1, <2>1, StaysReplayable
  <2>2. CASE i \notin DOMAIN orders
    <3>1. PICK p \in Requests : CommitOrder(p)
      BY <1>1, <2>2
      DEF Next, Step, Arrive, Expire, LookUp, Replay, AcquireLock, InsertKey, ReadProducts,
          FindZone, ReadRule, Respond, Persist, Fail, WindowEnds, LockEnds, webVars, checkoutVars
    <3>2. req'[p].pc = "respond" /\ req'[p].order = i
      BY <1>1, <2>2, <3>1, CommitFacts DEF ReplayInv
    <3> QED
      BY <3>2 DEF Replayable
  <2> QED
    BY <2>1, <2>2
<1>2. ReplayInv /\ [Next]_checkoutVars =>
        [(\A p \in Requests : ~Fail(p)) =>
           \A i \in DOMAIN orders' :
             (i \in DOMAIN orders => Replayable(i)) => Replayable(i)']_checkoutVars
  BY <1>1
<1> QED
  BY <1>2, ReplayInitially, ReplayStep, PTL DEF Spec, OrdersStayReplayable

--------------------------------------------------------------------------------
(* A counter of the order-create bucket keeps an end: RateLimitGuard lets  *)
(* the request that starts it set the expiry, and no other request, edit   *)
(* or passing of a window takes the expiry, or that request, away.         *)
THEOREM CounterCorrect == Spec => CountersKeepEnding
<1>1. ASSUME CheckoutInv, [Next]_checkoutVars, \A p \in Requests : ~Fail(p), CounterEnds
      PROVE  CounterEnds'
  <2>0. /\ window \in [count : 0 .. Limit, expires : BOOLEAN] /\ Limit \in Nat
        /\ req \in [Requests -> ReqRow]
    BY <1>1, CheckoutAssumption DEF CheckoutInv, ShapeInv
  <2>1. ASSUME UNCHANGED window,
               \A p \in Requests : req[p].pc = "expire" => req'[p].pc = "expire"
        PROVE  CounterEnds'
    BY <1>1, <2>1 DEF CounterEnds
  <2>2. ASSUME NEW p \in Requests, NEW s \in Sent, Arrive(p, s[1], s[2])
        PROVE  CounterEnds'
    <3>1. /\ window' = [window EXCEPT !.count = @ + 1] /\ req[p].pc # "expire"
          /\ \A q \in Requests : q # p => req'[q] = req[q]
      <4>1. Idle.pc # "expire"
        BY DEF Idle
      <4> QED
        BY <2>0, <2>2, <4>1 DEF Arrive
    <3>2. window'.expires = window.expires
      BY <2>0, <3>1
    <3>3. CASE window.count > 0
      BY <1>1, <3>1, <3>2, <3>3 DEF CounterEnds
    <3>4. CASE window.count = 0
      <4> DEFINE r == [Idle EXCEPT !.key = s[1], !.body = s[2], !.pc = "expire"]
      <4>1. req' = [req EXCEPT ![p] = r]
        BY <2>2, <3>4 DEF Arrive
      <4>2. r.pc = "expire"
        BY DEF Idle
      <4> HIDE DEF r
      <4> QED
        BY <2>0, <4>1, <4>2 DEF CounterEnds
    <3> QED
      BY <2>0, <3>3, <3>4
  <2>3. ASSUME NEW p \in Requests, Expire(p)
        PROVE  CounterEnds'
    <3>1. window'.count = window.count /\ window'.expires = (window.count > 0)
      BY <2>0, <2>3 DEF Expire
    <3> QED
      BY <3>1 DEF CounterEnds
  <2>4. ASSUME NEW p \in Requests, Step(p), ~Expire(p)
        PROVE  CounterEnds'
    <3>1. UNCHANGED window
      BY <1>1, <2>4
      DEF Step, LookUp, Replay, AcquireLock, InsertKey, ReadProducts, FindZone, ReadRule,
          CommitOrder, Respond, Persist
    <3>2. req[p].pc # "expire"
      BY <1>1, <2>4
      DEF Step, LookUp, Replay, AcquireLock, InsertKey, ReadProducts, FindZone, ReadRule,
          CommitOrder, Respond, Persist
    <3>3. \A q \in Requests : q # p => req'[q] = req[q]
      BY <1>1, <2>4, RequestSteps, CommitFacts
    <3> QED
      BY <2>1, <3>1, <3>2, <3>3
  <2>5. CASE WindowEnds
    BY <2>5 DEF WindowEnds, NoWindow, CounterEnds
  <2>6. CASE (\E k \in Keys : LockEnds(k)) \/ (BookNext /\ UNCHANGED webVars)
             \/ UNCHANGED checkoutVars
    <3>1. UNCHANGED <<req, window>>
      BY <2>6 DEF LockEnds, webVars, checkoutVars
    <3> QED
      BY <2>1, <3>1
  <2> QED
    BY <1>1, <2>2, <2>3, <2>4, <2>5, <2>6 DEF Next
<1>2. CheckoutInv /\ [Next]_checkoutVars =>
        [(\A p \in Requests : ~Fail(p)) => (CounterEnds => CounterEnds')]_checkoutVars
  BY <1>1
<1> QED
  BY <1>2, CheckoutInitially, CheckoutStep, PTL DEF Spec, CountersKeepEnding

--------------------------------------------------------------------------------
(***************************************************************************)
(* The two copies of a zone's polygon.                                     *)
(***************************************************************************)
LEMMA Redraws ==
  ASSUME BookOK, NEW e \in Editors, NEW y \in Zones, NEW g \in Polygons,
         editing[e] = NotEditing,
         editing' = [editing EXCEPT ![e] = [zone |-> y, polygon |-> g]],
         zones' = [zones EXCEPT ![y] = zones'[y]], zones'[y].geojson = g,
         NEW z \in Zones, Settled(z)
  PROVE  Settled(z)' \/ Overlap(z)'
<1>1. /\ editing'[e].zone = y /\ editing'[e].polygon = g
      /\ \A f \in Editors : f # e => editing'[f] = editing[f]
  BY DEF BookOK
<1>2. CASE z = y
  <2>1. CASE \E f \in Editors : f # e /\ editing[f].zone = z
    BY <1>1, <1>2, <2>1 DEF Overlap
  <2>2. CASE \A f \in Editors : f # e => editing[f].zone # z
    BY <1>1, <1>2, <2>2 DEF Settled
  <2> QED
    BY <2>1, <2>2
<1>3. CASE z # y
  <2>1. zones'[z] = zones[z]
    BY <1>3 DEF BookOK
  <2>2. editing[e].zone # z
    BY PriceBookAssumption DEF NotEditing
  <2> QED
    BY <1>1, <1>3, <2>1, <2>2 DEF Settled
<1> QED
  BY <1>2, <1>3

LEMMA StaysSettled ==
  ASSUME BookOK, BookNext, \A e \in Editors : ~EditFails(e), NEW z \in Zones, Settled(z)
  PROVE  Settled(z)' \/ Overlap(z)'
<1>0. /\ zones \in [Zones -> ZoneRow]
      /\ editing \in [Editors -> [zone : Zones \cup {NoZone}, polygon : Polygons \cup {NoPolygon}]]
  BY DEF BookOK
<1>1. ASSUME UNCHANGED editing,
             zones'[z].geojson = zones[z].geojson /\ zones'[z].area = zones[z].area
      PROVE  Settled(z)'
  BY <1>1 DEF Settled
<1>2. ASSUME NEW e \in Editors, NEW y \in Zones, NEW b \in BOOLEAN, NEW n \in Priorities,
             UpdateZone(e, y, b, n)
      PROVE  Settled(z)'
  <2> DEFINE row == [zones[y] EXCEPT !.isActive = b, !.priority = n]
  <2>1. zones' = [zones EXCEPT ![y] = row] /\ UNCHANGED editing
    BY <1>2 DEF UpdateZone
  <2>2. row.geojson = zones[y].geojson /\ row.area = zones[y].area
    BY <1>0 DEF ZoneRow
  <2> HIDE DEF row
  <2> QED
    BY <1>0, <1>1, <2>1, <2>2
<1>3. ASSUME NEW e \in Editors, NEW y \in Zones, NEW b \in BOOLEAN, NEW n \in Priorities,
             NEW g \in Polygons, CreateZone(e, y, b, n, g) \/ RedrawZone(e, y, b, n, g)
      PROVE  Settled(z)' \/ Overlap(z)'
  <2>1. /\ editing[e] = NotEditing
        /\ editing' = [editing EXCEPT ![e] = [zone |-> y, polygon |-> g]]
    BY <1>3 DEF CreateZone, RedrawZone, Edit
  <2>2. zones' = [zones EXCEPT ![y] = zones'[y]] /\ zones'[y].geojson = g
    <3>1. CASE CreateZone(e, y, b, n, g)
      BY <1>0, <3>1 DEF CreateZone
    <3>2. CASE RedrawZone(e, y, b, n, g)
      <4> DEFINE row == [zones[y] EXCEPT !.isActive = b, !.priority = n, !.geojson = g]
      <4>1. zones' = [zones EXCEPT ![y] = row]
        BY <3>2 DEF RedrawZone
      <4>2. row.geojson = g
        BY <1>0 DEF ZoneRow
      <4> HIDE DEF row
      <4> QED
        BY <1>0, <4>1, <4>2
    <3> QED
      BY <1>3, <3>1, <3>2
  <2> QED
    BY <2>1, <2>2, Redraws
<1>4. ASSUME NEW e \in Editors, SyncZoneArea(e)
      PROVE  Settled(z)'
  <2> DEFINE y == editing[e].zone
             row == [zones[y] EXCEPT !.area = editing[e].polygon]
  <2>1. zones' = [zones EXCEPT ![y] = row] /\ editing' = [editing EXCEPT ![e] = NotEditing]
    BY <1>4 DEF SyncZoneArea
  <2>2. /\ editing'[e].zone # z
        /\ \A f \in Editors : f # e => editing'[f] = editing[f]
    BY <1>0, <2>1, PriceBookAssumption DEF NotEditing
  <2>3. CASE y = z
    <3>1. row.geojson = zones[z].geojson /\ row.area = editing[e].polygon
      BY <1>0, <2>3 DEF ZoneRow
    <3>2. editing[e].polygon = zones[z].geojson
      BY <2>3 DEF Settled
    <3>3. zones'[z] = row
      BY <1>0, <2>1, <2>3
    <3> HIDE DEF row, y
    <3> QED
      BY <2>2, <3>1, <3>2, <3>3 DEF Settled
  <2>4. CASE y # z
    <3>1. zones'[z] = zones[z]
      BY <1>0, <2>1, <2>4
    <3> QED
      BY <2>2, <2>4, <3>1 DEF Settled
  <2> QED
    BY <2>3, <2>4
<1>5. ASSUME UNCHANGED <<zones, editing>>
      PROVE  Settled(z)'
  BY <1>1, <1>5
<1>6. ASSUME NEW e \in Editors, ProductEdit(e) PROVE Settled(z)'
  BY <1>5, <1>6 DEF ProductEdit, DeleteProduct, UpdateProduct
<1>7. ASSUME NEW e \in Editors, ZoneEdit(e) PROVE Settled(z)' \/ Overlap(z)'
  <2>1. CASE \E t \in TermsOffered, b \in BOOLEAN :
               \/ \E y \in Zones : CreateRule(e, y, t, b)
               \/ \E i \in DOMAIN rules : UpdateRule(e, i, t, b)
    BY <1>5, <2>1 DEF CreateRule, UpdateRule
  <2> QED
    BY <1>2, <1>3, <1>7, <2>1 DEF ZoneEdit
<1> QED
  BY <1>4, <1>6, <1>7 DEF BookNext

(* The PostGIS area that GeoService looks orders up in follows the polygon *)
(* that managers see, or whoever will write it is on the way: of all that  *)
(* managers can do to any number of zones, only a failure between the two  *)
(* statements, or two overlapping edits of one zone, part them.            *)
THEOREM AreaCorrect == Spec => AreaFollowsPolygon
<1>1. ASSUME CheckoutInv, [Next]_checkoutVars, \A e \in Editors : ~EditFails(e),
             NEW z \in Zones, Settled(z)
      PROVE  Settled(z)' \/ Overlap(z)'
  <2>1. CASE UNCHANGED bookVars
    BY <1>1, <2>1 DEF bookVars, Settled
  <2>2. CASE BookNext
    BY <1>1, <2>2, StaysSettled DEF CheckoutInv, ShapeInv
  <2> QED
    BY <1>1, <2>1, <2>2
    DEF Next, Step, Arrive, Expire, LookUp, Replay, AcquireLock, InsertKey, ReadProducts, FindZone,
        ReadRule, CommitOrder, Respond, Persist, Fail, WindowEnds, LockEnds, checkoutVars
<1>2. CheckoutInv /\ [Next]_checkoutVars =>
        [(\A e \in Editors : ~EditFails(e)) =>
           \A z \in Zones : Settled(z) => Settled(z)' \/ Overlap(z)']_checkoutVars
  BY <1>1
<1> QED
  BY <1>2, CheckoutInitially, CheckoutStep, PTL DEF Spec, AreaFollowsPolygon
================================================================================
