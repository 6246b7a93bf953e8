-------------------------- MODULE CheckoutRequirements --------------------------
(***************************************************************************)
(* What must hold of Checkout, under any interleaving.                     *)
(***************************************************************************)
EXTENDS Checkout

(* The shape of the tables, of Redis and of a request in flight; a fee is  *)
(* never negative.                                                         *)
CheckoutTypeOK ==
  /\ products \in [Products -> ProductRow]
  /\ zones \in [Zones -> ZoneRow]
  /\ rules \in Seq(RuleRow)
  /\ editing \in [Editors -> [zone : Zones \cup {NoZone}, polygon : Polygons \cup {NoPolygon}]]
  /\ req \in [Requests -> [pc : Pc, key : Keys \cup {NoKey}, body : Bodies \cup {NoBody},
                           subtotal : Nat, zone : Zones \cup {NoZone}, snapshot : Snapshot,
                           order : 0 .. MaxOrders]]
  /\ keyRows \in [Keys -> KeyRow]
  /\ locks \subseteq Keys
  /\ window \in [count : 0 .. Limit, expires : BOOLEAN]
  /\ orders \in Seq([key : Keys \cup {NoKey}, body : Bodies, zoneId : Zones \cup {NoZone},
                     subtotalMinor : Nat, pricing : Snapshot, totalMinor : Nat])
  /\ answers \subseteq [key : Keys, body : Bodies, order : OrderIds]

--------------------------------------------------------------------------------
(* A key makes one order at most, through races, retries, lost locks and   *)
(* crashes, and a replay is the order made of the very same body.          *)
Made(k) == {[body |-> orders[i].body, order |-> i] :
              i \in {j \in DOMAIN orders : orders[j].key = k}}

Once == INSTANCE OncePerKey WITH made <- [k \in Keys |-> Made(k)], answers <- answers

ImplementsOncePerKey == Once!Spec

(* An order made with a key can be replayed, or its request is still about *)
(* to make it so.  Only an error or a dead process in between ends that.   *)
Replayable(i) ==
  LET k == orders[i].key IN
  \/ k = NoKey
  \/ keyRows[k].order = i
  \/ \E p \in Requests : req[p].pc \in {"respond", "told"} /\ req[p].order = i

OrdersStayReplayable ==
  [][(\A p \in Requests : ~Fail(p)) =>
       \A i \in DOMAIN orders' :
         (i \in DOMAIN orders => Replayable(i)) => Replayable(i)']_checkoutVars

(* The order's total can be recomputed from its own row: the lines, and    *)
(* the parts of the fee as the snapshot names them, each rounded by itself. *)
TotalIsReproducible ==
  \A i \in DOMAIN orders :
    LET o == orders[i]
        fee == o.pricing.baseFeeMinor + o.pricing.distanceFeeMinor + o.pricing.surgeFeeMinor
    IN /\ o.subtotalMinor = o.pricing.subtotalMinor
       /\ o.pricing.deliveryFeeMinor = (IF o.pricing.freeDeliveryApplied THEN 0 ELSE fee)
       /\ o.totalMinor = o.subtotalMinor + o.pricing.deliveryFeeMinor

(* The area that orders are looked up in is the polygon managers see, or   *)
(* whoever is still writing it writes that polygon.  Only a failure between *)
(* the two statements ends that, or two edits of one zone that overlap.    *)
Settled(z) ==
  /\ \A e \in Editors : editing[e].zone = z => editing[e].polygon = zones[z].geojson
  /\ zones[z].area # zones[z].geojson => \E e \in Editors : editing[e].zone = z

Overlap(z) == \E e, f \in Editors : e # f /\ editing[e].zone = z /\ editing[f].zone = z

AreaFollowsPolygon ==
  [][(\A e \in Editors : ~EditFails(e)) =>
       \A z \in Zones : Settled(z) => Settled(z)' \/ Overlap(z)']_checkoutVars

(* A counter that counts has an expiry, or the request that will set it is *)
(* on its way.  Only if that request fails may a client be locked out.     *)
CounterEnds ==
  window.count > 0 => window.expires \/ \E p \in Requests : req[p].pc = "expire"

CountersKeepEnding ==
  [][(\A p \in Requests : ~Fail(p)) => (CounterEnds => CounterEnds')]_checkoutVars
================================================================================
