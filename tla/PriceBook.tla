-------------------------------- MODULE PriceBook --------------------------------
(***************************************************************************)
(* What managers edit and checkouts read: CatalogService's products, the   *)
(* zones and pricing rules of ZonesService, and GeoService's lookup.  The  *)
(* polygon of a zone is written twice, as GeoJSON in the row and then, in  *)
(* a statement of its own, as the PostGIS area that the lookup reads.      *)
(***************************************************************************)
EXTENDS Pricing, Sequences

CONSTANTS
  Products, Zones,
  Points,       \* the places there are
  Polygons,     \* the sets of points that a zone may cover
  NoPolygon,    \* a NULL area, or a zone that was never created
  NoZone,       \* nothing covers the point
  Editors,      \* requests of managers that may be in flight at once
  Prices,       \* the prices a product may be given
  TermsOffered, \* the terms a rule may be given
  Priorities,
  Opening,      \* price, polygon and terms the shop opens with
  MaxRules,     \* bound: rules ever created
  MaxEdits      \* bound: edits by managers

ASSUME PriceBookAssumption ==
  /\ Polygons \subseteq SUBSET Points /\ NoPolygon \notin Polygons
  /\ NoZone \notin Zones
  /\ Prices \subseteq Nat /\ TermsOffered \subseteq Terms /\ Priorities \subseteq Int
  /\ Opening \in [priceMinor : Prices, polygon : Polygons, terms : TermsOffered]
  /\ MaxRules \in Nat \ {0} /\ MaxEdits \in Nat

VARIABLES
  products,    \* price and availability
  zones,       \* delivery_zones
  rules,       \* pricing_rules in the order of createdAt; an id is an index
  editing,     \* the area an editor is about to write, and of which zone
  edits        \* how many edits there have been

bookVars == <<products, zones, rules, editing, edits>>

ProductRow == [priceMinor : Prices, isAvailable : BOOLEAN]

ZoneRow == [isActive : BOOLEAN, priority : Priorities,
            geojson : Polygons \cup {NoPolygon}, area : Polygons \cup {NoPolygon}]

RuleRow == [zoneId : Zones, terms : TermsOffered, isActive : BOOLEAN]

NotEditing == [zone |-> NoZone, polygon |-> NoPolygon]

ZoneExists(z) == zones[z].geojson # NoPolygon

--------------------------------------------------------------------------------
(* GeoService.findZoneForPoint: ORDER BY priority DESC LIMIT 1, so any of  *)
(* those that tie.                                                         *)
Covering(point) ==
  {z \in Zones : zones[z].isActive /\ zones[z].area # NoPolygon /\ point \in zones[z].area}

ZonesForPoint(point) ==
  IF Covering(point) = {} THEN {NoZone}
  ELSE {z \in Covering(point) : \A y \in Covering(point) : zones[y].priority <= zones[z].priority}

(* The newest active rule of the zone, or 0.                               *)
RuleOfZone(z) ==
  Max({0} \cup {i \in DOMAIN rules : rules[i].zoneId = z /\ rules[i].isActive})

--------------------------------------------------------------------------------
(* Managers.  Every call finds its row first, which is only a check.       *)
Edit(e) ==
  /\ editing[e] = NotEditing
  /\ edits < MaxEdits
  /\ edits' = edits + 1

(* CatalogService.updateProduct and deleteProduct; a product that is added *)
(* is in nobody's cart yet.                                                *)
UpdateProduct(e, x, price, available) ==
  /\ Edit(e)
  /\ products' = [products EXCEPT ![x] = [priceMinor |-> price, isAvailable |-> available]]
  /\ UNCHANGED <<zones, rules, editing>>

DeleteProduct(e, x) == UpdateProduct(e, x, products[x].priceMinor, FALSE)

CreateZone(e, z, active, priority, polygon) ==
  /\ Edit(e)
  /\ ~ZoneExists(z)
  /\ zones' = [zones EXCEPT ![z] = [isActive |-> active, priority |-> priority,
                                    geojson |-> polygon, area |-> NoPolygon]]
  /\ editing' = [editing EXCEPT ![e] = [zone |-> z, polygon |-> polygon]]
  /\ UNCHANGED <<products, rules>>

(* ZonesService.updateZone, without a new polygon (deleteZone too) or with *)
(* one.  The mutant writes no area for a zone that is switched off.        *)
UpdateZone(e, z, active, priority) ==
  /\ Edit(e)
  /\ ZoneExists(z)
  /\ zones' = [zones EXCEPT ![z].isActive = active, ![z].priority = priority]
  /\ UNCHANGED <<products, rules, editing>>

RedrawZoneIfActive(e, z, active, priority, polygon) ==
  /\ Edit(e)
  /\ ZoneExists(z)
  /\ zones' = [zones EXCEPT ![z].isActive = active, ![z].priority = priority,
                            ![z].geojson = polygon]
  /\ editing' = IF active THEN [editing EXCEPT ![e] = [zone |-> z, polygon |-> polygon]]
                ELSE editing
  /\ UNCHANGED <<products, rules>>

RedrawZone(e, z, active, priority, polygon) ==
  /\ Edit(e)
  /\ ZoneExists(z)
  /\ zones' = [zones EXCEPT ![z].isActive = active, ![z].priority = priority,
                            ![z].geojson = polygon]
  /\ editing' = [editing EXCEPT ![e] = [zone |-> z, polygon |-> polygon]]
  /\ UNCHANGED <<products, rules>>

(* GeoService.syncZoneArea, the second statement. *)
SyncZoneArea(e) ==
  /\ editing[e] # NotEditing
  /\ zones' = [zones EXCEPT ![editing[e].zone].area = editing[e].polygon]
  /\ editing' = [editing EXCEPT ![e] = NotEditing]
  /\ UNCHANGED <<products, rules, edits>>

(* It fails, or the process dies before it.                                *)
EditFails(e) ==
  /\ editing[e] # NotEditing
  /\ editing' = [editing EXCEPT ![e] = NotEditing]
  /\ UNCHANGED <<products, zones, rules, edits>>

CreateRule(e, z, terms, active) ==
  /\ Edit(e)
  /\ ZoneExists(z) /\ Len(rules) < MaxRules
  /\ rules' = Append(rules, [zoneId |-> z, terms |-> terms, isActive |-> active])
  /\ UNCHANGED <<products, zones, editing>>

(* The rule's zone is not among the columns updatePricingRule writes.      *)
UpdateRule(e, i, terms, active) ==
  /\ Edit(e)
  /\ rules' = [rules EXCEPT ![i].terms = terms, ![i].isActive = active]
  /\ UNCHANGED <<products, zones, editing>>

(* What the routes of the two controllers let a manager do.                *)
ProductEdit(e) ==
  \E x \in Products :
    DeleteProduct(e, x) \/ \E m \in Prices, b \in BOOLEAN : UpdateProduct(e, x, m, b)

ZoneEdit(e) ==
  \/ \E z \in Zones, b \in BOOLEAN, n \in Priorities :
       \/ UpdateZone(e, z, b, n)
       \/ \E g \in Polygons : CreateZone(e, z, b, n, g) \/ RedrawZone(e, z, b, n, g)
  \/ \E t \in TermsOffered, b \in BOOLEAN :
       \/ \E z \in Zones : CreateRule(e, z, t, b)
       \/ \E i \in DOMAIN rules : UpdateRule(e, i, t, b)

BookNext ==
  \E e \in Editors : ProductEdit(e) \/ ZoneEdit(e) \/ SyncZoneArea(e) \/ EditFails(e)

(* A shop that has opened: one zone with a rule, everything available.     *)
BookInit ==
  \E z \in Zones, n \in Priorities :
    /\ products = [x \in Products |-> [priceMinor |-> Opening.priceMinor, isAvailable |-> TRUE]]
    /\ zones = [y \in Zones |->
                  IF y = z
                  THEN [isActive |-> TRUE, priority |-> n,
                        geojson |-> Opening.polygon, area |-> Opening.polygon]
                  ELSE [isActive |-> FALSE, priority |-> n,
                        geojson |-> NoPolygon, area |-> NoPolygon]]
    /\ rules = <<[zoneId |-> z, terms |-> Opening.terms, isActive |-> TRUE]>>
    /\ editing = [e \in Editors |-> NotEditing]
    /\ edits = 0
================================================================================
