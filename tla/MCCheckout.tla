------------------------------- MODULE MCCheckout -------------------------------
(***************************************************************************)
(* Checkout for TLC.  A rush hour at noon on Sundays that surges by 25 per *)
(* cent, distances whose fee is not a whole minor unit, and, each reached  *)
(* by one basket at the higher price only, a minimum and a free delivery.  *)
(***************************************************************************)
EXTENDS CheckoutRequirements, TLC

CONSTANTS tea, near, far, k1

CityDistance == (near :> 1250) @@ (far :> 4310)

Districts == {{near}, {near, far}}

Lunch == [days |-> {0}, startTime |-> 690, endTime |-> 810, multiplier |-> 125]

CityTerms ==
  {[baseFeeMinor |-> 500, perKmMinor |-> 150, minOrderMinor |-> 1000,
    freeDeliveryThresholdMinor |-> 3000, surgeWindows |-> {Lunch}]}

OpeningDay == [priceMinor |-> 950, polygon |-> {near, far}, terms |-> CHOOSE t \in CityTerms : TRUE]

LunchForThree == [items |-> (tea :> 3), point |-> near, at |-> [day |-> 0, minute |-> 720]]
LateTea == [items |-> (tea :> 1), point |-> far, at |-> [day |-> 0, minute |-> 900]]

Baskets == {LunchForThree, LateTea}

Traffic == ({k1} \X Baskets) \cup {<<NoKey, LateTea>>}

CheckoutSymmetry == Permutations(Requests) \cup Permutations(Zones)
================================================================================
