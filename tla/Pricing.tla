--------------------------------- MODULE Pricing ---------------------------------
(***************************************************************************)
(* computePricing: the delivery fee and total of an order.  Amounts are    *)
(* whole minor units, distances whole metres, times minutes of a day, and  *)
(* a surge multiplier is a percentage, so that every product is exact.     *)
(* The code rounds products of doubles, so that a fee of exactly one half  *)
(* may come out one less there (50 * 1.15 is 57); nothing here depends on  *)
(* which of the two it is.                                                 *)
(***************************************************************************)
EXTENDS Integers, FiniteSetsExt

(* A number of minor units that no amount equals: a NULL threshold.        *)
NoThreshold == -1

Window == [days : SUBSET (0 .. 6), startTime : 0 .. 1439, endTime : 0 .. 1439,
           multiplier : 100 .. 500]

Terms ==
  [baseFeeMinor : Nat, perKmMinor : Nat, minOrderMinor : Nat,
   freeDeliveryThresholdMinor : Nat \cup {NoThreshold}, surgeWindows : SUBSET Window]

Snapshot ==
  [ruleId : Nat, subtotalMinor : Nat, baseFeeMinor : Nat, distanceFeeMinor : Nat,
   surgeFeeMinor : Nat, freeDeliveryApplied : BOOLEAN, deliveryFeeMinor : Nat,
   minOrderMet : BOOLEAN, totalMinor : Nat]

(* Math.round of n / d for natural numbers: halves go up.                  *)
RoundMinor(n, d) == (2 * n + d) \div (2 * d)

(* The highest multiplier of the windows that are open at the time, both   *)
(* ends included; none is below 100 per cent.  The mutant starts from 0.   *)
ResolveSurgeMultiplierFromZero(windows, at) ==
  Max({0} \cup
      {w.multiplier : w \in {v \in windows : /\ at.day \in v.days
                                             /\ v.startTime <= at.minute
                                             /\ at.minute <= v.endTime}})

ResolveSurgeMultiplier(windows, at) ==
  Max({100} \cup
      {w.multiplier : w \in {v \in windows : /\ at.day \in v.days
                                             /\ v.startTime <= at.minute
                                             /\ at.minute <= v.endTime}})

(* No zone, or no active rule in it: nothing is charged for delivery.      *)
FreeOfCharge(subtotal) ==
  [ruleId |-> 0, subtotalMinor |-> subtotal, baseFeeMinor |-> 0, distanceFeeMinor |-> 0,
   surgeFeeMinor |-> 0, freeDeliveryApplied |-> FALSE, deliveryFeeMinor |-> 0,
   minOrderMet |-> TRUE, totalMinor |-> subtotal]

(* The snapshot under rule id with these terms.  The mutant rounds once,   *)
(* at the end, and so charges what the snapshot does not add up to.        *)
ComputePricingRoundOnce(id, terms, subtotal, meters, at) ==
  LET distanceFee == RoundMinor(terms.perKmMinor * meters, 1000)
      multiplier == ResolveSurgeMultiplier(terms.surgeWindows, at)
      preSurge == terms.baseFeeMinor + distanceFee
      surged == RoundMinor((1000 * terms.baseFeeMinor + terms.perKmMinor * meters) * multiplier,
                           100000)
      threshold == terms.freeDeliveryThresholdMinor
      free == threshold # NoThreshold /\ subtotal >= threshold
      deliveryFee == IF free THEN 0 ELSE surged
  IN [ruleId |-> id, subtotalMinor |-> subtotal, baseFeeMinor |-> terms.baseFeeMinor,
      distanceFeeMinor |-> distanceFee,
      surgeFeeMinor |-> RoundMinor(preSurge * (multiplier - 100), 100),
      freeDeliveryApplied |-> free, deliveryFeeMinor |-> deliveryFee,
      minOrderMet |-> subtotal >= terms.minOrderMinor,
      totalMinor |-> subtotal + deliveryFee]

ComputePricing(id, terms, subtotal, meters, at) ==
  LET distanceFee == RoundMinor(terms.perKmMinor * meters, 1000)
      multiplier == ResolveSurgeMultiplier(terms.surgeWindows, at)
      preSurge == terms.baseFeeMinor + distanceFee
      surged == RoundMinor(preSurge * multiplier, 100)
      threshold == terms.freeDeliveryThresholdMinor
      free == threshold # NoThreshold /\ subtotal >= threshold
      deliveryFee == IF free THEN 0 ELSE surged
  IN [ruleId |-> id, subtotalMinor |-> subtotal, baseFeeMinor |-> terms.baseFeeMinor,
      distanceFeeMinor |-> distanceFee, surgeFeeMinor |-> surged - preSurge,
      freeDeliveryApplied |-> free, deliveryFeeMinor |-> deliveryFee,
      minOrderMet |-> subtotal >= terms.minOrderMinor,
      totalMinor |-> subtotal + deliveryFee]
================================================================================
