------------------------------- MODULE MCPayments -------------------------------
(***************************************************************************)
(* Payments for TLC: the constants are model values of the cfg files.      *)
(***************************************************************************)
EXTENDS PaymentsRequirements, Naturals, FiniteSets, TLC

CONSTANT MaxEvents   \* events Stripe emits

FewEvents == Cardinality(sent) <= MaxEvents

Symmetry == Permutations(Intents) \cup Permutations(Procs)
================================================================================
