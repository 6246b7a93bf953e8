------------------------------- MODULE OncePerKey -------------------------------
(***************************************************************************)
(* What an Idempotency-Key promises: whatever is sent with it, and however *)
(* often, it makes one order at most, and a request that is answered is    *)
(* answered with the order that was made of its own body.                  *)
(***************************************************************************)
CONSTANTS Keys, Bodies, OrderIds

VARIABLES
  made,        \* the orders made with a key, each with the body it was made of
  answers      \* what clients were told: key, body, order

Init ==
  /\ made = [k \in Keys |-> {}]
  /\ answers = {}

Make(k, b, o) ==
  /\ made[k] = {}
  /\ made' = [made EXCEPT ![k] = {[body |-> b, order |-> o]}]
  /\ UNCHANGED answers

Tell(k, b, o) ==
  /\ [body |-> b, order |-> o] \in made[k]
  /\ answers' = answers \cup {[key |-> k, body |-> b, order |-> o]}
  /\ UNCHANGED made

Next == \E k \in Keys, b \in Bodies, o \in OrderIds : Make(k, b, o) \/ Tell(k, b, o)

Spec == Init /\ [][Next]_<<made, answers>>
================================================================================
