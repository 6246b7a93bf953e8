------------------------------ MODULE OrderMachine ------------------------------
(***************************************************************************)
(* What the order modules promise their clients: every order is one        *)
(* atomic state machine.  It moves along the shared table, it is handed to *)
(* a driver only from a status in which a driver can be chosen, and        *)
(* handing it back to the pool re-opens it as ACCEPTED.                    *)
(***************************************************************************)
EXTENDS OrderStatus

CONSTANTS Orders, Drivers, NoDriver

VARIABLES
  status,      \* the status of each order, NoStatus before it exists
  holder       \* the driver each order is with

Init ==
  /\ status = [o \in Orders |-> NoStatus]
  /\ holder = [o \in Orders |-> NoDriver]

Open(o, s) ==
  /\ status[o] = NoStatus
  /\ status' = [status EXCEPT ![o] = s]
  /\ UNCHANGED holder

Move(o, s) ==
  /\ CanTransition(status[o], s)
  /\ status' = [status EXCEPT ![o] = s]
  /\ UNCHANGED holder

Hand(o, d) ==
  /\ status[o] \in Assignable
  /\ status' = [status EXCEPT ![o] = "ASSIGNED"]
  /\ holder' = [holder EXCEPT ![o] = d]

TakeBack(o) ==
  /\ holder[o] # NoDriver
  /\ status' = [status EXCEPT ![o] = "ACCEPTED"]
  /\ holder' = [holder EXCEPT ![o] = NoDriver]

Next ==
  \E o \in Orders :
    \/ \E s \in InitialStatus : Open(o, s)
    \/ \E s \in Status : Move(o, s)
    \/ \E d \in Drivers : Hand(o, d)
    \/ TakeBack(o)

Spec == Init /\ [][Next]_<<status, holder>>
================================================================================
