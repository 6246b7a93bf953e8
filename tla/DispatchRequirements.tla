-------------------------- MODULE DispatchRequirements --------------------------
(***************************************************************************)
(* What must hold of Dispatch, whatever overlaps, fails or crashes.        *)
(***************************************************************************)
EXTENDS Dispatch

(* Once a page has heard that its assignment of an order was made, no      *)
(* board it puts up offers that order again while it has a driver: the     *)
(* answer of a query sent before the assignment is never shown after it.   *)
OwnAssignmentShown ==
  [][\A g \in Pages :
       ShowBoard(g) => \A o \in told[g] : board'[g][o] # NoDriver]_dispatchVars

(* An order starts to count as completed by a driver when it is committed  *)
(* as DELIVERED with that driver, and after that only moves with the order *)
(* to another driver, when it is taken off the one who delivered it.       *)
CreditIsEarned ==
  [][\A d \in Drivers, o \in Orders :
       (o \in DriverPerformance(d).completed) # (o \in DriverPerformance(d).completed)' =>
         \/ orders'[o] = [status |-> "DELIVERED", driverId |-> d]
         \/ /\ "DELIVERED" \in journal[o]
            /\ orders'[o].status \in {"ACCEPTED", "ASSIGNED"}
            /\ orders'[o].driverId # orders[o].driverId]_dispatchVars

--------------------------------------------------------------------------------
(* Liveness.  A page that is open and in sight polls on, the API answers a *)
(* query, and the browser shows the answer; nobody has to click.           *)
PollFairness ==
  \A g \in Pages :
    /\ WF_dispatchVars(Refetch(g))
    /\ WF_dispatchVars(ReadBoard(g))
    /\ WF_dispatchVars(ShowBoard(g))

LiveDispatch == DispatchSpec /\ PollFairness

(* An answer that changes nothing on the page is no failure. *)
FetchLost(g) == FetchFails(g) /\ ~ShowBoard(g)

(* Once a page's queries stop failing, it ends up showing what the server  *)
(* has of an order that has come to rest, and no longer shows an order     *)
(* that has left the board.                                                *)
BoardCatchesUp ==
  \A g \in Pages, o \in Orders, r \in Drivers \cup {NoDriver, Off} :
    <>[][~FetchLost(g)]_dispatchVars /\ <>[](DispatchBoard[o] = r) => <>[](board[g][o] = r)
================================================================================
