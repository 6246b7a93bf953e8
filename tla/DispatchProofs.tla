----------------------------- MODULE DispatchProofs -----------------------------
(***************************************************************************)
(* Proofs about Dispatch, for any number of pages, orders and handlers.    *)
(* The page is one more client of the API, so what is proved of Delivery   *)
(* carries over; what a page has heard needs an invariant of its own.      *)
(***************************************************************************)
EXTENDS DispatchRequirements, DeliveryProofs

(* A click is an assignment that arrives; no other step of a page touches  *)
(* the API.                                                                *)
LEMMA DispatchIsDeliveryStep == [DispatchNext]_dispatchVars => [DeliveryNext]_allVars
<1> SUFFICES ASSUME [DispatchNext]_dispatchVars PROVE [DeliveryNext]_allVars
  OBVIOUS
<1>1. ASSUME NEW g \in Pages, NEW o \in Orders, NEW p \in Http, Click(g, p, o)
      PROVE  DeliveryNext
  <2>1. AtRest(p) /\ Assign(p, o, NoDriver) /\ UNCHANGED deliveryVars
    BY <1>1 DEF Click
  <2>2. Arrive(p)
    BY <2>1 DEF Arrive
  <2>3. HttpArrive(p)
    BY <2>1, <2>2 DEF HttpArrive
  <2> QED
    BY <2>3 DEF DeliveryNext, Smooth
<1>2. ASSUME NEW g \in Pages,
             \/ Refetch(g) \/ ReadBoard(g) \/ ShowBoard(g) \/ FetchFails(g)
             \/ \E o \in Orders : Hear(g, o) \/ LoseAnswer(g, o)
      PROVE  UNCHANGED allVars
  BY <1>2 DEF Refetch, ReadBoard, ShowBoard, FetchFails, Hear, LoseAnswer
<1>3. CASE Serve
  BY <1>3 DEF Serve
<1>4. CASE UNCHANGED dispatchVars
  BY <1>4 DEF dispatchVars
<1> QED
  BY <1>1, <1>2, <1>3, <1>4 DEF DispatchNext, Page

(* With the page in front of it, the API behaves as Delivery describes it: *)
(* all that is proved of DeliverySpec holds while dispatchers click.       *)
THEOREM PageIsAClient == DispatchSpec => DeliverySpec
<1>1. DispatchInit => DeliveryInit
  BY DEF DispatchInit
<1> QED
  BY <1>1, DispatchIsDeliveryStep, PTL DEF DispatchSpec, DeliverySpec

LEMMA DispatchFlow == DispatchSpec => []FlowInv
  BY PageIsAClient, FlowAlways, PTL

--------------------------------------------------------------------------------
(* A step records a delivery only with the transaction that makes it.      *)
LEMMA RecordedDelivery ==
  ASSUME FlowInv, NEW o \in Orders, "DELIVERED" \in Recorded(o)
  PROVE  orders'[o] = [status |-> "DELIVERED", driverId |-> orders[o].driverId]
<1>1. "DELIVERED" # "DELIVERY_FAILED"
  OBVIOUS
<1>2. PICK p \in Procs : req[p].order = o /\ TransitionCommit(p) /\ EventType(req[p].to) = "DELIVERED"
  BY <1>1 DEF Recorded
<1>3. req[p].to = "DELIVERED"
  BY <1>2 DEF EventType
<1>4. orders \in [Orders -> [status : Status \cup {NoStatus}, driverId : Drivers \cup {NoDriver}]]
  BY DEF FlowInv, DeliveryTypeOK, TypeOK, OrderRow
<1>5. orders' = [orders EXCEPT ![o] = [status |-> "DELIVERED", driverId |-> orders[o].driverId]]
  BY <1>2, <1>3 DEF TransitionCommit, WriteOrder
<1> QED
  BY <1>4, <1>5

LEMMA DriverMoves ==
  ASSUME FlowInv, [DeliveryNext]_allVars, NEW o \in Orders, orders'[o].driverId # orders[o].driverId
  PROVE  orders'[o].status \in {"ACCEPTED", "ASSIGNED"}
<1>1. OrderStep
  BY DeliveryIsOrderStep
<1>2. [Next]_vars
  BY <1>1 DEF OrderStep, Asks, Restart
<1> QED
  BY <1>2, DriverChangesStep DEF FlowInv, DeliveryTypeOK

(* driverPerformance: a completed order starts to count for the driver it  *)
(* was delivered by, and only moves on with the order itself, whatever     *)
(* overlaps or fails around the deliveries.                                *)
THEOREM CreditCorrect == DispatchSpec => CreditIsEarned
<1> DEFINE Earned ==
      \A d \in Drivers, o \in Orders :
        (o \in DriverPerformance(d).completed) # (o \in DriverPerformance(d).completed)' =>
          \/ orders'[o] = [status |-> "DELIVERED", driverId |-> d]
          \/ /\ "DELIVERED" \in journal[o]
             /\ orders'[o].status \in {"ACCEPTED", "ASSIGNED"}
             /\ orders'[o].driverId # orders[o].driverId
<1>1. ASSUME FlowInv, [DispatchNext]_dispatchVars
      PROVE  [Earned]_dispatchVars
  <2> SUFFICES ASSUME NEW d \in Drivers, NEW o \in Orders,
                      (o \in DriverPerformance(d).completed)
                        # (o \in DriverPerformance(d).completed)'
               PROVE  \/ orders'[o] = [status |-> "DELIVERED", driverId |-> d]
                      \/ /\ "DELIVERED" \in journal[o]
                         /\ orders'[o].status \in {"ACCEPTED", "ASSIGNED"}
                         /\ orders'[o].driverId # orders[o].driverId
    OBVIOUS
  <2>1. ~(orders'[o].driverId = orders[o].driverId /\ journal'[o] = journal[o])
    BY DEF DriverPerformance
  <2>2. CASE Serve
    <3>1. journal'[o] = journal[o] \cup (Recorded(o) \cap Counted)
      BY <2>2 DEF Serve, Record
    <3>2. CASE "DELIVERED" \in Recorded(o) /\ "DELIVERED" \notin journal[o]
      <4>1. orders'[o] = [status |-> "DELIVERED", driverId |-> orders[o].driverId]
        BY <1>1, <3>2, RecordedDelivery
      <4>2. orders[o].driverId = d
        BY <3>2, <4>1 DEF DriverPerformance
      <4> QED
        BY <4>1, <4>2
    <3>3. CASE "DELIVERED" \in journal[o]
      <4>1. orders'[o].driverId # orders[o].driverId
        BY <3>1, <3>3 DEF DriverPerformance
      <4> QED
        BY <1>1, <2>2, <3>3, <4>1, DriverMoves DEF Serve
    <3>4. CASE "DELIVERED" \notin Recorded(o) /\ "DELIVERED" \notin journal[o]
      BY <3>1, <3>4 DEF DriverPerformance
    <3> QED
      BY <3>2, <3>3, <3>4
  <2>3. CASE ~Serve
    <3>1. UNCHANGED <<orders, journal>>
      BY <1>1, <2>3
      DEF DispatchNext, Page, Refetch, ReadBoard, ShowBoard, FetchFails, Hear, LoseAnswer, Click,
          Assign, dispatchVars, allVars, vars
    <3> QED
      BY <2>1, <3>1
  <2> QED
    BY <2>2, <2>3
<1>2. DispatchSpec => [][Earned]_dispatchVars
  BY <1>1, DispatchFlow, PTL DEF DispatchSpec
<1> QED
  BY <1>2 DEF CreditIsEarned

--------------------------------------------------------------------------------
(* What a page has heard to be assigned is neither without a driver nor,   *)
(* in an answer that may still be put up, shown without one.               *)
HeardIsShown(g) ==
  \A o \in told[g] :
    /\ orders[o].driverId # NoDriver
    /\ query[g].state = "answered" => query[g].rows[o] # NoDriver

PageInv ==
  /\ query \in [Pages -> Query] /\ board \in [Pages -> Board]
  /\ told \in [Pages -> SUBSET Orders]
  /\ \A g \in Pages : HeardIsShown(g)

LEMMA NoQueryShape == NoQuery \in Query /\ NoQuery.state = "idle" /\ EmptyBoard \in Board
  BY DEF NoQuery, Query, EmptyBoard, Board

LEMMA PageInitially == DispatchInit => PageInv
  BY NoQueryShape DEF DispatchInit, PageInv, HeardIsShown

(* A page's own query or what it has been told. *)
LEMMA PageStep ==
  ASSUME PageInv, NEW g \in Pages, NEW q \in Query, NEW heard \in SUBSET Orders,
         query' = [query EXCEPT ![g] = q], told' = [told EXCEPT ![g] = heard],
         orders' = orders, board' \in [Pages -> Board],
         \A o \in heard : /\ orders[o].driverId # NoDriver
                          /\ q.state = "answered" => q.rows[o] # NoDriver
  PROVE  PageInv'
<1>1. /\ query' \in [Pages -> Query] /\ told' \in [Pages -> SUBSET Orders]
      /\ query'[g] = q /\ told'[g] = heard
      /\ \A h \in Pages \ {g} : query'[h] = query[h] /\ told'[h] = told[h]
  BY DEF PageInv
<1>2. HeardIsShown(g)'
  BY <1>1 DEF HeardIsShown
<1>3. \A h \in Pages \ {g} : HeardIsShown(h)'
  BY <1>1 DEF HeardIsShown, PageInv
<1> QED
  BY <1>1, <1>2, <1>3 DEF PageInv

LEMMA PagesStep == FlowInv /\ PageInv /\ [DispatchNext]_dispatchVars => PageInv'
<1> SUFFICES ASSUME FlowInv, PageInv, [DispatchNext]_dispatchVars
             PROVE  PageInv'
  OBVIOUS
<1>0. /\ query \in [Pages -> Query] /\ board \in [Pages -> Board]
      /\ told \in [Pages -> SUBSET Orders]
  BY DEF PageInv
<1>1. CASE Serve
  <2>1. /\ query' = query /\ board' = board
        /\ told' = [g \in Pages |-> {o \in told[g] : orders'[o].driverId # NoDriver}]
    BY <1>1 DEF Serve
  <2>2. told' \in [Pages -> SUBSET Orders]
    BY <1>0, <2>1
  <2>3. \A g \in Pages : HeardIsShown(g)'
    BY <2>1 DEF HeardIsShown, PageInv
  <2> QED
    BY <1>0, <2>1, <2>2, <2>3 DEF PageInv
<1>2. ASSUME NEW g \in Pages, Refetch(g)
      PROVE  PageInv'
  <2> DEFINE q == [query[g] EXCEPT !.state = "sent"]
  <2>1. q \in Query /\ q.state = "sent"
    BY <1>0 DEF Query
  <2>2. /\ query' = [query EXCEPT ![g] = q] /\ told' = [told EXCEPT ![g] = told[g]]
        /\ orders' = orders /\ board' = board
    BY <1>0, <1>2 DEF Refetch, allVars, vars
  <2> HIDE DEF q
  <2> QED
    BY <1>0, <2>1, <2>2, PageStep DEF PageInv, HeardIsShown
<1>3. ASSUME NEW g \in Pages, ReadBoard(g)
      PROVE  PageInv'
  <2> DEFINE q == [state |-> "answered", rows |-> DispatchBoard]
  <2>1. /\ DispatchBoard \in Board
        /\ \A o \in Orders : orders[o].driverId # NoDriver => DispatchBoard[o] # NoDriver
    <3>1. \A o \in Orders : orders[o].driverId \in Drivers \cup {NoDriver}
      BY DEF FlowInv, DeliveryTypeOK, TypeOK, OrderRow
    <3>2. Off # NoDriver
      BY DispatchAssumption
    <3> QED
      BY <3>1, <3>2 DEF DispatchBoard, Board
  <2>2. q \in Query /\ q.rows = DispatchBoard
    BY <2>1 DEF Query
  <2>3. /\ query' = [query EXCEPT ![g] = q] /\ told' = [told EXCEPT ![g] = told[g]]
        /\ orders' = orders /\ board' = board
    BY <1>0, <1>3 DEF ReadBoard, allVars, vars
  <2> HIDE DEF q
  <2> QED
    BY <1>0, <2>1, <2>2, <2>3, PageStep DEF PageInv, HeardIsShown
<1>4. ASSUME NEW g \in Pages, ShowBoard(g) \/ FetchFails(g)
      PROVE  PageInv'
  <2>1. /\ query' = [query EXCEPT ![g] = NoQuery] /\ told' = [told EXCEPT ![g] = told[g]]
        /\ orders' = orders
    BY <1>0, <1>4 DEF ShowBoard, FetchFails, allVars, vars
  <2>2. board' \in [Pages -> Board]
    BY <1>0, <1>4 DEF ShowBoard, FetchFails, Query
  <2> QED
    BY <1>0, <2>1, <2>2, NoQueryShape, PageStep DEF PageInv, HeardIsShown
<1>5. ASSUME NEW g \in Pages, NEW o \in Orders, Hear(g, o)
      PROVE  PageInv'
  <2> DEFINE q == [NoQuery EXCEPT !.state = "sent"]
             heard == told[g] \cup {x \in {o} : orders[x].driverId # NoDriver}
  <2>1. q \in Query /\ q.state = "sent"
    BY NoQueryShape DEF Query
  <2>2. /\ query' = [query EXCEPT ![g] = q] /\ told' = [told EXCEPT ![g] = heard]
        /\ orders' = orders /\ board' = board
    BY <1>0, <1>5 DEF Hear, Told, allVars, vars
  <2>3. heard \in SUBSET Orders /\ \A x \in heard : orders[x].driverId # NoDriver
    BY <1>0 DEF PageInv, HeardIsShown
  <2> HIDE DEF q, heard
  <2> QED
    BY <1>0, <2>1, <2>2, <2>3, PageStep
<1>6. ASSUME UNCHANGED <<orders, query, board, told>>
      PROVE  PageInv'
  BY <1>6 DEF PageInv, HeardIsShown
<1>7. ASSUME NEW g \in Pages, NEW o \in Orders, LoseAnswer(g, o) \/ \E p \in Http : Click(g, p, o)
      PROVE  PageInv'
  BY <1>6, <1>7 DEF LoseAnswer, Click, Assign, allVars, vars
<1>8. CASE UNCHANGED dispatchVars
  BY <1>6, <1>8 DEF dispatchVars, allVars, vars, pageVars
<1> QED
  BY <1>1, <1>2, <1>3, <1>4, <1>5, <1>7, <1>8 DEF DispatchNext, Page

(* DispatchPage: after a page has heard that its assignment was made, no   *)
(* board it puts up offers that order again while it has a driver, because *)
(* the answer of a query sent before is dropped.                           *)
THEOREM OwnAssignmentCorrect == DispatchSpec => OwnAssignmentShown
<1> DEFINE Shown ==
      \A g \in Pages : ShowBoard(g) => \A o \in told[g] : board'[g][o] # NoDriver
<1>1. ASSUME PageInv
      PROVE  Shown
  <2> SUFFICES ASSUME NEW g \in Pages, ShowBoard(g), NEW o \in told[g]
               PROVE  board'[g][o] # NoDriver
    OBVIOUS
  <2>1. board'[g] = query[g].rows /\ query[g].state = "answered"
    BY <1>1 DEF ShowBoard, PageInv
  <2> QED
    BY <1>1, <2>1 DEF PageInv, HeardIsShown
<1>2. DispatchSpec => []PageInv
  BY PageInitially, PagesStep, DispatchFlow, PTL DEF DispatchSpec
<1>3. PageInv => [Shown]_dispatchVars
  BY <1>1
<1>4. DispatchSpec => [][Shown]_dispatchVars
  BY <1>2, <1>3, PTL DEF DispatchSpec
<1> QED
  BY <1>4 DEF OwnAssignmentShown
================================================================================
