-------------------------------- MODULE Dispatch --------------------------------
(***************************************************************************)
(* The dispatcher's page on top of the API: AnalyticsService.dispatchBoard *)
(* and driverPerformance, and DispatchPage, which polls the board, offers  *)
(* the assignment of every order its copy shows without a driver, and asks *)
(* for the board again when it hears that an assignment was made.  The     *)
(* server pushes nothing to the page: nothing calls emitDispatchBoard.     *)
(***************************************************************************)
EXTENDS DeliveryRequirements

CONSTANTS
  Pages,     \* the dispatch pages that are open
  NoPage,
  Off        \* the row of an order that is not on the board

ASSUME DispatchAssumption ==
  NoPage \notin Pages /\ Off \notin Drivers \cup {NoDriver}

VARIABLES
  journal,   \* the types driverPerformance looks for among each order's events
  board,     \* the board each page shows
  query,     \* each page's GET /dispatch/board
  asked,     \* the page each request answers to
  answers,   \* the assignments that were made and are on their way to their page
  told       \* history: the orders a page has heard it assigned, while they have a driver

pageVars == <<board, query, asked, answers, told>>
dispatchVars == <<allVars, journal, pageVars>>

Kinds == {"PICKED_UP", "DELIVERED", "DELIVERY_FAILED", "STATUS_CHANGED"}
Counted == Kinds \ {"STATUS_CHANGED"}

(* What the page tells apart of a board: an order's driver, if it is there. *)
Board == [Orders -> Drivers \cup {NoDriver, Off}]
EmptyBoard == [o \in Orders |-> Off]

Query == [state : {"idle", "sent", "answered"}, rows : Board]
NoQuery == [state |-> "idle", rows |-> EmptyBoard]

--------------------------------------------------------------------------------
(* The events of the audit log.                                            *)

(* eventTypeForStatus; the other types count for nothing here. *)
EventType(to) == IF to \in {"PICKED_UP", "DELIVERED"} THEN to ELSE "STATUS_CHANGED"

(* The types a step records of an order: with the transaction of a         *)
(* transition, or before recordFailure asks for FAILED.  The mutant        *)
(* records a transition when it has been checked.                          *)
RecordedEarly(o) ==
  {EventType(req'[p].to) : p \in {q \in Procs : req'[q].order = o /\ req'[q] # req[q]
                                                /\ req'[q].pc = "commitTransition"}}
  \cup {"DELIVERY_FAILED" : p \in {q \in Http : flow[q].order = o /\ LogFailure(q)}}

Recorded(o) ==
  {EventType(req[p].to) : p \in {q \in Procs : req[q].order = o /\ TransitionCommit(q)}}
  \cup {"DELIVERY_FAILED" : p \in {q \in Http : flow[q].order = o /\ LogFailure(q)}}

Record == journal' = [o \in Orders |-> journal[o] \cup (Recorded(o) \cap Counted)]

--------------------------------------------------------------------------------
(* AnalyticsService.                                                       *)

OnBoard == {"PLACED", "ACCEPTED", "ASSIGNED", "EN_ROUTE_TO_PICKUP", "PICKED_UP",
            "OUT_FOR_DELIVERY", "FAILED", "RETRY_SCHEDULED", "SCHEDULED"}

(* The orders still on their way, each with its driver if it has one. *)
DispatchBoard ==
  [o \in Orders |-> IF orders[o].status \in OnBoard THEN orders[o].driverId ELSE Off]

(* The orders that count as completed and as failed: of the driver's       *)
(* present orders, those with such an event at any time.                   *)
DriverPerformance(d) ==
  LET With(type) == {o \in Orders : orders[o].driverId = d /\ type \in journal[o]}
  IN  [completed |-> With("DELIVERED"), failed |-> With("DELIVERY_FAILED")]

--------------------------------------------------------------------------------
(* The page's query.  One is in flight at a time; its interval asks again  *)
(* when the last one has ended.                                            *)
Refetch(g) ==
  /\ query[g].state = "idle"
  /\ query' = [query EXCEPT ![g].state = "sent"]
  /\ UNCHANGED <<allVars, journal, board, asked, answers, told>>

ReadBoard(g) ==
  /\ query[g].state = "sent"
  /\ query' = [query EXCEPT ![g] = [state |-> "answered", rows |-> DispatchBoard]]
  /\ UNCHANGED <<allVars, journal, board, asked, answers, told>>

(* The mutant keeps the rows the answer has no order for. *)
ShowBoardMerged(g) ==
  /\ query[g].state = "answered"
  /\ board' = [board EXCEPT ![g] =
                 [o \in Orders |-> IF query[g].rows[o] = Off THEN @[o] ELSE query[g].rows[o]]]
  /\ query' = [query EXCEPT ![g] = NoQuery]
  /\ UNCHANGED <<allVars, journal, asked, answers, told>>

ShowBoard(g) ==
  /\ query[g].state = "answered"
  /\ board' = [board EXCEPT ![g] = query[g].rows]
  /\ query' = [query EXCEPT ![g] = NoQuery]
  /\ UNCHANGED <<allVars, journal, asked, answers, told>>

(* The request and its one retry fail: the page keeps what it shows. *)
FetchFails(g) ==
  /\ query[g].state # "idle"
  /\ query' = [query EXCEPT ![g] = NoQuery]
  /\ UNCHANGED <<allVars, journal, board, asked, answers, told>>

--------------------------------------------------------------------------------
(* The page's mutation.                                                    *)

(* "Auto-assign nearest", on any order shown without a driver; the button  *)
(* stays while an assignment is pending.                                   *)
Click(g, p, o) ==
  /\ board[g][o] = NoDriver
  /\ AtRest(p)
  /\ Assign(p, o, NoDriver)
  /\ asked' = [asked EXCEPT ![p] = g]
  /\ UNCHANGED <<deliveryVars, journal, board, query, answers, told>>

(* A request's end: an assignment that was made is answered to its page; a *)
(* refusal, an error or a crash shows the page nothing.                    *)
Reply ==
  /\ asked' = [p \in Procs |-> IF req'[p] = Idle THEN NoPage ELSE asked[p]]
  /\ answers' = answers \cup {<<asked[p], req[p].order>> :
                                p \in {q \in Procs : asked[q] # NoPage /\ Emit(q)}}

(* onSuccess: the page asks for the board again and drops the answer of a  *)
(* query in flight.  The mutant lets that query finish.                    *)
Told(g, o) == [told EXCEPT ![g] = @ \cup {x \in {o} : orders[x].driverId # NoDriver}]

HearKeepsQuery(g, o) ==
  /\ <<g, o>> \in answers
  /\ answers' = answers \ {<<g, o>>}
  /\ query' = [query EXCEPT ![g].state = IF @ = "idle" THEN "sent" ELSE @]
  /\ told' = Told(g, o)
  /\ UNCHANGED <<allVars, journal, board, asked>>

Hear(g, o) ==
  /\ <<g, o>> \in answers
  /\ answers' = answers \ {<<g, o>>}
  /\ query' = [query EXCEPT ![g] = [NoQuery EXCEPT !.state = "sent"]]
  /\ told' = Told(g, o)
  /\ UNCHANGED <<allVars, journal, board, asked>>

LoseAnswer(g, o) ==
  /\ <<g, o>> \in answers
  /\ answers' = answers \ {<<g, o>>}
  /\ UNCHANGED <<allVars, journal, board, query, asked, told>>

--------------------------------------------------------------------------------
DispatchInit ==
  /\ DeliveryInit
  /\ journal = [o \in Orders |-> {}]
  /\ board = [g \in Pages |-> EmptyBoard]
  /\ query = [g \in Pages |-> NoQuery]
  /\ asked = [p \in Procs |-> NoPage]
  /\ answers = {}
  /\ told = [g \in Pages |-> {}]

(* The API and everyone else who uses it. *)
Serve ==
  /\ DeliveryNext
  /\ Record
  /\ Reply
  /\ told' = [g \in Pages |-> {o \in told[g] : orders'[o].driverId # NoDriver}]
  /\ UNCHANGED <<board, query>>

Page(g) ==
  \/ Refetch(g) \/ ReadBoard(g) \/ ShowBoard(g) \/ FetchFails(g)
  \/ \E o \in Orders : Hear(g, o) \/ LoseAnswer(g, o) \/ \E p \in Http : Click(g, p, o)

DispatchNext == Serve \/ \E g \in Pages : Page(g)

DispatchSpec == DispatchInit /\ [][DispatchNext]_dispatchVars
================================================================================
