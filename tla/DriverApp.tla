-------------------------------- MODULE DriverApp --------------------------------
(***************************************************************************)
(* The driver app's outbox.  Buttons and, while the socket is down, the    *)
(* location task append to it; a timer starts a flush every ten seconds,   *)
(* also when an earlier one still waits for the network.  A flush works on *)
(* the rows it read when it began.  The API is on the other side of a      *)
(* network that loses requests and answers, or delivers them late; there a *)
(* transition reads the order first and writes it in a step of its own.    *)
(***************************************************************************)
EXTENDS OrderStatus, Naturals, Sequences, FiniteSetsExt

CONSTANTS
  Flushes,     \* flushes that may overlap
  Asked,       \* what the buttons ask for: statuses of the order
  StaffMoves,  \* statuses others move the order to meanwhile
  FirstStatus, \* status of the order when the app is opened
  MAX_ATTEMPTS,
  Batch,       \* rows a flush reads at most
  MaxEntries   \* bound: entries ever appended

ASSUME DriverAppAssumption ==
  /\ Asked \subseteq Status /\ StaffMoves \subseteq Status /\ FirstStatus \in Status
  /\ MAX_ATTEMPTS \in Nat \ {0} /\ Batch \in Nat \ {0} /\ MaxEntries \in Nat

VARIABLES
  outbox,      \* the table, in the order of created_at
  history,     \* of each entry: what really happened to it
  flush,       \* the flushes under way, and of each row one has left the attempts
  wire,        \* the last request of each flush, until the API handles it
  order        \* the API: status of the order

appVars == <<outbox, history, flush, wire, order>>

PING == "LOCATION_PING"
What == Asked \cup {PING}

OutboxRow == [what : What, attempts : 0 .. MAX_ATTEMPTS, status : {"PENDING", "SENT", "DEAD"}]

Entry == [failures : 0 .. MAX_ATTEMPTS, applied : 0 .. 2, gaveUp : BOOLEAN]
NothingYet == [failures |-> 0, applied |-> 0, gaveUp |-> FALSE]
NoRequest == [id |-> 0, from |-> NoStatus]
NotFlushing == [pc |-> "idle", left |-> <<>>]

Goto(f, pc) == flush' = [flush EXCEPT ![f].pc = pc]

--------------------------------------------------------------------------------
(* enqueue: of a button, ActiveDeliveryScreen.transition and               *)
(* completeWithOtp, and of the location task.                              *)
Enqueue(what) ==
  /\ Len(outbox) < MaxEntries
  /\ outbox' = Append(outbox, [what |-> what, attempts |-> 0, status |-> "PENDING"])
  /\ history' = Append(history, NothingYet)
  /\ UNCHANGED <<flush, wire, order>>

Press == \E to \in Asked : Enqueue(to)
Ping == Enqueue(PING)

(* flushOutbox: SELECT ... ORDER BY created_at LIMIT.  The rows are known  *)
(* by their place in the table, and worked off from the first on.          *)
Pending == {i \in DOMAIN outbox : outbox[i].status = "PENDING"}
Rows == {i \in Pending : Cardinality({j \in Pending : j < i}) < Batch}
Row(f) == Min(DOMAIN flush[f].left)

StartFlush(f) ==
  /\ flush[f] = NotFlushing
  /\ Pending # {}
  /\ flush' = [flush EXCEPT ![f] = [pc |-> "send", left |-> [i \in Rows |-> outbox[i].attempts]]]
  /\ UNCHANGED <<outbox, history, wire, order>>

(* apiFetch. *)
Send(f) ==
  /\ flush[f].pc = "send"
  /\ wire' = [wire EXCEPT ![f] = [id |-> Row(f), from |-> NoStatus]]
  /\ Goto(f, "wait")
  /\ UNCHANGED <<outbox, history, order>>

(* The network gives up, whatever became of the request. *)
ConnectionFails(f) ==
  /\ flush[f].pc = "wait"
  /\ Goto(f, "failed")
  /\ UNCHANGED <<outbox, history, wire, order>>

(* The loop of a flush goes on with the row behind this one.  The mutant   *)
(* does not see the end.                                                   *)
Behind(f) == DOMAIN flush[f].left \ {Row(f)}

NextRowPastEnd(f) ==
  flush' = [flush EXCEPT ![f] = [pc |-> "send", left |-> Restrict(@.left, Behind(f))]]

NextRow(f) ==
  flush' = [flush EXCEPT ![f] = IF Behind(f) = {} THEN NotFlushing
                                ELSE [pc |-> "send", left |-> Restrict(@.left, Behind(f))]]

MarkSent(f) ==
  /\ flush[f].pc = "ok"
  /\ outbox' = [outbox EXCEPT ![Row(f)].status = "SENT"]
  /\ NextRow(f)
  /\ UNCHANGED <<history, wire, order>>

(* A failure is counted from the row as it was read, and ends the flush.   *)
(* The mutants count the whole batch, count nothing, or go on with the     *)
(* next row.                                                               *)
Failed(f, i) ==
  LET attempts == flush[f].left[i] + 1 IN
  [outbox[i] EXCEPT !.attempts = attempts,
                    !.status = IF attempts >= MAX_ATTEMPTS THEN "DEAD" ELSE "PENDING"]

Count(f, i) ==
  history' = [history EXCEPT ![i].failures = IF @ < MAX_ATTEMPTS THEN @ + 1 ELSE @,
                             ![i].gaveUp = @ \/ Failed(f, i).status = "DEAD"]

MarkFailedBatch(f) ==
  /\ flush[f].pc = "failed"
  /\ outbox' = [i \in DOMAIN outbox |->
                  IF i \in DOMAIN flush[f].left THEN Failed(f, i) ELSE outbox[i]]
  /\ Count(f, Row(f))
  /\ flush' = [flush EXCEPT ![f] = NotFlushing]
  /\ UNCHANGED <<wire, order>>

MarkFailedUncounted(f) ==
  /\ flush[f].pc = "failed"
  /\ flush' = [flush EXCEPT ![f] = NotFlushing]
  /\ UNCHANGED <<outbox, history, wire, order>>

MarkFailedGoOn(f) ==
  /\ flush[f].pc = "failed"
  /\ outbox' = [outbox EXCEPT ![Row(f)] = Failed(f, Row(f))]
  /\ Count(f, Row(f))
  /\ NextRow(f)
  /\ UNCHANGED <<wire, order>>

MarkFailed(f) ==
  /\ flush[f].pc = "failed"
  /\ outbox' = [outbox EXCEPT ![Row(f)] = Failed(f, Row(f))]
  /\ Count(f, Row(f))
  /\ flush' = [flush EXCEPT ![f] = NotFlushing]
  /\ UNCHANGED <<wire, order>>

(* The app is killed; SQLite stays, and what is on the wire.               *)
Kill ==
  /\ \E f \in Flushes : flush[f] # NotFlushing
  /\ flush' = [f \in Flushes |-> NotFlushing]
  /\ UNCHANGED <<outbox, history, wire, order>>

--------------------------------------------------------------------------------
(* The API: OrdersService.transition, or the end of a delivery.  It reads  *)
(* the order and refuses what the table does not allow.  It may refuse     *)
(* anything: the route of a location ping does not exist, a driver without *)
(* an access token that is still good gets a 401 (no refresh token is ever *)
(* stored), and there are errors of its own.  The Idempotency-Key is not   *)
(* looked at on these routes.  An answer gets lost, or comes when the      *)
(* flush no longer waits for it.                                           *)
Awaited(f) == flush[f].pc = "wait" /\ Row(f) = wire[f].id

Answer(f, pc) == UNCHANGED flush \/ (Awaited(f) /\ Goto(f, pc))

ReadOrder(f) ==
  LET to == outbox[wire[f].id].what IN
  /\ wire[f] # NoRequest /\ wire[f].from = NoStatus
  /\ to # PING /\ CanTransition(order, to)
  /\ wire' = [wire EXCEPT ![f].from = order]
  /\ UNCHANGED <<outbox, history, flush, order>>

Refuse(f) ==
  /\ wire[f] # NoRequest
  /\ wire' = [wire EXCEPT ![f] = NoRequest]
  /\ Answer(f, "failed")
  /\ UNCHANGED <<outbox, history, order>>

WriteOrder(f) ==
  LET id == wire[f].id IN
  /\ wire[f].from # NoStatus
  /\ wire' = [wire EXCEPT ![f] = NoRequest]
  /\ order' = outbox[id].what
  /\ history' = [history EXCEPT ![id].applied = IF @ < 2 THEN @ + 1 ELSE @]
  /\ Answer(f, "ok")
  /\ UNCHANGED outbox

Handle(f) == ReadOrder(f) \/ Refuse(f) \/ WriteOrder(f)

(* The dispatchers meanwhile. *)
StaffMove(s) ==
  /\ CanTransition(order, s)
  /\ order' = s
  /\ UNCHANGED <<outbox, history, flush, wire>>

--------------------------------------------------------------------------------
Init ==
  /\ outbox = <<>> /\ history = <<>>
  /\ flush = [f \in Flushes |-> NotFlushing]
  /\ wire = [f \in Flushes |-> NoRequest]
  /\ order = FirstStatus

Run(f) == Send(f) \/ ConnectionFails(f) \/ MarkSent(f) \/ MarkFailed(f)

Next ==
  \/ Press \/ Ping
  \/ \E f \in Flushes : StartFlush(f) \/ Run(f) \/ Handle(f)
  \/ Kill
  \/ \E s \in StaffMoves : StaffMove(s)

Spec == Init /\ [][Next]_appVars
================================================================================
