---------------------------- MODULE DriverAppProofs ----------------------------
(***************************************************************************)
(* Proofs about DriverApp, for every number of flushes, entries, attempts  *)
(* and rows in a batch, over any network and however often the app dies.   *)
(***************************************************************************)
EXTENDS DriverAppRequirements, SequenceTheorems, FiniteSetTheorems, WellFoundedInduction, TLAPS

(* What leaves the head of a flush: the earliest row it has left. *)
LEMMA Earliest ==
  ASSUME NEW S \in SUBSET Nat, S # {}
  PROVE  Min(S) \in S /\ \A i \in S : Min(S) <= i
<1> DEFINE R == {ss \in Nat \X Nat : ss[1] < ss[2]}
<1>0. IsWellFoundedOn(R, Nat)
  BY NatLessThanWellFounded, Zenon DEF OpToRel
<1>1. PICK x \in S : \A y \in S : ~ (<<y, x>> \in R)
  BY <1>0, WFMin
<1>2. ASSUME NEW y \in S
      PROVE  x <= y
  <2>1. x \in Nat /\ y \in Nat
    OBVIOUS
  <2>2. y < x => <<y, x>> \in R
    BY <2>1
  <2> QED
    BY <2>1, <2>2, <1>1
<1> QED
  BY <1>1, <1>2 DEF Min

(* The fate of an entry that is out of the way of the later ones. *)
Dealt(j) == history[j].applied > 0 \/ history[j].gaveUp

(* All before i but what the flush still has left is dealt with. *)
FlushInv(f) ==
  \A i \in DOMAIN flush[f].left :
    /\ flush[f].left[i] <= history[i].failures
    /\ \A j \in DOMAIN outbox : j < i /\ j \notin DOMAIN flush[f].left => Dealt(j)

WireInv(f) ==
  /\ wire[f] # NoRequest => \A j \in DOMAIN outbox : j < wire[f].id => Dealt(j)
  /\ wire[f].from # NoStatus => outbox[wire[f].id].what \in Status

EntryInv(i) ==
  /\ outbox[i].attempts <= history[i].failures
  /\ outbox[i].status = "SENT" => history[i].applied > 0
  /\ outbox[i].status = "DEAD" => history[i].failures >= MAX_ATTEMPTS /\ history[i].gaveUp

OkInv(f) == flush[f].pc = "ok" => history[Row(f)].applied > 0

QueueInv ==
  /\ DriverAppTypeOK
  /\ \A i \in DOMAIN outbox : EntryInv(i)
  /\ \A f \in Flushes : FlushInv(f) /\ WireInv(f) /\ OkInv(f)

--------------------------------------------------------------------------------
(* The tables as functions on the places of their rows. *)
LEMMA Tables ==
  ASSUME DriverAppTypeOK
  PROVE  /\ DOMAIN outbox = 1 .. Len(outbox) /\ DOMAIN history = 1 .. Len(outbox)
         /\ Len(outbox) \in Nat
         /\ \A i \in 1 .. Len(outbox) : outbox[i] \in OutboxRow /\ history[i] \in Entry
<1>1. outbox \in Seq(OutboxRow) /\ history \in Seq(Entry) /\ Len(history) = Len(outbox)
  BY DEF DriverAppTypeOK
<1>2. DOMAIN outbox = 1 .. Len(outbox) /\ DOMAIN history = 1 .. Len(history) /\ Len(outbox) \in Nat
  BY <1>1, LenProperties
<1>3. \A i \in 1 .. Len(outbox) : outbox[i] \in OutboxRow
  BY <1>1, <1>2, ElementOfSeq
<1>4. \A i \in 1 .. Len(history) : history[i] \in Entry
  BY <1>1, <1>2, ElementOfSeq
<1> QED
  BY <1>1, <1>2, <1>3, <1>4

(* A flush over a table with these places. *)
FlushOver(places) ==
  [pc : {"send", "wait", "ok", "failed"},
   left : UNION {[ids -> 0 .. MAX_ATTEMPTS - 1] : ids \in (SUBSET places) \ {{}}}]

LEMMA FlushFields ==
  ASSUME NEW places, NEW x \in FlushOver(places)
  PROVE  /\ x = [pc |-> x.pc, left |-> x.left] /\ x.pc \in {"send", "wait", "ok", "failed"}
         /\ DOMAIN x.left \subseteq places /\ DOMAIN x.left # {}
         /\ x.left \in [DOMAIN x.left -> 0 .. MAX_ATTEMPTS - 1]
<1>1. /\ x = [pc |-> x.pc, left |-> x.left] /\ x.pc \in {"send", "wait", "ok", "failed"}
      /\ x.left \in UNION {[ids -> 0 .. MAX_ATTEMPTS - 1] : ids \in (SUBSET places) \ {{}}}
  BY DEF FlushOver
<1>2. PICK ids \in (SUBSET places) \ {{}} : x.left \in [ids -> 0 .. MAX_ATTEMPTS - 1]
  BY <1>1
<1>3. DOMAIN x.left = ids
  BY <1>2
<1> QED
  BY <1>1, <1>2, <1>3

LEMMA FlushMade ==
  ASSUME NEW places, NEW pc \in {"send", "wait", "ok", "failed"},
         NEW ids \in SUBSET places, ids # {}, NEW left \in [ids -> 0 .. MAX_ATTEMPTS - 1]
  PROVE  [pc |-> pc, left |-> left] \in FlushOver(places)
<1>1. left \in UNION {[s -> 0 .. MAX_ATTEMPTS - 1] : s \in (SUBSET places) \ {{}}}
  OBVIOUS
<1> QED
  BY <1>1 DEF FlushOver

LEMMA FlushGrows ==
  ASSUME NEW places, NEW more, places \subseteq more
  PROVE  FlushOver(places) \subseteq FlushOver(more)
<1> SUFFICES ASSUME NEW x \in FlushOver(places)
             PROVE  x \in FlushOver(more)
  OBVIOUS
<1>1. DOMAIN x.left \in SUBSET more
  BY FlushFields
<1>2. [pc |-> x.pc, left |-> x.left] \in FlushOver(more)
  BY <1>1, FlushFields, FlushMade
<1> QED
  BY <1>2, FlushFields

(* A flush under way has a row in hand, the first of those it has left. *)
LEMMA InHand ==
  ASSUME DriverAppTypeOK, NEW f \in Flushes, flush[f].pc # "idle"
  PROVE  /\ flush[f] \in FlushOver(1 .. Len(outbox))
         /\ Row(f) \in DOMAIN flush[f].left
         /\ \A i \in DOMAIN flush[f].left :
              i \in 1 .. Len(outbox) /\ Row(f) <= i /\ flush[f].left[i] \in 0 .. MAX_ATTEMPTS - 1
<1>1. flush[f] \in FlushOver(1 .. Len(outbox))
  BY Tables DEF DriverAppTypeOK, Flush, FlushOver, NotFlushing
<1>2. /\ DOMAIN flush[f].left \subseteq 1 .. Len(outbox) /\ DOMAIN flush[f].left # {}
      /\ flush[f].left \in [DOMAIN flush[f].left -> 0 .. MAX_ATTEMPTS - 1]
  BY <1>1, FlushFields
<1>3. DOMAIN flush[f].left \in SUBSET Nat
  BY <1>2, Tables
<1>4. Row(f) \in DOMAIN flush[f].left /\ \A i \in DOMAIN flush[f].left : Row(f) <= i
  BY <1>2, <1>3, Earliest DEF Row
<1> QED
  BY <1>1, <1>2, <1>4

(* The rows a flush begins with: pending ones, at least one, and none is   *)
(* left out for a later one.                                               *)
LEMMA RowsRead ==
  ASSUME DriverAppTypeOK
  PROVE  /\ Rows \subseteq Pending /\ Pending \subseteq 1 .. Len(outbox)
         /\ Pending # {} => Rows # {}
         /\ \A i \in Rows : \A j \in Pending : j < i => j \in Rows
<1> DEFINE Before(i) == {j \in Pending : j < i}
<1>1. Pending \subseteq 1 .. Len(outbox) /\ Rows \subseteq Pending
  BY Tables DEF Pending, Rows
<1>2. \A i \in Pending : i \in Nat
  BY <1>1, Tables
<1>3. IsFiniteSet(1 .. Len(outbox))
  BY Tables, FS_Interval
<1>4. \A i : IsFiniteSet(Before(i))
  BY <1>1, <1>3, FS_Subset
<1>5. \A i \in Rows : \A j \in Pending : j < i => j \in Rows
  <2> TAKE i \in Rows
  <2> TAKE j \in Pending
  <2> HAVE j < i
  <2>0. i \in Nat /\ j \in Nat /\ \A k \in Pending : k \in Nat
    BY <1>1, <1>2
  <2>1. Before(j) \subseteq Before(i)
    <3> SUFFICES ASSUME NEW k \in Pending, k < j
                 PROVE  k < i
      BY DEF Before
    <3> QED
      BY <2>0
  <2>2. Cardinality(Before(j)) <= Cardinality(Before(i))
    BY <2>1, <1>4, FS_Subset
  <2>3. Cardinality(Before(j)) \in Nat /\ Cardinality(Before(i)) \in Nat
    BY <1>4, FS_CardinalityType
  <2>4. Cardinality(Before(i)) < Batch
    BY DEF Rows
  <2>5. Cardinality(Before(j)) < Batch
    BY <2>2, <2>3, <2>4, DriverAppAssumption
  <2> QED
    BY <2>5 DEF Rows
<1>6. ASSUME Pending # {}
      PROVE  Rows # {}
  <2>1. Pending \in SUBSET Nat
    BY <1>2
  <2>2. PICK i \in Pending : \A j \in Pending : i <= j
    BY <2>1, <1>6, Earliest
  <2>3. Before(i) = {}
    BY <2>2, <1>2
  <2>4. Cardinality(Before(i)) < Batch
    BY <2>3, FS_EmptySet, DriverAppAssumption
  <2> QED
    BY <2>4 DEF Rows
<1> QED
  BY <1>1, <1>5, <1>6

--------------------------------------------------------------------------------
(* What the steps that write the tables leave in them. *)
LEMMA Enqueued ==
  ASSUME DriverAppTypeOK, NEW what \in What, Enqueue(what)
  PROVE  /\ outbox' \in Seq(OutboxRow) /\ history' \in Seq(Entry)
         /\ Len(outbox') = Len(outbox) + 1 /\ Len(history') = Len(outbox) + 1
         /\ \A i \in 1 .. Len(outbox) : outbox'[i] = outbox[i] /\ history'[i] = history[i]
         /\ outbox'[Len(outbox) + 1] = [what |-> what, attempts |-> 0, status |-> "PENDING"]
         /\ history'[Len(outbox) + 1] = NothingYet
<1>1. [what |-> what, attempts |-> 0, status |-> "PENDING"] \in OutboxRow /\ NothingYet \in Entry
  BY DriverAppAssumption DEF OutboxRow, Entry, NothingYet
<1>2. /\ outbox \in Seq(OutboxRow) /\ history \in Seq(Entry) /\ Len(history) = Len(outbox)
      /\ outbox' = Append(outbox, [what |-> what, attempts |-> 0, status |-> "PENDING"])
      /\ history' = Append(history, NothingYet)
  BY DEF DriverAppTypeOK, Enqueue
<1> QED
  BY <1>1, <1>2, AppendProperties

LEMMA Sent ==
  ASSUME DriverAppTypeOK, NEW f \in Flushes, MarkSent(f)
  PROVE  /\ Row(f) \in 1 .. Len(outbox)
         /\ outbox' \in Seq(OutboxRow) /\ Len(outbox') = Len(outbox) /\ history' = history
         /\ \A i \in 1 .. Len(outbox) :
              outbox'[i] = IF i = Row(f) THEN [outbox[i] EXCEPT !.status = "SENT"] ELSE outbox[i]
<1>1. Row(f) \in 1 .. Len(outbox)
  BY InHand DEF MarkSent
<1>2. outbox[Row(f)] \in OutboxRow
  BY <1>1, Tables
<1> DEFINE row == [outbox[Row(f)] EXCEPT !.status = "SENT"]
<1>3. row \in OutboxRow
  BY <1>2 DEF OutboxRow
<1>4. outbox' = [outbox EXCEPT ![Row(f)] = row] /\ history' = history
  BY DEF MarkSent
<1>5. outbox \in Seq(OutboxRow)
  BY DEF DriverAppTypeOK
<1> HIDE DEF row
<1>6. /\ outbox' \in Seq(OutboxRow) /\ Len(outbox') = Len(outbox)
      /\ \A i \in 1 .. Len(outbox) : outbox'[i] = IF i = Row(f) THEN row ELSE outbox[i]
  BY <1>1, <1>3, <1>4, <1>5, ExceptSeq
<1> QED
  BY <1>1, <1>4, <1>6 DEF row

(* A failure in the history: one more, up to the bound. *)
Counted(f, i) ==
  [history[i] EXCEPT !.failures = IF @ < MAX_ATTEMPTS THEN @ + 1 ELSE @,
                     !.gaveUp = @ \/ Failed(f, i).status = "DEAD"]

LEMMA FailedRow ==
  ASSUME DriverAppTypeOK, NEW f \in Flushes, flush[f].pc # "idle",
         NEW i \in DOMAIN flush[f].left
  PROVE  /\ Failed(f, i) \in OutboxRow /\ Counted(f, i) \in Entry
         /\ Failed(f, i).what = outbox[i].what
         /\ Failed(f, i).attempts = flush[f].left[i] + 1
         /\ Failed(f, i).status = IF flush[f].left[i] + 1 >= MAX_ATTEMPTS THEN "DEAD" ELSE "PENDING"
         /\ Counted(f, i).failures
              = IF history[i].failures < MAX_ATTEMPTS THEN history[i].failures + 1
                ELSE history[i].failures
         /\ Counted(f, i).applied = history[i].applied
         /\ Counted(f, i).gaveUp <=> (history[i].gaveUp \/ Failed(f, i).status = "DEAD")
<1>1. flush[f].left[i] \in 0 .. MAX_ATTEMPTS - 1 /\ outbox[i] \in OutboxRow /\ history[i] \in Entry
  BY InHand, Tables
<1>2. flush[f].left[i] + 1 \in 0 .. MAX_ATTEMPTS
  BY <1>1, DriverAppAssumption
<1>3. /\ Failed(f, i) \in OutboxRow /\ Failed(f, i).what = outbox[i].what
      /\ Failed(f, i).attempts = flush[f].left[i] + 1
      /\ Failed(f, i).status = IF flush[f].left[i] + 1 >= MAX_ATTEMPTS THEN "DEAD" ELSE "PENDING"
  BY <1>1, <1>2 DEF Failed, OutboxRow
<1> DEFINE more == IF history[i].failures < MAX_ATTEMPTS THEN history[i].failures + 1
                   ELSE history[i].failures
           up == history[i].gaveUp \/ Failed(f, i).status = "DEAD"
<1>4. more \in 0 .. MAX_ATTEMPTS /\ up \in BOOLEAN
  BY <1>1, DriverAppAssumption DEF Entry
<1>5. Counted(f, i) = [history[i] EXCEPT !.failures = more, !.gaveUp = up]
  BY DEF Counted
<1> HIDE DEF more, up
<1>6. /\ Counted(f, i) \in Entry /\ Counted(f, i).failures = more
      /\ Counted(f, i).applied = history[i].applied /\ Counted(f, i).gaveUp = up
  BY <1>1, <1>4, <1>5 DEF Entry
<1> QED
  BY <1>3, <1>6 DEF more, up

LEMMA GivenBack ==
  ASSUME DriverAppTypeOK, NEW f \in Flushes, MarkFailed(f)
  PROVE  /\ Row(f) \in 1 .. Len(outbox)
         /\ outbox' \in Seq(OutboxRow) /\ history' \in Seq(Entry)
         /\ Len(outbox') = Len(outbox) /\ Len(history') = Len(outbox)
         /\ \A i \in 1 .. Len(outbox) :
              /\ outbox'[i] = IF i = Row(f) THEN Failed(f, i) ELSE outbox[i]
              /\ history'[i] = IF i = Row(f) THEN Counted(f, i) ELSE history[i]
<1>1. Row(f) \in DOMAIN flush[f].left /\ Row(f) \in 1 .. Len(outbox) /\ flush[f].pc # "idle"
  BY InHand DEF MarkFailed
<1>2. Failed(f, Row(f)) \in OutboxRow /\ Counted(f, Row(f)) \in Entry
  BY <1>1, FailedRow
<1>3. outbox \in Seq(OutboxRow) /\ history \in Seq(Entry) /\ Len(history) = Len(outbox)
  BY DEF DriverAppTypeOK
<1>4. outbox' = [outbox EXCEPT ![Row(f)] = Failed(f, Row(f))]
  BY DEF MarkFailed
<1>5. history' = [history EXCEPT ![Row(f)] = Counted(f, Row(f))]
  BY <1>1, Tables DEF MarkFailed, Count, Counted
<1> QED
  BY <1>1, <1>2, <1>3, <1>4, <1>5, ExceptSeq

(* A write of the order in the history of its entry. *)
Noted(i) == [history[i] EXCEPT !.applied = IF @ < 2 THEN @ + 1 ELSE @]

LEMMA Requested ==
  ASSUME DriverAppTypeOK, NEW f \in Flushes, wire[f] # NoRequest
  PROVE  wire[f] \in Request /\ wire[f].id \in 1 .. Len(outbox)
                 /\ wire[f].from \in Status \cup {NoStatus}
  BY Tables DEF DriverAppTypeOK, Request

LEMMA Written ==
  ASSUME DriverAppTypeOK, NEW f \in Flushes, WriteOrder(f)
  PROVE  /\ wire[f] # NoRequest /\ wire[f].id \in 1 .. Len(outbox)
         /\ outbox' = outbox
         /\ history' \in Seq(Entry) /\ Len(history') = Len(outbox)
         /\ \A i \in 1 .. Len(outbox) :
              history'[i] = IF i = wire[f].id THEN Noted(i) ELSE history[i]
         /\ \A i \in 1 .. Len(outbox) :
              Noted(i) \in Entry /\ Noted(i).applied > 0 /\ Noted(i).applied >= history[i].applied
                /\ Noted(i).failures = history[i].failures /\ Noted(i).gaveUp = history[i].gaveUp
<1>1. wire[f] # NoRequest
  BY DEF WriteOrder, NoRequest
<1>2. wire[f].id \in 1 .. Len(outbox)
  BY <1>1, Requested
<1>3. ASSUME NEW i \in 1 .. Len(outbox)
      PROVE  Noted(i) \in Entry /\ Noted(i).applied > 0 /\ Noted(i).applied >= history[i].applied
               /\ Noted(i).failures = history[i].failures /\ Noted(i).gaveUp = history[i].gaveUp
  <2>1. history[i] \in Entry
    BY Tables
  <2> QED
    BY <2>1 DEF Noted, Entry
<1>4. history \in Seq(Entry) /\ Len(history) = Len(outbox)
  BY DEF DriverAppTypeOK
<1>5. history' = [history EXCEPT ![wire[f].id] = Noted(wire[f].id)] /\ outbox' = outbox
  BY <1>2, Tables DEF WriteOrder, Noted
<1> QED
  BY <1>1, <1>2, <1>3, <1>4, <1>5, ExceptSeq

--------------------------------------------------------------------------------
(* What any step does to the tables: they keep what they say, and nothing  *)
(* that has happened to an entry is forgotten.                             *)
Kept ==
  /\ outbox' \in Seq(OutboxRow) /\ history' \in Seq(Entry)
  /\ Len(history') = Len(outbox') /\ Len(outbox) <= Len(outbox') /\ Len(outbox') <= MaxEntries
  /\ \A i \in 1 .. Len(outbox') :
       /\ outbox'[i].status = "PENDING" => outbox'[i].attempts < MAX_ATTEMPTS
       /\ EntryInv(i)'
  /\ \A i \in 1 .. Len(outbox) :
       /\ outbox'[i].what = outbox[i].what
       /\ history[i].failures <= history'[i].failures
       /\ history[i].applied > 0 => history'[i].applied > 0
       /\ history[i].gaveUp => history'[i].gaveUp

LEMMA RowNow ==
  ASSUME QueueInv, NEW i \in 1 .. Len(outbox)
  PROVE  /\ outbox[i].status = "PENDING" => outbox[i].attempts < MAX_ATTEMPTS
         /\ EntryInv(i) /\ outbox[i] \in OutboxRow
         /\ history[i].failures \in 0 .. MAX_ATTEMPTS /\ history[i].failures \in Nat
         /\ history[i].applied \in Nat
<1>1. DriverAppTypeOK /\ \A j \in DOMAIN outbox : EntryInv(j)
  BY DEF QueueInv
<1>2. i \in DOMAIN outbox /\ outbox[i] \in OutboxRow /\ history[i] \in Entry
  BY <1>1, Tables
<1>3. outbox[i].status = "PENDING" => outbox[i].attempts < MAX_ATTEMPTS
  BY <1>1, <1>2 DEF DriverAppTypeOK
<1> QED
  BY <1>1, <1>2, <1>3, DriverAppAssumption DEF Entry

LEMMA TablesStay ==
  ASSUME QueueInv, UNCHANGED <<outbox, history>>
  PROVE  Kept
<1>1. /\ outbox' \in Seq(OutboxRow) /\ history' \in Seq(Entry)
      /\ Len(history') = Len(outbox') /\ Len(outbox) <= Len(outbox') /\ Len(outbox') <= MaxEntries
  BY Tables DEF QueueInv, DriverAppTypeOK
<1>2. \A i \in 1 .. Len(outbox') :
        /\ outbox'[i].status = "PENDING" => outbox'[i].attempts < MAX_ATTEMPTS
        /\ EntryInv(i)'
  BY Tables DEF QueueInv, DriverAppTypeOK, EntryInv
<1>3. ASSUME NEW i \in 1 .. Len(outbox)
      PROVE  /\ outbox'[i].what = outbox[i].what
             /\ history[i].failures <= history'[i].failures
             /\ history[i].applied > 0 => history'[i].applied > 0
             /\ history[i].gaveUp => history'[i].gaveUp
  <2>1. history[i].failures \in Nat
    BY RowNow
  <2> QED
    BY <2>1
<1> QED
  BY <1>1, <1>2, <1>3 DEF Kept

LEMMA TablesEnqueue ==
  ASSUME QueueInv, NEW what \in What, Enqueue(what)
  PROVE  Kept
<1> DEFINE n == Len(outbox)
<1>0. DriverAppTypeOK /\ n \in Nat /\ Len(outbox') = n + 1
  BY Tables, Enqueued DEF QueueInv
<1>1. /\ outbox' \in Seq(OutboxRow) /\ history' \in Seq(Entry)
      /\ Len(history') = Len(outbox') /\ n <= Len(outbox') /\ Len(outbox') <= MaxEntries
  BY <1>0, Enqueued, DriverAppAssumption DEF Enqueue
<1>2. ASSUME NEW i \in 1 .. n
      PROVE  /\ outbox'[i].status = "PENDING" => outbox'[i].attempts < MAX_ATTEMPTS
             /\ EntryInv(i)'
             /\ outbox'[i].what = outbox[i].what
             /\ history[i].failures <= history'[i].failures
             /\ history[i].applied > 0 => history'[i].applied > 0
             /\ history[i].gaveUp => history'[i].gaveUp
  <2>1. outbox'[i] = outbox[i] /\ history'[i] = history[i]
    BY <1>0, Enqueued
  <2>2. /\ outbox[i].status = "PENDING" => outbox[i].attempts < MAX_ATTEMPTS
        /\ EntryInv(i) /\ history[i].failures \in Nat
    BY RowNow
  <2> QED
    BY <2>1, <2>2 DEF EntryInv
<1>3. ASSUME NEW i, i = n + 1
      PROVE  /\ outbox'[i].status = "PENDING" => outbox'[i].attempts < MAX_ATTEMPTS
             /\ EntryInv(i)'
  <2>1. /\ outbox'[i] = [what |-> what, attempts |-> 0, status |-> "PENDING"]
        /\ history'[i] = NothingYet
    BY <1>0, <1>3, Enqueued
  <2> QED
    BY <2>1, DriverAppAssumption DEF EntryInv, NothingYet
<1>4. \A i \in 1 .. Len(outbox') : i \in 1 .. n \/ i = n + 1
  BY <1>0
<1> QED
  BY <1>1, <1>2, <1>3, <1>4 DEF Kept

LEMMA TablesSent ==
  ASSUME QueueInv, NEW f \in Flushes, MarkSent(f)
  PROVE  Kept
<1>0. DriverAppTypeOK /\ Len(outbox) \in Nat
  BY Tables DEF QueueInv
<1>1. /\ outbox' \in Seq(OutboxRow) /\ history' \in Seq(Entry)
      /\ Len(history') = Len(outbox') /\ Len(outbox') = Len(outbox) /\ Len(outbox') <= MaxEntries
  BY <1>0, Sent DEF DriverAppTypeOK
<1>2. ASSUME NEW i \in 1 .. Len(outbox)
      PROVE  /\ outbox'[i].status = "PENDING" => outbox'[i].attempts < MAX_ATTEMPTS
             /\ EntryInv(i)'
             /\ outbox'[i].what = outbox[i].what
             /\ history[i].failures <= history'[i].failures
  <2>1. /\ outbox[i].status = "PENDING" => outbox[i].attempts < MAX_ATTEMPTS
        /\ EntryInv(i) /\ history[i].failures \in Nat /\ outbox[i] \in OutboxRow
    BY RowNow
  <2>2. history' = history
    BY <1>0, Sent
  <2>3. CASE i = Row(f)
    <3>1. history[i].applied > 0
      BY <2>3 DEF QueueInv, OkInv, MarkSent
    <3>2. outbox'[i] = [outbox[i] EXCEPT !.status = "SENT"]
      BY <1>0, <2>3, Sent
    <3>3. /\ outbox'[i].status = "SENT" /\ outbox'[i].attempts = outbox[i].attempts
          /\ outbox'[i].what = outbox[i].what
      BY <2>1, <3>2 DEF OutboxRow
    <3> QED
      BY <2>1, <2>2, <3>1, <3>3 DEF EntryInv
  <2>4. CASE i # Row(f)
    <3>1. outbox'[i] = outbox[i]
      BY <1>0, <2>4, Sent
    <3> QED
      BY <2>1, <2>2, <3>1 DEF EntryInv
  <2> QED
    BY <2>3, <2>4
<1> QED
  BY <1>0, <1>1, <1>2, Sent DEF Kept

LEMMA TablesGivenBack ==
  ASSUME QueueInv, NEW f \in Flushes, MarkFailed(f)
  PROVE  Kept
<1>0. DriverAppTypeOK /\ Len(outbox) \in Nat
  BY Tables DEF QueueInv
<1>1. /\ outbox' \in Seq(OutboxRow) /\ history' \in Seq(Entry)
      /\ Len(history') = Len(outbox') /\ Len(outbox') = Len(outbox) /\ Len(outbox') <= MaxEntries
  BY <1>0, GivenBack DEF DriverAppTypeOK
<1>2. ASSUME NEW i \in 1 .. Len(outbox)
      PROVE  /\ outbox'[i].status = "PENDING" => outbox'[i].attempts < MAX_ATTEMPTS
             /\ EntryInv(i)'
             /\ outbox'[i].what = outbox[i].what
             /\ history[i].failures <= history'[i].failures
             /\ history[i].applied > 0 => history'[i].applied > 0
             /\ history[i].gaveUp => history'[i].gaveUp
  <2>1. /\ outbox[i].status = "PENDING" => outbox[i].attempts < MAX_ATTEMPTS
        /\ EntryInv(i) /\ outbox[i] \in OutboxRow /\ history[i].failures \in 0 .. MAX_ATTEMPTS
    BY RowNow
  <2>2. CASE i = Row(f)
    <3>0. flush[f].pc # "idle" /\ i \in DOMAIN flush[f].left
      BY <1>0, <2>2, InHand DEF MarkFailed
    <3>1. outbox'[i] = Failed(f, i) /\ history'[i] = Counted(f, i)
      BY <1>0, <2>2, GivenBack
    <3>2. flush[f].left[i] \in 0 .. MAX_ATTEMPTS - 1 /\ flush[f].left[i] <= history[i].failures
      BY <1>0, <3>0, InHand DEF QueueInv, FlushInv
    <3>3. /\ outbox'[i].what = outbox[i].what /\ outbox'[i].attempts = flush[f].left[i] + 1
          /\ outbox'[i].status
               = IF flush[f].left[i] + 1 >= MAX_ATTEMPTS THEN "DEAD" ELSE "PENDING"
          /\ history'[i].failures
               = IF history[i].failures < MAX_ATTEMPTS THEN history[i].failures + 1
                 ELSE history[i].failures
          /\ history'[i].applied = history[i].applied
          /\ history'[i].gaveUp <=> (history[i].gaveUp \/ outbox'[i].status = "DEAD")
      BY <1>0, <3>0, <3>1, FailedRow
    <3>4. outbox'[i].status = "PENDING" => outbox'[i].attempts < MAX_ATTEMPTS
      BY <3>2, <3>3, DriverAppAssumption
    <3>5. history[i].failures <= history'[i].failures /\ outbox'[i].attempts <= history'[i].failures
      BY <2>1, <3>2, <3>3, DriverAppAssumption
    <3>6. outbox'[i].status = "DEAD" => history'[i].failures >= MAX_ATTEMPTS
      BY <2>1, <3>2, <3>3, DriverAppAssumption
    <3> QED
      BY <3>3, <3>4, <3>5, <3>6 DEF EntryInv
  <2>3. CASE i # Row(f)
    <3>1. outbox'[i] = outbox[i] /\ history'[i] = history[i]
      BY <1>0, <2>3, GivenBack
    <3> QED
      BY <2>1, <3>1 DEF EntryInv
  <2> QED
    BY <2>2, <2>3
<1> QED
  BY <1>0, <1>1, <1>2 DEF Kept

LEMMA TablesWritten ==
  ASSUME QueueInv, NEW f \in Flushes, WriteOrder(f)
  PROVE  Kept
<1>0. DriverAppTypeOK /\ Len(outbox) \in Nat
  BY Tables DEF QueueInv
<1>1. /\ outbox' \in Seq(OutboxRow) /\ history' \in Seq(Entry)
      /\ Len(history') = Len(outbox') /\ Len(outbox') = Len(outbox) /\ Len(outbox') <= MaxEntries
  BY <1>0, Written DEF DriverAppTypeOK
<1>2. ASSUME NEW i \in 1 .. Len(outbox)
      PROVE  /\ outbox'[i].status = "PENDING" => outbox'[i].attempts < MAX_ATTEMPTS
             /\ EntryInv(i)'
             /\ outbox'[i].what = outbox[i].what
             /\ history[i].failures <= history'[i].failures
             /\ history[i].applied > 0 => history'[i].applied > 0
             /\ history[i].gaveUp => history'[i].gaveUp
  <2>1. /\ outbox[i].status = "PENDING" => outbox[i].attempts < MAX_ATTEMPTS
        /\ EntryInv(i) /\ history[i].failures \in Nat /\ history[i].applied \in Nat
    BY RowNow
  <2>2. /\ outbox'[i] = outbox[i]
        /\ history'[i].failures = history[i].failures /\ history'[i].gaveUp = history[i].gaveUp
        /\ history[i].applied > 0 => history'[i].applied > 0
    BY <1>0, <2>1, Written
  <2> QED
    BY <2>1, <2>2 DEF EntryInv
<1> QED
  BY <1>0, <1>1, <1>2 DEF Kept

LEMMA TablesStep ==
  ASSUME QueueInv, [Next]_appVars
  PROVE  Kept
<1>1. CASE Press
  BY <1>1, TablesEnqueue DEF Press, What
<1>2. CASE Ping
  BY <1>2, TablesEnqueue DEF Ping, What
<1>3. ASSUME NEW f \in Flushes, StartFlush(f) \/ Run(f) \/ Handle(f)
      PROVE  Kept
  <2>1. CASE MarkSent(f)
    BY <2>1, TablesSent
  <2>2. CASE MarkFailed(f)
    BY <2>2, TablesGivenBack
  <2>3. CASE WriteOrder(f)
    BY <2>3, TablesWritten
  <2>4. CASE StartFlush(f) \/ Send(f) \/ ConnectionFails(f) \/ ReadOrder(f) \/ Refuse(f)
    BY <2>4, TablesStay DEF StartFlush, Send, ConnectionFails, ReadOrder, Refuse
  <2> QED
    BY <1>3, <2>1, <2>2, <2>3, <2>4 DEF Run, Handle
<1>4. CASE Kill
  BY <1>4, TablesStay DEF Kill
<1>5. CASE \E s \in StaffMoves : StaffMove(s)
  BY <1>5, TablesStay DEF StaffMove
<1>6. CASE UNCHANGED appVars
  BY <1>6, TablesStay DEF appVars
<1> QED
  BY <1>1, <1>2, <1>3, <1>4, <1>5, <1>6 DEF Next

--------------------------------------------------------------------------------
(* What any step does to a flush. *)
FlushFine(f) ==
  /\ flush[f] \in FlushOver(1 .. Len(outbox)) \cup {NotFlushing}
  /\ FlushInv(f) /\ OkInv(f)

LEMMA DealtStays ==
  ASSUME QueueInv, Kept, NEW i \in 1 .. Len(outbox), Dealt(i)
  PROVE  Dealt(i)'
  BY DEF Kept, Dealt

LEMMA IdleFine ==
  ASSUME NEW f \in Flushes, flush'[f] = NotFlushing
  PROVE  FlushFine(f)'
<1>1. DOMAIN flush'[f].left = {} /\ flush'[f].pc = "idle"
  BY DEF NotFlushing
<1> QED
  BY <1>1 DEF FlushFine, FlushInv, OkInv

(* A flush that has some rows left of those it had. *)
LEMMA LeftFine ==
  ASSUME QueueInv, Kept, NEW f \in Flushes, flush[f].pc # "idle",
         DOMAIN flush'[f].left \subseteq DOMAIN flush[f].left,
         \A i \in DOMAIN flush'[f].left : flush'[f].left[i] = flush[f].left[i],
         \A i \in DOMAIN flush[f].left \ DOMAIN flush'[f].left : Dealt(i)
  PROVE  FlushInv(f)'
<1> SUFFICES ASSUME NEW i \in DOMAIN flush'[f].left
             PROVE  /\ flush'[f].left[i] <= history'[i].failures
                    /\ \A j \in DOMAIN outbox' :
                         j < i /\ j \notin DOMAIN flush'[f].left => Dealt(j)'
  BY DEF FlushInv
<1>0. DriverAppTypeOK /\ Len(outbox) \in Nat /\ FlushInv(f)
  BY Tables DEF QueueInv
<1>1. i \in DOMAIN flush[f].left /\ i \in 1 .. Len(outbox) /\ flush[f].left[i] \in Nat
  BY <1>0, InHand, DriverAppAssumption
<1>2. flush[f].left[i] <= history[i].failures /\ history[i].failures \in Nat
  BY <1>0, <1>1, RowNow DEF FlushInv
<1>3. history[i].failures <= history'[i].failures /\ history'[i].failures \in Nat
  <2>1. i \in 1 .. Len(history') /\ history' \in Seq(Entry)
    BY <1>0, <1>1, LenProperties DEF Kept
  <2>2. history'[i] \in Entry
    BY <2>1, ElementOfSeq
  <2> QED
    BY <1>1, <2>2, DriverAppAssumption DEF Kept, Entry
<1>4. ASSUME NEW j \in DOMAIN outbox', j < i, j \notin DOMAIN flush'[f].left
      PROVE  Dealt(j)'
  <2>1. j \in 1 .. Len(outbox)
    <3>1. DOMAIN outbox' = 1 .. Len(outbox') /\ Len(outbox') \in Nat
      BY LenProperties DEF Kept
    <3> QED
      BY <1>0, <1>1, <1>4, <3>1
  <2>2. Dealt(j)
    BY <1>0, <1>1, <1>4, <2>1, Tables DEF FlushInv
  <2> QED
    BY <2>1, <2>2, DealtStays
<1> QED
  BY <1>1, <1>2, <1>3, <1>4

LEMMA GoneTo ==
  ASSUME QueueInv, Kept, NEW f \in Flushes, flush[f].pc # "idle",
         NEW pc \in {"send", "wait", "ok", "failed"}, flush'[f] = [flush[f] EXCEPT !.pc = pc],
         pc = "ok" => history'[Row(f)].applied > 0
  PROVE  FlushFine(f)'
<1>0. DriverAppTypeOK
  BY DEF QueueInv
<1>1. flush[f] \in FlushOver(1 .. Len(outbox)) /\ flush[f] = [pc |-> flush[f].pc, left |-> flush[f].left]
  BY <1>0, InHand, FlushFields
<1>2. flush'[f] = [pc |-> pc, left |-> flush[f].left]
  BY <1>1
<1>3. flush'[f] \in FlushOver(1 .. Len(outbox))
  BY <1>1, <1>2, FlushFields, FlushMade
<1>4. flush'[f] \in FlushOver(1 .. Len(outbox'))
  <2>1. 1 .. Len(outbox) \subseteq 1 .. Len(outbox')
    <3>1. Len(outbox) \in Nat /\ Len(outbox') \in Nat /\ Len(outbox) <= Len(outbox')
      BY <1>0, Tables, LenProperties DEF Kept
    <3> QED
      BY <3>1
  <2> QED
    BY <1>3, <2>1, FlushGrows
<1>5. FlushInv(f)'
  BY <1>2, LeftFine
<1>6. Row(f)' = Row(f)
  BY <1>2 DEF Row
<1> QED
  BY <1>2, <1>4, <1>5, <1>6 DEF FlushFine, OkInv

LEMMA SameFine ==
  ASSUME QueueInv, Kept, NEW f \in Flushes, flush'[f] = flush[f]
  PROVE  FlushFine(f)'
<1>0. DriverAppTypeOK /\ OkInv(f)
  BY DEF QueueInv
<1>1. CASE flush[f].pc # "idle"
  <2>1. /\ flush[f].pc \in {"send", "wait", "ok", "failed"} /\ Row(f) \in 1 .. Len(outbox)
        /\ flush[f] = [pc |-> flush[f].pc, left |-> flush[f].left]
    BY <1>0, <1>1, InHand, FlushFields
  <2>2. flush'[f] = [flush[f] EXCEPT !.pc = flush[f].pc]
    BY <2>1
  <2>3. flush[f].pc = "ok" => history'[Row(f)].applied > 0
    BY <1>0, <2>1 DEF OkInv, Kept
  <2> QED
    BY <1>1, <2>1, <2>2, <2>3, GoneTo
<1>2. CASE flush[f].pc = "idle"
  <2>1. flush[f] \in Flush \cup {NotFlushing}
    BY <1>0 DEF DriverAppTypeOK
  <2>2. flush[f] = NotFlushing
    BY <1>2, <2>1 DEF Flush
  <2> QED
    BY <2>2, IdleFine
<1> QED
  BY <1>1, <1>2

LEMMA StartFine ==
  ASSUME QueueInv, Kept, NEW f \in Flushes, StartFlush(f)
  PROVE  FlushFine(f)'
<1>0. DriverAppTypeOK /\ Len(outbox) \in Nat
  BY Tables DEF QueueInv
<1> DEFINE left == [i \in Rows |-> outbox[i].attempts]
<1>1. flush'[f] = [pc |-> "send", left |-> left] /\ outbox' = outbox /\ history' = history
  BY <1>0 DEF StartFlush, DriverAppTypeOK
<1>2. Rows # {} /\ Rows \subseteq 1 .. Len(outbox) /\ Rows \subseteq Pending
  BY <1>0, RowsRead DEF StartFlush
<1>3. ASSUME NEW i \in Rows
      PROVE  outbox[i].attempts \in 0 .. MAX_ATTEMPTS - 1 /\ outbox[i].attempts <= history[i].failures
  BY <1>2, RowNow, DriverAppAssumption DEF Pending, OutboxRow, EntryInv
<1>4. left \in [Rows -> 0 .. MAX_ATTEMPTS - 1] /\ DOMAIN left = Rows
  BY <1>3
<1> HIDE DEF left
<1>5. flush'[f] \in FlushOver(1 .. Len(outbox'))
  BY <1>1, <1>2, <1>4, FlushMade
<1>6. ASSUME NEW i \in Rows, NEW j \in DOMAIN outbox, j < i, j \notin Rows
      PROVE  Dealt(j)
  <2>1. j \in 1 .. Len(outbox) /\ j \notin Pending
    BY <1>0, <1>6, RowsRead, Tables
  <2>2. outbox[j].status \in {"SENT", "DEAD"}
    BY <1>0, <2>1, RowNow, Tables DEF Pending, OutboxRow
  <2> QED
    BY <2>1, <2>2, RowNow DEF EntryInv, Dealt
<1>7. FlushInv(f)'
  BY <1>1, <1>3, <1>4, <1>6 DEF FlushInv, Dealt, left
<1> QED
  BY <1>1, <1>5, <1>7 DEF FlushFine, OkInv

LEMMA NextFine ==
  ASSUME QueueInv, Kept, NEW f \in Flushes, MarkSent(f)
  PROVE  FlushFine(f)'
<1>0. DriverAppTypeOK /\ OkInv(f) /\ flush[f].pc = "ok"
  BY DEF QueueInv, MarkSent
<1>1. CASE Behind(f) = {}
  <2>1. flush'[f] = NotFlushing
    BY <1>0, <1>1 DEF MarkSent, NextRow, DriverAppTypeOK
  <2> QED
    BY <2>1, IdleFine
<1>2. CASE Behind(f) # {}
  <2> DEFINE left == Restrict(flush[f].left, Behind(f))
  <2>1. flush'[f] = [pc |-> "send", left |-> left]
    BY <1>0, <1>2 DEF MarkSent, NextRow, DriverAppTypeOK
  <2>2. /\ Behind(f) \subseteq DOMAIN flush[f].left /\ DOMAIN flush[f].left \subseteq 1 .. Len(outbox)
        /\ \A i \in DOMAIN flush[f].left : flush[f].left[i] \in 0 .. MAX_ATTEMPTS - 1
    BY <1>0, InHand DEF Behind
  <2>3. /\ left \in [Behind(f) -> 0 .. MAX_ATTEMPTS - 1] /\ DOMAIN left = Behind(f)
        /\ \A i \in Behind(f) : left[i] = flush[f].left[i]
    BY <2>2 DEF Restrict
  <2> HIDE DEF left
  <2>4. flush'[f] \in FlushOver(1 .. Len(outbox'))
    <3>1. Len(outbox') = Len(outbox)
      BY <1>0, Sent
    <3> QED
      BY <1>2, <2>1, <2>2, <2>3, <3>1, FlushMade
  <2>5. Dealt(Row(f))
    BY <1>0 DEF OkInv, Dealt
  <2>6. FlushInv(f)'
    BY <1>0, <2>1, <2>2, <2>3, <2>5, LeftFine DEF Behind
  <2> QED
    BY <2>1, <2>4, <2>6 DEF FlushFine, OkInv
<1> QED
  BY <1>1, <1>2

LEMMA FlushesStep ==
  ASSUME QueueInv, [Next]_appVars
  PROVE  DOMAIN flush' = Flushes /\ flush' = [f \in Flushes |-> flush'[f]]
           /\ \A f \in Flushes : FlushFine(f)'
<1> DEFINE Fine == DOMAIN flush' = Flushes /\ flush' = [f \in Flushes |-> flush'[f]]
                     /\ \A f \in Flushes : FlushFine(f)'
<1>0. /\ Kept /\ DriverAppTypeOK /\ DOMAIN flush = Flushes
      /\ flush = [f \in Flushes |-> flush[f]]
  BY TablesStep DEF QueueInv, DriverAppTypeOK
<1>1. CASE UNCHANGED flush
  BY <1>0, <1>1, SameFine
<1>2. ASSUME NEW f \in Flushes, NEW to, flush' = [flush EXCEPT ![f] = to], FlushFine(f)'
      PROVE  Fine
  <2>1. \A g \in Flushes \ {f} : flush'[g] = flush[g]
    BY <1>0, <1>2
  <2>2. \A g \in Flushes \ {f} : FlushFine(g)'
    BY <1>0, <2>1, SameFine
  <2> QED
    BY <1>0, <1>2, <2>2
<1>3. ASSUME NEW f \in Flushes, flush[f].pc # "idle",
             NEW pc \in {"send", "wait", "ok", "failed"}, Goto(f, pc),
             pc = "ok" => history'[Row(f)].applied > 0
      PROVE  Fine
  <2>1. flush' = [flush EXCEPT ![f] = [flush[f] EXCEPT !.pc = pc]]
    BY <1>0, <1>3 DEF Goto
  <2>2. flush'[f] = [flush[f] EXCEPT !.pc = pc]
    BY <1>0, <2>1
  <2>3. FlushFine(f)'
    BY <1>0, <1>3, <2>2, GoneTo
  <2> QED
    BY <2>1, <2>3, <1>2
<1>4. CASE Press \/ Ping \/ \E s \in StaffMoves : StaffMove(s)
  BY <1>1, <1>4 DEF Press, Ping, Enqueue, StaffMove
<1>5. ASSUME NEW f \in Flushes, StartFlush(f)
      PROVE  Fine
  <2>1. PICK to : flush' = [flush EXCEPT ![f] = to]
    BY <1>5 DEF StartFlush
  <2>2. FlushFine(f)'
    BY <1>0, <1>5, StartFine
  <2> QED
    BY <2>1, <2>2, <1>2
<1>6. ASSUME NEW f \in Flushes, Send(f)
      PROVE  Fine
  BY <1>6, <1>3 DEF Send
<1>7. ASSUME NEW f \in Flushes, ConnectionFails(f)
      PROVE  Fine
  BY <1>7, <1>3 DEF ConnectionFails
<1>8. ASSUME NEW f \in Flushes, MarkSent(f)
      PROVE  Fine
  <2>1. PICK to : flush' = [flush EXCEPT ![f] = to]
    BY <1>0, <1>8 DEF MarkSent, NextRow
  <2>2. FlushFine(f)'
    BY <1>0, <1>8, NextFine
  <2> QED
    BY <2>1, <2>2, <1>2
<1>9. ASSUME NEW f \in Flushes, MarkFailed(f)
      PROVE  Fine
  <2>1. flush' = [flush EXCEPT ![f] = NotFlushing]
    BY <1>9 DEF MarkFailed
  <2>2. flush'[f] = NotFlushing
    BY <1>0, <2>1
  <2>3. FlushFine(f)'
    BY <2>2, IdleFine
  <2> QED
    BY <2>1, <2>3, <1>2
<1>10. ASSUME NEW f \in Flushes, ReadOrder(f)
       PROVE  Fine
  BY <1>10, <1>1 DEF ReadOrder
<1>11. ASSUME NEW f \in Flushes, Refuse(f)
       PROVE  Fine
  <2>1. UNCHANGED flush \/ (flush[f].pc # "idle" /\ Goto(f, "failed"))
    BY <1>11 DEF Refuse, Answer, Awaited
  <2> QED
    BY <2>1, <1>1, <1>3
<1>12. ASSUME NEW f \in Flushes, WriteOrder(f)
       PROVE  Fine
  <2>1. CASE UNCHANGED flush
    BY <2>1, <1>1
  <2>2. CASE Awaited(f) /\ Goto(f, "ok")
    <3>1. flush[f].pc # "idle" /\ Row(f) = wire[f].id
      BY <2>2 DEF Awaited
    <3>2. history'[Row(f)].applied > 0
      BY <1>0, <1>12, <3>1, Written
    <3> QED
      BY <2>2, <3>1, <3>2, <1>3
  <2> QED
    BY <1>12, <2>1, <2>2 DEF WriteOrder, Answer
<1>13. CASE Kill
  <2>1. flush' = [f \in Flushes |-> NotFlushing]
    BY <1>13 DEF Kill
  <2>2. \A f \in Flushes : flush'[f] = NotFlushing
    BY <2>1
  <2>3. \A f \in Flushes : FlushFine(f)'
    BY <2>2, IdleFine
  <2> QED
    BY <2>1, <2>2, <2>3
<1>14. CASE UNCHANGED appVars
  BY <1>14, <1>1 DEF appVars
<1> QED
  BY <1>4, <1>5, <1>6, <1>7, <1>8, <1>9, <1>10, <1>11, <1>12, <1>13, <1>14 DEF Next, Run, Handle

--------------------------------------------------------------------------------
(* What any step does to a request. *)
Message(places) == [id : places, from : Status \cup {NoStatus}]

WireFine(f) ==
  /\ wire[f] \in Message(1 .. Len(outbox)) \cup {NoRequest}
  /\ WireInv(f)

LEMMA QuietFine ==
  ASSUME NEW f \in Flushes, wire'[f] = NoRequest
  PROVE  WireFine(f)'
  BY DEF WireFine, WireInv, NoRequest

(* A request for a row that the earlier ones are no longer in the way of. *)
LEMMA LoudFine ==
  ASSUME QueueInv, Kept, NEW f \in Flushes, wire'[f] \in Message(1 .. Len(outbox)),
         \A j \in 1 .. Len(outbox) : j < wire'[f].id => Dealt(j),
         wire'[f].from # NoStatus => outbox[wire'[f].id].what \in Status
  PROVE  WireFine(f)'
<1>1. DriverAppTypeOK /\ wire'[f].id \in 1 .. Len(outbox) /\ wire'[f].from \in Status \cup {NoStatus}
      /\ wire'[f] = [id |-> wire'[f].id, from |-> wire'[f].from]
  BY DEF QueueInv, Message
<1>2. /\ Len(outbox) \in Nat /\ Len(outbox') \in Nat /\ Len(outbox) <= Len(outbox')
      /\ DOMAIN outbox' = 1 .. Len(outbox')
  BY <1>1, Tables, LenProperties DEF Kept
<1>3. wire'[f] \in Message(1 .. Len(outbox'))
  BY <1>1, <1>2 DEF Message
<1>4. ASSUME NEW j \in DOMAIN outbox', j < wire'[f].id
      PROVE  Dealt(j)'
  <2>1. j \in 1 .. Len(outbox)
    BY <1>1, <1>2, <1>4
  <2> QED
    BY <1>4, <2>1, DealtStays
<1> QED
  BY <1>1, <1>3, <1>4 DEF WireFine, WireInv, Kept

LEMMA SameWireFine ==
  ASSUME QueueInv, Kept, NEW f \in Flushes, wire'[f] = wire[f]
  PROVE  WireFine(f)'
<1>1. DriverAppTypeOK /\ WireInv(f)
  BY DEF QueueInv
<1>2. CASE wire[f] # NoRequest
  <2>1. wire[f] \in Message(1 .. Len(outbox))
    BY <1>1, <1>2, Tables, Requested DEF Request, Message
  <2>2. /\ \A j \in 1 .. Len(outbox) : j < wire[f].id => Dealt(j)
        /\ wire[f].from # NoStatus => outbox[wire[f].id].what \in Status
    BY <1>1, <1>2, Tables DEF WireInv
  <2> QED
    BY <2>1, <2>2, LoudFine
<1> QED
  BY <1>2, QuietFine

LEMMA WiresStep ==
  ASSUME QueueInv, [Next]_appVars
  PROVE  wire' = [f \in Flushes |-> wire'[f]] /\ \A f \in Flushes : WireFine(f)'
<1> DEFINE Fine == wire' = [f \in Flushes |-> wire'[f]] /\ \A f \in Flushes : WireFine(f)'
<1>0. Kept /\ DriverAppTypeOK /\ DOMAIN wire = Flushes /\ wire = [f \in Flushes |-> wire[f]]
  BY TablesStep DEF QueueInv, DriverAppTypeOK
<1>1. CASE UNCHANGED wire
  BY <1>0, <1>1, SameWireFine
<1>2. ASSUME NEW f \in Flushes, NEW to, wire' = [wire EXCEPT ![f] = to], WireFine(f)'
      PROVE  Fine
  <2>1. \A g \in Flushes \ {f} : wire'[g] = wire[g]
    BY <1>0, <1>2
  <2>2. \A g \in Flushes \ {f} : WireFine(g)'
    BY <1>0, <2>1, SameWireFine
  <2> QED
    BY <1>0, <1>2, <2>2
<1>3. ASSUME NEW f \in Flushes, Send(f)
      PROVE  Fine
  <2> DEFINE to == [id |-> Row(f), from |-> NoStatus]
  <2>1. wire' = [wire EXCEPT ![f] = to] /\ flush[f].pc # "idle"
    BY <1>3 DEF Send
  <2>2. Row(f) \in DOMAIN flush[f].left /\ Row(f) \in 1 .. Len(outbox)
        /\ \A i \in DOMAIN flush[f].left : i \in 1 .. Len(outbox) /\ Row(f) <= i
    BY <1>0, <2>1, InHand
  <2>3. wire'[f] = to /\ to \in Message(1 .. Len(outbox)) /\ to.id = Row(f) /\ to.from = NoStatus
    BY <1>0, <2>1, <2>2 DEF Message
  <2>4. ASSUME NEW j \in 1 .. Len(outbox), j < Row(f)
        PROVE  Dealt(j)
    <3>1. j \notin DOMAIN flush[f].left
      BY <1>0, <2>2, <2>4, Tables
    <3> QED
      BY <1>0, <2>2, <2>4, <3>1, Tables DEF QueueInv, FlushInv
  <2>5. WireFine(f)'
    BY <1>0, <2>3, <2>4, LoudFine
  <2> QED
    BY <2>1, <2>5, <1>2
<1>4. ASSUME NEW f \in Flushes, ReadOrder(f)
      PROVE  Fine
  <2>1. wire' = [wire EXCEPT ![f] = [wire[f] EXCEPT !.from = order]] /\ wire[f] # NoRequest
    BY <1>0, <1>4 DEF ReadOrder
  <2>2. wire[f] \in Message(1 .. Len(outbox)) /\ order \in Status
    BY <1>0, <2>1, Tables, Requested DEF Request, Message, DriverAppTypeOK
  <2>3. wire'[f] = [wire[f] EXCEPT !.from = order]
    BY <1>0, <2>1
  <2>4. wire'[f] \in Message(1 .. Len(outbox)) /\ wire'[f].id = wire[f].id
    BY <2>2, <2>3 DEF Message
  <2>5. \A j \in 1 .. Len(outbox) : j < wire[f].id => Dealt(j)
    BY <1>0, <2>1, Tables DEF QueueInv, WireInv
  <2>6. outbox[wire[f].id].what \in Status
    <3>1. outbox[wire[f].id].what \in What
      BY <1>0, <2>1, Tables, Requested DEF OutboxRow
    <3> QED
      BY <1>4, <3>1, DriverAppAssumption DEF ReadOrder, What
  <2>7. WireFine(f)'
    BY <1>0, <2>4, <2>5, <2>6, LoudFine
  <2> QED
    BY <2>1, <2>7, <1>2
<1>5. ASSUME NEW f \in Flushes, Refuse(f) \/ WriteOrder(f)
      PROVE  Fine
  <2>1. wire' = [wire EXCEPT ![f] = NoRequest]
    BY <1>5 DEF Refuse, WriteOrder
  <2>2. WireFine(f)'
    BY <1>0, <2>1, QuietFine
  <2> QED
    BY <2>1, <2>2, <1>2
<1>6. CASE UNCHANGED appVars \/ Press \/ Ping \/ Kill \/ \E s \in StaffMoves : StaffMove(s)
  BY <1>1, <1>6 DEF appVars, Press, Ping, Enqueue, Kill, StaffMove
<1>7. ASSUME NEW f \in Flushes, StartFlush(f) \/ ConnectionFails(f) \/ MarkSent(f) \/ MarkFailed(f)
      PROVE  Fine
  BY <1>7, <1>1 DEF StartFlush, ConnectionFails, MarkSent, MarkFailed
<1> QED
  BY <1>3, <1>4, <1>5, <1>6, <1>7 DEF Next, Run, Handle

--------------------------------------------------------------------------------
(* What the API writes to the order is a status. *)
LEMMA OrderStep ==
  ASSUME QueueInv, [Next]_appVars
  PROVE  order' \in Status
<1>0. order \in Status
  BY DEF QueueInv, DriverAppTypeOK
<1>1. CASE UNCHANGED order
  BY <1>0, <1>1
<1>2. ASSUME NEW s \in StaffMoves, StaffMove(s)
      PROVE  order' \in Status
  BY <1>2, DriverAppAssumption DEF StaffMove
<1>3. ASSUME NEW f \in Flushes, WriteOrder(f)
      PROVE  order' \in Status
  BY <1>3 DEF WriteOrder, QueueInv, WireInv
<1>4. CASE UNCHANGED appVars \/ Press \/ Ping \/ Kill
  BY <1>1, <1>4 DEF appVars, Press, Ping, Enqueue, Kill
<1>5. ASSUME NEW f \in Flushes, StartFlush(f) \/ Run(f) \/ ReadOrder(f) \/ Refuse(f)
      PROVE  order' \in Status
  BY <1>5, <1>1
     DEF StartFlush, Run, Send, ConnectionFails, MarkSent, MarkFailed, ReadOrder, Refuse
<1> QED
  BY <1>2, <1>3, <1>4, <1>5 DEF Next, Handle

--------------------------------------------------------------------------------
LEMMA QueueInit ==
  ASSUME Init
  PROVE  QueueInv
<1>1. outbox = <<>> /\ history = <<>>
  BY DEF Init
<1>2. /\ outbox \in Seq(OutboxRow) /\ history \in Seq(Entry) /\ Len(outbox) = 0
      /\ Len(history) = 0 /\ DOMAIN outbox = {}
  BY <1>1, EmptySeq
<1>3. \A f \in Flushes : flush[f] = NotFlushing /\ wire[f] = NoRequest
  BY DEF Init
<1>4. DriverAppTypeOK
  BY <1>2, DriverAppAssumption DEF Init, DriverAppTypeOK
<1>5. \A f \in Flushes : FlushInv(f) /\ WireInv(f) /\ OkInv(f)
  <2>1. DOMAIN NotFlushing.left = {} /\ NotFlushing.pc # "ok" /\ NoRequest.from = NoStatus
    BY DEF NotFlushing, NoRequest
  <2> QED
    BY <1>3, <2>1 DEF FlushInv, WireInv, OkInv
<1> QED
  BY <1>2, <1>4, <1>5 DEF QueueInv

LEMMA QueueStep ==
  ASSUME QueueInv, [Next]_appVars
  PROVE  QueueInv'
<1>1. Kept
  BY TablesStep
<1>2. DOMAIN outbox' = 1 .. Len(outbox')
  BY <1>1, LenProperties DEF Kept
<1>3. /\ flush' = [f \in Flushes |-> flush'[f]]
      /\ \A f \in Flushes : flush'[f] \in Flush' \cup {NotFlushing}
  BY <1>2, FlushesStep DEF FlushFine, Flush, FlushOver
<1>4. /\ wire' = [f \in Flushes |-> wire'[f]]
      /\ \A f \in Flushes : wire'[f] \in Request' \cup {NoRequest}
  BY <1>2, WiresStep DEF WireFine, Request, Message
<1>5. flush' \in [Flushes -> Flush' \cup {NotFlushing}]
  BY <1>3
<1>6. wire' \in [Flushes -> Request' \cup {NoRequest}]
  BY <1>4
<1>7. DriverAppTypeOK'
  BY <1>1, <1>2, <1>5, <1>6, OrderStep DEF Kept, DriverAppTypeOK
<1>8. \A f \in Flushes : (FlushInv(f) /\ WireInv(f) /\ OkInv(f))'
  BY FlushesStep, WiresStep DEF FlushFine, WireFine
<1> QED
  BY <1>1, <1>2, <1>7, <1>8 DEF Kept, QueueInv

LEMMA QueueCorrect == Spec => []QueueInv
  BY QueueInit, QueueStep, PTL DEF Spec

--------------------------------------------------------------------------------
(* The tables keep their shape, a flush under way has a row in hand, and   *)
(* no row is tried that has failed as often as it may (flushOutbox).       *)
THEOREM DriverAppTypeCorrect == Spec => []DriverAppTypeOK
<1>1. QueueInv => DriverAppTypeOK
  BY DEF QueueInv
<1> QED
  BY <1>1, QueueCorrect, PTL

(* A row that has left the queue was applied, or was really tried          *)
(* MAX_ATTEMPTS times: flushes that overlap and count from rows they read  *)
(* long ago fall behind the failures, never ahead of them.                 *)
THEOREM LossCorrect == Spec => []NotGivenUpEarly
<1>1. QueueInv => NotGivenUpEarly
  BY DEF QueueInv, EntryInv, NotGivenUpEarly
<1> QED
  BY <1>1, QueueCorrect, PTL

(* The API applies no entry before an earlier one was applied or given up: *)
(* the rows before the one a flush has in hand were out of the way when it *)
(* read the table, or it dealt with them.  Given up means once: a flush    *)
(* that read such a row before may set it back to PENDING, and the later   *)
(* entries go on without it.                                               *)
THEOREM OvertakingCorrect == Spec => NoOvertaking
<1> DEFINE Ordered ==
      \A i \in DOMAIN outbox :
        history'[i].applied > history[i].applied =>
          \A j \in 1 .. i - 1 : history[j].applied > 0 \/ history[j].gaveUp
<1>1. ASSUME QueueInv, [Next]_appVars
      PROVE  [Ordered]_appVars
  <2> SUFFICES ASSUME NEW i \in DOMAIN outbox, history'[i].applied > history[i].applied,
                      NEW j \in 1 .. i - 1
               PROVE  Dealt(j)
    BY DEF Dealt
  <2>0. /\ DriverAppTypeOK /\ i \in 1 .. Len(outbox) /\ j \in 1 .. Len(outbox) /\ j < i
        /\ history[i].applied \in Nat /\ DOMAIN outbox = 1 .. Len(outbox)
    BY <1>1, Tables, RowNow DEF QueueInv
  <2>1. ASSUME NEW f \in Flushes, WriteOrder(f)
        PROVE  Dealt(j)
    <3>1. i = wire[f].id /\ wire[f] # NoRequest
      BY <2>0, <2>1, Written
    <3> QED
      BY <1>1, <2>0, <3>1 DEF QueueInv, WireInv
  <2>2. CASE history'[i] = history[i]
    BY <2>0, <2>2
  <2>3. ASSUME NEW f \in Flushes, MarkFailed(f)
        PROVE  history'[i].applied = history[i].applied
    <3>1. i = Row(f) => i \in DOMAIN flush[f].left /\ flush[f].pc # "idle"
      BY <2>0, <2>3, InHand DEF MarkFailed
    <3> QED
      BY <2>0, <2>3, <3>1, GivenBack, FailedRow
  <2>4. CASE Press \/ Ping
    <3>1. PICK what \in What : Enqueue(what)
      BY <2>4 DEF Press, Ping, What
    <3>2. history'[i] = history[i]
      BY <2>0, <3>1, Enqueued
    <3> QED
      BY <2>2, <3>2
  <2>5. CASE UNCHANGED appVars \/ Kill \/ \E s \in StaffMoves : StaffMove(s)
    BY <2>2, <2>5 DEF appVars, Kill, StaffMove
  <2>6. ASSUME NEW f \in Flushes,
               StartFlush(f) \/ Send(f) \/ ConnectionFails(f) \/ MarkSent(f)
                 \/ ReadOrder(f) \/ Refuse(f)
        PROVE  Dealt(j)
    BY <2>2, <2>6 DEF StartFlush, Send, ConnectionFails, MarkSent, ReadOrder, Refuse
  <2> QED
    BY <1>1, <2>0, <2>1, <2>3, <2>4, <2>5, <2>6 DEF Next, Run, Handle
<1>2. Spec => [][Ordered]_appVars
  BY <1>1, QueueCorrect, PTL DEF Spec
<1> QED
  BY <1>2 DEF NoOvertaking
================================================================================
