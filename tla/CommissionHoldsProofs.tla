------------------------- MODULE CommissionHoldsProofs -------------------------
(***************************************************************************)
(* Theorems about CommissionHolds, for any number of records, phases,      *)
(* invoices, placements and concurrent requests, and about requests that   *)
(* follow each other (MCCommissionHolds).                                  *)
(*                                                                         *)
(* GateBacked is not inductive: a calculation that has read "collected"    *)
(* and a release that has read its records act on what they know.  Inv     *)
(* says what each request knows by its pc, and that it stays true because  *)
(* collected_at is never cleared, even when the status of the invoice      *)
(* moves on.  SerialInv is the other half: what the one request that is    *)
(* being served will still release.                                        *)
(***************************************************************************)
EXTENDS MCCommissionHolds, TLAPS

PayersOf(p, ph) == IF ph = None THEN {i \in Invoices : BilledTo[i] = p}
                                ELSE {InvoiceOf[ph]} \ {None}

(* A row that record r may have. *)
RowOK(row, r) ==
  /\ row.hold = "collection_gate" => PhaseOf[r] = None
  /\ row.status = "Absent" \/ row.status = "ClawbackInitiated"
     \/ (row.status = "Held" /\ row.hold \in {"collection_gate",
                                              "held_pending_phase_invoice"})
     \/ PayersOf(PlacementOf[r], PhaseOf[r]) \cap collectedAt # {}

Table(T) == T \in [Records -> RecordRow] /\ \A r \in Records : RowOK(T[r], r)

Paying == {"releaseGate", "selectPhases", "releasePhases", "payPhase", "journal",
           "releaseImport"}

Placed == {"nextPhase", "resolve", "insert", "expire", "trigger"}

(* What a request knows. *)
Knows(m) ==
  /\ m.pc = "updateInvoice" => m.inv \in Invoices /\ m.to \in Targets
  /\ m.pc \in Paying => m.inv \in Invoices \cap collectedAt
  /\ m.pc \in {"releasePhases", "payPhase", "journal"} =>
       \A ph \in m.phases : InvoiceOf[ph] = m.inv
  /\ m.pc = "payPhase" =>
       \A r \in m.seen : PhaseOf[r] # None /\ InvoiceOf[PhaseOf[r]] = m.inv
  /\ m.pc \in Placed => m.place \in Placements
  /\ m.pc \in {"resolve", "insert"} /\ m.collected = "yes" =>
       PayersOf(m.place, m.phase) \cap collectedAt # {}
  /\ m.pc = "insert" => m.collected # "unknown"

PaidCollected == \A i \in Invoices : invoice[i] = "Paid" => i \in collectedAt

Inv == /\ TypeOK
       /\ Table(recs)
       /\ PaidCollected
       /\ \A q \in Requests : Knows(req[q])

-----------------------------------------------------------------------------
(* The statements on commission_records. *)

LEMMA UpdateTable ==
  ASSUME Table(recs), NEW S \in SUBSET Records, NEW status \in Statuses,
         NEW hold \in HoldReasons,
         \A r \in S : RowOK([recs[r] EXCEPT !.status = status, !.hold = hold], r)
  PROVE  Table(SetStatus(S, status, hold))
<1>1. \A r \in Records :
        [recs[r] EXCEPT !.status = status, !.hold = hold] \in RecordRow
  BY DEF Table, RecordRow
<1>2. QED
  BY <1>1 DEF Table, SetStatus

LEMMA GateReleased ==
  ASSUME Table(recs), NEW i \in Invoices \cap collectedAt
  PROVE  Table(releaseCollectionGate(BilledTo[i]))
<1> DEFINE S == HeldFor(RecordsOf(BilledTo[i]), "collection_gate")
<1>1. ASSUME NEW r \in S
      PROVE  RowOK([recs[r] EXCEPT !.status = "Payable", !.hold = "none"], r)
  <2>1. r \in Records /\ PlacementOf[r] = BilledTo[i] /\ recs[r].hold = "collection_gate"
    BY DEF HeldFor, RecordsOf
  <2>2. PhaseOf[r] = None /\ recs[r] \in RecordRow
    BY <2>1 DEF Table, RowOK
  <2>3. i \in PayersOf(PlacementOf[r], PhaseOf[r]) \cap collectedAt
    BY <2>1, <2>2 DEF PayersOf
  <2>4. QED
    BY <2>2, <2>3 DEF RowOK, RecordRow
<1>2. S \in SUBSET Records
  BY DEF HeldFor, RecordsOf
<1>3. QED
  BY <1>1, <1>2, UpdateTable DEF releaseCollectionGate, Statuses, HoldReasons

LEMMA PhasePaid ==
  ASSUME Table(recs), NEW S \in SUBSET Records, NEW i \in Invoices \cap collectedAt,
         \A r \in S : PhaseOf[r] # None /\ InvoiceOf[PhaseOf[r]] = i
  PROVE  Table(PayListed(S))
<1>1. ASSUME NEW r \in S
      PROVE  RowOK([recs[r] EXCEPT !.status = "Payable", !.hold = "none"], r)
  <2>1. i \in PayersOf(PlacementOf[r], PhaseOf[r]) \cap collectedAt
    BY NoneAssumption DEF PayersOf
  <2>2. QED
    BY <2>1 DEF RowOK, Table, RecordRow
<1>2. QED
  BY <1>1, UpdateTable DEF PayListed, Statuses, HoldReasons

LEMMA WindowReleased ==
  ASSUME Table(recs), NEW p \in Placements
  PROVE  Table(releaseHeldCommissionRecordsForPlacement(p))
<1> DEFINE S == HeldFor(RecordsOf(p), "guarantee_hold")
<1>1. ASSUME NEW r \in S
      PROVE  RowOK([recs[r] EXCEPT !.status = "Payable", !.hold = "none"], r)
  BY DEF HeldFor, RecordsOf, RowOK, Table, RecordRow
<1>2. S \in SUBSET Records
  BY DEF HeldFor, RecordsOf
<1>3. QED
  BY <1>1, <1>2, UpdateTable
     DEF releaseHeldCommissionRecordsForPlacement, Statuses, HoldReasons

LEMMA ClawedBack ==
  ASSUME Table(recs), NEW p \in Placements
  PROVE  Table(holdCommissionRecordsForClawback(p))
<1> DEFINE S == {r \in RecordsOf(p) : recs[r].status \in ClawbackReach}
<1>1. ASSUME NEW r \in S
      PROVE  RowOK([recs[r] EXCEPT !.status = "ClawbackInitiated",
                                   !.hold = "clawback_hold"], r)
  BY DEF RecordsOf, RowOK, Table, RecordRow
<1>2. S \in SUBSET Records
  BY DEF RecordsOf
<1>3. QED
  BY <1>1, <1>2, UpdateTable
     DEF holdCommissionRecordsForClawback, Statuses, HoldReasons

LEMMA ApprovedOne ==
  ASSUME Table(recs), NEW r \in Records
  PROVE  Table(ApprovePending({r}))
<1>1. recs \in [Records -> RecordRow]
  BY DEF Table
<1>2. ApprovePending({r}) \in [Records -> RecordRow]
  BY <1>1 DEF ApprovePending, Advance, RecordRow, Statuses, HoldReasons
<1>3. ASSUME NEW s \in Records PROVE RowOK(ApprovePending({r})[s], s)
  BY <1>1 DEF ApprovePending, Advance, Table, RowOK, RecordRow
<1>4. QED
  BY <1>2, <1>3 DEF Table

LEMMA Inserted ==
  ASSUME Table(recs), NEW r \in Records, NEW status \in {"Accrued", "Held"},
         NEW hold \in HoldReasons,
         RowOK([status |-> status, hold |-> hold, net |-> 0], r)
  PROVE  Table(createCommissionRecord(r, status, hold))
<1>1. [status |-> status, hold |-> hold, net |-> 0] \in RecordRow
  BY DEF RecordRow, Statuses
<1>2. QED
  BY <1>1 DEF Table, createCommissionRecord

-----------------------------------------------------------------------------
(* collected_at is never cleared, so what is known stays known. *)

LEMMA OthersKnow ==
  ASSUME collectedAt \subseteq collectedAt', \A p \in Requests : Knows(req[p]),
         NEW q \in Requests, \A p \in Requests : p # q => req'[p] = req[p],
         Knows(req[q])'
  PROVE  \A p \in Requests : Knows(req[p])'
<1>1. ASSUME NEW p \in Requests, req'[p] = req[p] PROVE Knows(req[p])'
  BY <1>1 DEF Knows
<1>2. QED
  BY <1>1

LEMMA TableKept ==
  ASSUME collectedAt \subseteq collectedAt', Table(recs')
  PROVE  Table(recs)'
BY DEF Table, RowOK

LEMMA IdleRequest == Idle \in Request /\ Idle.phase = None /\ Idle.collected = "unknown"
BY DEF Idle, Request, Steps, Answers

(* A request that has been answered knows nothing. *)
LEMMA Answered ==
  ASSUME req \in [Requests -> Request], NEW q \in Requests, Return(q)
  PROVE  /\ Knows(req[q])' /\ req' \in [Requests -> Request]
         /\ \A p \in Requests : p # q => req'[p] = req[p]
<1>1. Idle \in Request
  BY DEF Idle, Request, Steps, Answers
<1>2. QED
  BY <1>1 DEF Return, Idle, Knows, Paying, Placed

(* A step that only moves one request on. *)
LEMMA MovesOn ==
  ASSUME Inv, UNCHANGED tables, NEW q \in Requests, NEW m \in Request,
         req' = [req EXCEPT ![q] = m], Knows(req[q])'
  PROVE  Inv'
<1>1. req \in [Requests -> Request]
  BY DEF Inv, TypeOK
<1>2. \A p \in Requests : p # q => req'[p] = req[p]
  BY <1>1
<1>3. UNCHANGED <<recs, invoice, collectedAt, period, over, placement, inWindow,
                  adjusted, journal>>
  BY DEF tables
<1>4. \A p \in Requests : Knows(req[p])'
  BY <1>2, <1>3, OthersKnow DEF Inv
<1>5. TypeOK'
  BY <1>1, <1>3 DEF Inv, TypeOK, RecordsTypeOK
<1>6. Table(recs)' /\ PaidCollected'
  BY <1>3 DEF Inv, Table, RowOK, PaidCollected
<1>7. QED
  BY <1>4, <1>5, <1>6 DEF Inv

(* A step that writes no invoice, and at most one request. *)
LEMMA WritesRecords ==
  ASSUME Inv, UNCHANGED <<invoice, collectedAt>>, Table(recs'),
         period' \in [Placements -> {"none", "Active", "ExpiredClean", "Triggered"}],
         over' \subseteq Placements, inWindow' \subseteq Records,
         placement' \in [Placements -> {"Active", "GuaranteeActive", "GuaranteeExpired"}],
         adjusted' \in [Records -> Nat], journal' \in [Records -> Nat],
         req' \in [Requests -> Request], \A p \in Requests : Knows(req[p])'
  PROVE  Inv'
<1>1. Table(recs)'
  BY TableKept
<1>2. PaidCollected'
  BY DEF Inv, PaidCollected
<1>3. TypeOK'
  BY DEF Inv, TypeOK, RecordsTypeOK, Table
<1>4. QED
  BY <1>1, <1>2, <1>3 DEF Inv

LEMMA InvInit == Init => Inv
<1>1. SUFFICES ASSUME Init PROVE Inv
  OBVIOUS
<1>2. Idle \in Request
  BY DEF Idle, Request, Steps, Answers
<1>3. TypeOK
  BY <1>1, <1>2 DEF Init, RecordsInit, TypeOK, RecordsTypeOK, RecordRow, HoldReasons
<1>4. Table(recs)
  BY <1>1 DEF Init, RecordsInit, Table, RowOK, RecordRow, HoldReasons
<1>5. PaidCollected /\ \A q \in Requests : Knows(req[q])
  BY <1>1 DEF Init, PaidCollected, Knows, Idle, Paying, Placed
<1>6. QED
  BY <1>3, <1>4, <1>5 DEF Inv

-----------------------------------------------------------------------------
(* The invoice handlers. *)

LEMMA BillStep ==
  ASSUME Inv, NEW q \in Requests, Bill(q)
  PROVE  Inv'
<1>1. /\ req \in [Requests -> Request] /\ req[q] \in Request /\ Knows(req[q])
      /\ TypeOK /\ Table(recs) /\ PaidCollected
      /\ \A p \in Requests : Knows(req[p])
  BY DEF Inv, TypeOK
<1>2. ASSUME NEW i \in Invoices, NEW s \in Targets, UpdateInvoiceRequest(q, i, s)
      PROVE  Inv'
  <2> DEFINE m == [Idle EXCEPT !.pc = "updateInvoice", !.inv = i, !.to = s]
  <2>1. m \in Request /\ m.pc = "updateInvoice" /\ m.inv = i /\ m.to = s
    BY IdleRequest DEF Request, Steps
  <2>2. req' = [req EXCEPT ![q] = m]
    BY <1>2 DEF UpdateInvoiceRequest, Receive
  <2>3. Knows(req[q])'
    <3> HIDE DEF m
    <3> QED
      BY <1>1, <2>1, <2>2 DEF Knows, Paying, Placed
  <2>4. QED
    BY <1>2, <2>1, <2>2, <2>3, MovesOn DEF UpdateInvoiceRequest
<1>3. ASSUME NEW i \in Invoices, NEW s \in Targets, SetInvoice(i, s),
             UNCHANGED <<recs, period, over, placement, inWindow, adjusted, journal>>,
             req' \in [Requests -> Request],
             \A p \in Requests : p # q => req'[p] = req[p], Knows(req[q])'
      PROVE  Inv'
  <2>1. collectedAt \subseteq collectedAt' /\ collectedAt' \subseteq Invoices
    BY <1>1, <1>3 DEF SetInvoice, TypeOK
  <2>2. invoice' \in [Invoices -> INVOICE_STATES \cup {"absent"}]
    BY <1>1, <1>3, InvoicesAssumption DEF SetInvoice, TypeOK
  <2>3. PaidCollected'
    BY <1>1, <1>3 DEF SetInvoice, TypeOK, PaidCollected
  <2>4. TypeOK'
    BY <1>1, <1>3, <2>1, <2>2 DEF TypeOK, RecordsTypeOK
  <2>5. Table(recs')
    BY <1>1, <1>3
  <2>6. QED
    BY <1>1, <1>3, <2>1, <2>3, <2>4, <2>5, TableKept, OthersKnow DEF Inv
<1>4. CASE UpdateInvoice(q)
  <2>1. req[q].inv \in Invoices /\ req[q].to \in Targets
    BY <1>1, <1>4 DEF UpdateInvoice, At, Knows
  <2>2. CASE req[q].to = "Paid"
    <3>1. req' = [req EXCEPT ![q].pc = "releaseGate"]
      BY <1>4, <2>2 DEF UpdateInvoice, Goto
    <3>2. req' \in [Requests -> Request]
      BY <1>1, <3>1 DEF Request, Steps
    <3>3. req[q].inv \in collectedAt'
      BY <1>4, <2>2 DEF UpdateInvoice, SetInvoice
    <3>4. Knows(req[q])'
      BY <1>1, <2>1, <3>1, <3>3 DEF Request, Knows, Paying, Placed
    <3>5. QED
      BY <1>1, <1>3, <1>4, <2>1, <3>1, <3>2, <3>4 DEF UpdateInvoice
  <2>3. CASE req[q].to # "Paid"
    BY <1>1, <1>3, <1>4, <2>1, <2>3, Answered DEF UpdateInvoice
  <2>4. QED
    BY <2>2, <2>3
<1>5. ASSUME NEW i \in Invoices, NEW s \in Targets, ImportInvoice(q, i, s)
      PROVE  Inv'
  <2>1. CASE s = "Paid"
    <3> DEFINE m == [pc |-> "releaseImport", inv |-> i, to |-> None, place |-> None,
                     phase |-> None, phases |-> {}, seen |-> {},
                     collected |-> "unknown", inside |-> "unknown"]
    <3>1. m \in Request
      BY DEF Request, Steps, Answers
    <3>2. req' = [req EXCEPT ![q] = m]
      BY <1>5, <2>1 DEF ImportInvoice, Receive, Idle
    <3>3. i \in collectedAt'
      BY <1>5, <2>1 DEF ImportInvoice, UpsertInvoiceByNumber
    <3>4. Knows(req[q])'
      BY <1>1, <3>2, <3>3 DEF Knows, Paying, Placed
    <3>5. QED
      BY <1>1, <1>3, <1>5, <3>1, <3>2, <3>4
         DEF ImportInvoice, SetInvoice, UpsertInvoiceByNumber
  <2>2. CASE s # "Paid"
    <3>1. UNCHANGED req /\ req[q].pc = "idle"
      BY <1>5, <2>2 DEF ImportInvoice, At
    <3>2. Knows(req[q])'
      BY <3>1 DEF Knows, Paying, Placed
    <3>3. QED
      BY <1>1, <1>3, <1>5, <3>1, <3>2
         DEF ImportInvoice, SetInvoice, UpsertInvoiceByNumber
  <2>3. QED
    BY <2>1, <2>2
<1>6. CASE ReleaseGate(q)
  <2>1. req[q].inv \in Invoices \cap collectedAt
    BY <1>1, <1>6 DEF ReleaseGate, At, Knows, Paying
  <2>2. Table(recs')
    BY <1>1, <1>6, <2>1, GateReleased DEF ReleaseGate
  <2>3. req' = [req EXCEPT ![q].pc = "selectPhases"]
    BY <1>6 DEF ReleaseGate, Goto
  <2>4. req' \in [Requests -> Request]
    BY <1>1, <2>3 DEF Request, Steps
  <2>5. UNCHANGED <<invoice, collectedAt, period, over, placement, inWindow, adjusted,
                    journal>>
    BY <1>6 DEF ReleaseGate
  <2>6. Knows(req[q])'
    BY <1>1, <2>1, <2>3, <2>5 DEF Request, Knows, Paying, Placed
  <2>7. \A p \in Requests : Knows(req[p])'
    BY <1>1, <2>3, <2>5, <2>6, OthersKnow
  <2>8. QED
    BY <1>1, <2>2, <2>4, <2>5, <2>7, WritesRecords DEF TypeOK
<1>7. CASE SelectPhases(q)
  <2> DEFINE P == {ph \in Phases : InvoiceOf[ph] = req[q].inv}
             m == [req[q] EXCEPT !.pc = "releasePhases", !.phases = P]
  <2>1. m \in Request
    BY <1>1 DEF Request, Steps
  <2>2. req' = [req EXCEPT ![q] = m]
    BY <1>1, <1>7 DEF SelectPhases
  <2>3. req[q].inv \in Invoices \cap collectedAt /\ collectedAt' = collectedAt
    BY <1>1, <1>7 DEF SelectPhases, At, Knows, Paying, tables
  <2>4. Knows(req[q])'
    BY <1>1, <2>2, <2>3 DEF Request, Knows, Paying, Placed
  <2>5. QED
    BY <1>7, <2>1, <2>2, <2>4, MovesOn DEF SelectPhases
<1>8. CASE SelectHeld(q)
  <2>1. req[q].inv \in Invoices \cap collectedAt /\ collectedAt' = collectedAt
        /\ \A ph \in req[q].phases : InvoiceOf[ph] = req[q].inv
    BY <1>1, <1>8 DEF SelectHeld, At, Knows, Paying, tables
  <2>2. ASSUME NEW ph \in req[q].phases,
               req' = [req EXCEPT ![q].phases = @ \ {ph}, ![q].seen = PhaseHeld(ph),
                                  ![q].pc = IF PhaseHeld(ph) = {} THEN @ ELSE "payPhase"]
        PROVE  Inv'
    <3> DEFINE m == [req[q] EXCEPT !.phases = @ \ {ph}, !.seen = PhaseHeld(ph),
                                   !.pc = IF PhaseHeld(ph) = {} THEN @ ELSE "payPhase"]
    <3>1. PhaseHeld(ph) \subseteq Records
          /\ \A r \in PhaseHeld(ph) : PhaseOf[r] = ph
      BY DEF PhaseHeld, HeldFor
    <3>2. ph \in Phases /\ InvoiceOf[ph] = req[q].inv /\ req[q].pc = "releasePhases"
      BY <1>1, <1>8, <2>1 DEF Request, SelectHeld, At
    <3>3. m \in Request
      BY <1>1, <3>1 DEF Request, Steps
    <3>4. req' = [req EXCEPT ![q] = m]
      BY <1>1, <2>2
    <3>5. Knows(req[q])'
      BY <1>1, <2>1, <3>1, <3>2, <3>4, NoneAssumption DEF Request, Knows, Paying, Placed
    <3>6. QED
      BY <1>8, <3>3, <3>4, <3>5, MovesOn DEF SelectHeld
  <2>3. CASE Return(q)
    BY <1>1, <1>8, <2>3, Answered, MovesOn DEF SelectHeld, Return, Idle, Request, Steps, Answers
  <2>4. QED
    BY <1>8, <2>2, <2>3 DEF SelectHeld
<1>9. CASE PayPhase(q)
  <2>1. /\ req[q].inv \in Invoices \cap collectedAt /\ req[q].seen \in SUBSET Records
        /\ \A ph \in req[q].phases : InvoiceOf[ph] = req[q].inv
        /\ \A r \in req[q].seen : PhaseOf[r] # None /\ InvoiceOf[PhaseOf[r]] = req[q].inv
    BY <1>1, <1>9 DEF PayPhase, At, Knows, Paying, Request
  <2>2. Table(recs')
    BY <1>1, <1>9, <2>1, PhasePaid DEF PayPhase
  <2>3. req' = [req EXCEPT ![q].pc = "journal"]
    BY <1>9 DEF PayPhase, Goto
  <2>4. req' \in [Requests -> Request]
    BY <1>1, <2>3 DEF Request, Steps
  <2>5. UNCHANGED <<invoice, collectedAt, period, over, placement, inWindow, adjusted,
                    journal>>
    BY <1>9 DEF PayPhase
  <2>6. Knows(req[q])'
    BY <1>1, <2>1, <2>3, <2>5 DEF Request, Knows, Paying, Placed
  <2>7. \A p \in Requests : Knows(req[p])'
    BY <1>1, <2>3, <2>5, <2>6, OthersKnow
  <2>8. QED
    BY <1>1, <2>2, <2>4, <2>5, <2>7, WritesRecords DEF TypeOK
<1>10. CASE WriteJournal(q)
  <2>1. PICK r \in req[q].seen :
          /\ journal' = [journal EXCEPT ![r] = @ + 1]
          /\ req' = [req EXCEPT ![q].seen = @ \ {r},
                                ![q].pc = IF req[q].seen = {r} THEN "releasePhases" ELSE @]
    BY <1>10 DEF WriteJournal
  <2>2. /\ req[q].inv \in Invoices \cap collectedAt /\ req[q].pc = "journal"
        /\ \A ph \in req[q].phases : InvoiceOf[ph] = req[q].inv
    BY <1>1, <1>10 DEF WriteJournal, At, Knows, Paying, Request
  <2>3. req' \in [Requests -> Request]
    BY <1>1, <2>1 DEF Request, Steps
  <2>4. UNCHANGED <<recs, invoice, collectedAt, period, over, placement, inWindow, adjusted>>
    BY <1>10 DEF WriteJournal
  <2>5. Knows(req[q])'
    <3>1. /\ req'[q].inv = req[q].inv /\ req'[q].phases = req[q].phases
          /\ req'[q].pc \in {"journal", "releasePhases"}
      BY <1>1, <2>1, <2>2 DEF Request
    <3>2. QED
      BY <2>2, <2>4, <3>1 DEF Knows, Paying, Placed
  <2>6. \A p \in Requests : Knows(req[p])'
    <3>1. \A p \in Requests : p # q => req'[p] = req[p]
      BY <1>1, <2>1
    <3>2. QED
      BY <1>1, <2>4, <2>5, <3>1, OthersKnow
  <2>7. journal' \in [Records -> Nat]
    <3>1. journal \in [Records -> Nat] /\ r \in Records
      BY <1>1, <2>1 DEF TypeOK, Request
    <3>2. QED
      BY <2>1, <3>1
  <2>8. QED
    BY <1>1, <2>3, <2>4, <2>6, <2>7, WritesRecords DEF TypeOK
<1>11. CASE ReleaseImport(q)
  <2>1. req[q].inv \in Invoices \cap collectedAt
    BY <1>1, <1>11 DEF ReleaseImport, At, Knows, Paying
  <2>2. Table(recs')
    BY <1>1, <1>11, <2>1, GateReleased DEF ReleaseImport
  <2>3. UNCHANGED <<invoice, collectedAt, period, over, placement, inWindow, adjusted,
                    journal>>
    BY <1>11 DEF ReleaseImport
  <2>4. req' \in [Requests -> Request] /\ \A p \in Requests : Knows(req[p])'
    BY <1>1, <1>11, <2>3, Answered, OthersKnow DEF ReleaseImport
  <2>5. QED
    BY <1>1, <2>2, <2>3, <2>4, WritesRecords DEF TypeOK
<1>12. QED
  BY <1>2, <1>4, <1>5, <1>6, <1>7, <1>8, <1>9, <1>10, <1>11 DEF Bill

-----------------------------------------------------------------------------
(* The calculation. *)

(* What makes the answer of the gate sound: an invoice that is Paid has     *)
(* been collected.                                                          *)
LEMMA CollectedBacked ==
  ASSUME Inv, NEW p \in Placements, NEW ph \in Phases \cup {None}, IsCollected(p, ph)
  PROVE  PayersOf(p, ph) \cap collectedAt # {}
<1>1. CASE ph = None
  <2>1. PICK i \in InvoicesOf(p) : invoice[i] = "Paid"
    BY <1>1 DEF IsCollected
  <2>2. i \in Invoices /\ BilledTo[i] = p
    BY DEF InvoicesOf
  <2>3. QED
    BY <1>1, <2>1, <2>2 DEF Inv, PaidCollected, PayersOf
<1>2. CASE ph # None
  <2>1. InvoiceOf[ph] \in Invoices /\ invoice[InvoiceOf[ph]] = "Paid"
    BY <1>2, PhasesAssumption DEF IsCollected
  <2>2. QED
    BY <1>2, <2>1, NoneAssumption DEF Inv, PaidCollected, PayersOf
<1>3. QED
  BY <1>1, <1>2

LEMMA CalculateStep ==
  ASSUME Inv, NEW q \in Requests, Calculate(q)
  PROVE  Inv'
<1>1. /\ req \in [Requests -> Request] /\ req[q] \in Request /\ Knows(req[q])
      /\ TypeOK /\ Table(recs) /\ PaidCollected
      /\ \A p \in Requests : Knows(req[p])
  BY DEF Inv, TypeOK
<1>2. ASSUME NEW p \in Placements, CalculateRequest(q, p)
      PROVE  Inv'
  <2> DEFINE m == [Idle EXCEPT !.pc = "resolve", !.place = p]
  <2>1. /\ m \in Request /\ m.pc = "resolve" /\ m.place = p
        /\ m.collected = "unknown"
    BY IdleRequest DEF Request, Steps
  <2>2. req' = [req EXCEPT ![q] = m]
    BY <1>2 DEF CalculateRequest, Receive
  <2>3. Knows(req[q])'
    <3> HIDE DEF m
    <3> QED
      BY <1>1, <2>1, <2>2 DEF Knows, Paying, Placed
  <2>4. QED
    BY <1>2, <2>1, <2>2, <2>3, MovesOn DEF CalculateRequest
<1>3. ASSUME NEW p \in Placements, CalculatePhasesRequest(q, p)
      PROVE  Inv'
  <2> DEFINE m == [Idle EXCEPT !.pc = "nextPhase", !.place = p, !.phases = PhasesOf[p]]
  <2>1. /\ m \in Request /\ m.pc = "nextPhase" /\ m.place = p
    BY IdleRequest, PhasesAssumption DEF Request, Steps
  <2>2. req' = [req EXCEPT ![q] = m]
    BY <1>3 DEF CalculatePhasesRequest, Receive
  <2>3. Knows(req[q])'
    <3> HIDE DEF m
    <3> QED
      BY <1>1, <2>1, <2>2 DEF Knows, Paying, Placed
  <2>4. QED
    BY <1>3, <2>1, <2>2, <2>3, MovesOn DEF CalculatePhasesRequest
<1>4. CASE NextPhase(q)
  <2>1. req[q].place \in Placements
    BY <1>1, <1>4 DEF NextPhase, At, Knows, Placed
  <2>2. ASSUME NEW ph \in req[q].phases,
               req' = [req EXCEPT ![q].phases = @ \ {ph}, ![q].phase = ph,
                                  ![q].pc = "resolve",
                                  ![q].collected = "unknown", ![q].inside = "unknown"]
        PROVE  Inv'
    <3> DEFINE m == [req[q] EXCEPT !.phases = @ \ {ph}, !.phase = ph,
                                   !.pc = "resolve",
                                   !.collected = "unknown", !.inside = "unknown"]
    <3>1. /\ m \in Request /\ m.pc = "resolve" /\ m.place = req[q].place
          /\ m.collected = "unknown"
      BY <1>1 DEF Request, Steps, Answers
    <3>2. req' = [req EXCEPT ![q] = m]
      BY <1>1, <2>2
    <3>3. Knows(req[q])'
      <4> HIDE DEF m
      <4> QED
        BY <1>1, <2>1, <3>1, <3>2 DEF Knows, Paying, Placed
    <3>4. QED
      BY <1>4, <3>1, <3>2, <3>3, MovesOn DEF NextPhase
  <2>3. CASE Return(q)
    BY <1>1, <1>4, <2>3, IdleRequest, Answered, MovesOn DEF NextPhase, Return
  <2>4. QED
    BY <1>4, <2>2, <2>3 DEF NextPhase
<1>5. CASE ResolveInvoices(q)
  <2> DEFINE a == Answer(IsCollected(req[q].place, req[q].phase))
             m == [req[q] EXCEPT !.collected = a]
  <2>1. /\ req[q].pc = "resolve" /\ req[q].place \in Placements
        /\ req[q].phase \in Phases \cup {None}
    BY <1>1, <1>5 DEF ResolveInvoices, At, Knows, Placed, Request
  <2>2. a \in Answers /\ (a = "yes" => IsCollected(req[q].place, req[q].phase))
    BY DEF Answer, Answers
  <2>3. a = "yes" => PayersOf(req[q].place, req[q].phase) \cap collectedAt # {}
    BY <2>1, <2>2, CollectedBacked
  <2>4. req' = [req EXCEPT ![q] = m]
    BY <1>1, <1>5 DEF ResolveInvoices
  <2> HIDE DEF a
  <2>5. /\ m \in Request /\ m.pc = "resolve" /\ m.collected = a
        /\ m.place = req[q].place /\ m.phase = req[q].phase
    BY <1>1, <2>1, <2>2 DEF Request
  <2>6. Knows(req[q])'
    <3> HIDE DEF m
    <3>1. collectedAt' = collectedAt /\ req'[q] = m
      BY <1>1, <1>5, <2>4 DEF ResolveInvoices, tables
    <3>2. QED
      BY <2>1, <2>3, <2>5, <3>1 DEF Knows, Paying, Placed
  <2>7. QED
    BY <1>5, <2>4, <2>5, <2>6, MovesOn DEF ResolveInvoices
<1>6. CASE ResolveWindow(q)
  <2> DEFINE a == Answer(WindowOpen(req[q].place))
             m == [req[q] EXCEPT !.inside = a]
  <2>1. a \in Answers
    BY DEF Answer, Answers
  <2>2. req' = [req EXCEPT ![q] = m]
    BY <1>1, <1>6 DEF ResolveWindow
  <2> HIDE DEF a
  <2>3. /\ m \in Request /\ m.pc = "resolve" /\ m.collected = req[q].collected
        /\ m.place = req[q].place /\ m.phase = req[q].phase
    BY <1>1, <1>6, <2>1 DEF Request, ResolveWindow, At
  <2>4. Knows(req[q])'
    <3> HIDE DEF m
    <3>1. collectedAt' = collectedAt /\ req'[q] = m /\ req[q].pc = "resolve"
      BY <1>1, <1>6, <2>2 DEF ResolveWindow, tables, At
    <3>2. QED
      BY <1>1, <2>3, <3>1 DEF Knows, Paying, Placed
  <2>5. QED
    BY <1>6, <2>2, <2>3, <2>4, MovesOn DEF ResolveWindow
<1>7. CASE Resolved(q)
  <2> DEFINE m == [req[q] EXCEPT !.pc = "insert"]
  <2>1. req' = [req EXCEPT ![q] = m]
    BY <1>1, <1>7 DEF Resolved, Goto
  <2>2. /\ m \in Request /\ m.pc = "insert" /\ m.collected = req[q].collected
        /\ m.place = req[q].place /\ m.phase = req[q].phase
    BY <1>1 DEF Request, Steps
  <2>3. Knows(req[q])'
    <3> HIDE DEF m
    <3>1. /\ collectedAt' = collectedAt /\ req'[q] = m
          /\ req[q].pc = "resolve" /\ req[q].collected # "unknown"
      BY <1>1, <1>7, <2>1 DEF Resolved, tables, At
    <3>2. QED
      BY <1>1, <2>2, <3>1 DEF Knows, Paying, Placed
  <2>4. QED
    BY <1>7, <2>1, <2>2, <2>3, MovesOn DEF Resolved
<1>8. ASSUME NEW r \in Records, InsertRecord(q, r)
      PROVE  Inv'
  <2> DEFINE status == IF HoldReason(q) = "none" THEN "Accrued" ELSE "Held"
  <2>1. /\ PlacementOf[r] = req[q].place /\ PhaseOf[r] = req[q].phase
        /\ recs' = createCommissionRecord(r, status, HoldReason(q))
        /\ UNCHANGED <<invoice, collectedAt, period, over, placement, adjusted,
                       journal, req>>
        /\ inWindow' \subseteq Records /\ req[q].pc = "insert"
    BY <1>1, <1>8 DEF InsertRecord, At, TypeOK
  <2>2. /\ req[q].collected \in {"yes", "no"}
        /\ req[q].collected = "yes" =>
             PayersOf(PlacementOf[r], PhaseOf[r]) \cap collectedAt # {}
    BY <1>1, <2>1 DEF Knows, Request, Answers
  <2>3. HoldReason(q) \in HoldReasons /\ status \in {"Accrued", "Held"}
    BY DEF HoldReason, HoldReasons
  <2>4. RowOK([status |-> status, hold |-> HoldReason(q), net |-> 0], r)
    BY <2>1, <2>2 DEF HoldReason, RowOK
  <2> HIDE DEF status
  <2>5. Table(recs')
    BY <1>1, <2>1, <2>3, <2>4, Inserted
  <2>6. \A p \in Requests : Knows(req[p])'
    BY <1>1, <2>1 DEF Knows
  <2>7. QED
    BY <1>1, <2>1, <2>5, <2>6, WritesRecords DEF TypeOK
<1>9. CASE EndContributors(q)
  <2>1. CASE Return(q)
    BY <1>1, <1>9, <2>1, IdleRequest, Answered, MovesOn DEF EndContributors, Return
  <2>2. CASE Goto(q, "nextPhase")
    <3> DEFINE m == [req[q] EXCEPT !.pc = "nextPhase"]
    <3>1. req' = [req EXCEPT ![q] = m]
      BY <1>1, <2>2 DEF Goto
    <3>2. m \in Request /\ m.pc = "nextPhase" /\ m.place = req[q].place
      BY <1>1 DEF Request, Steps
    <3>3. req[q].place \in Placements
      BY <1>1, <1>9 DEF EndContributors, At, Knows, Placed
    <3>4. Knows(req[q])'
      <4> HIDE DEF m
      <4> QED
        BY <1>1, <3>1, <3>2, <3>3 DEF Knows, Paying, Placed
    <3>5. QED
      BY <1>9, <3>1, <3>2, <3>4, MovesOn DEF EndContributors
  <2>3. QED
    BY <1>9, <2>1, <2>2 DEF EndContributors
<1>10. QED
  BY <1>2, <1>3, <1>4, <1>5, <1>6, <1>7, <1>8, <1>9 DEF Calculate

-----------------------------------------------------------------------------
(* The guarantee window, and the rest of the system. *)

LEMMA GuaranteeStep ==
  ASSUME Inv, NEW q \in Requests, Guarantee(q)
  PROVE  Inv'
<1>1. /\ req \in [Requests -> Request] /\ req[q] \in Request /\ Knows(req[q])
      /\ TypeOK /\ Table(recs) /\ PaidCollected
      /\ \A p \in Requests : Knows(req[p])
  BY DEF Inv, TypeOK
<1>2. ASSUME NEW p \in Placements, NEW pc \in {"expire", "trigger"},
             Receive(q, [Idle EXCEPT !.pc = pc, !.place = p]), UNCHANGED tables
      PROVE  Inv'
  <2> DEFINE m == [Idle EXCEPT !.pc = pc, !.place = p]
  <2>1. m \in Request /\ m.pc = pc /\ m.place = p
    BY IdleRequest DEF Request, Steps
  <2>2. req' = [req EXCEPT ![q] = m]
    BY <1>2 DEF Receive
  <2>3. Knows(req[q])'
    <3> HIDE DEF m
    <3> QED
      BY <1>1, <2>1, <2>2 DEF Knows, Paying, Placed
  <2>4. QED
    BY <1>2, <2>1, <2>2, <2>3, MovesOn
<1>3. ASSUME NEW p \in Placements, ExpireRequest(q, p) \/ TriggerRequest(q, p)
      PROVE  Inv'
  BY <1>2, <1>3 DEF ExpireRequest, TriggerRequest
<1>4. ASSUME Return(q), UNCHANGED <<invoice, collectedAt>>
      PROVE  req' \in [Requests -> Request] /\ \A p \in Requests : Knows(req[p])'
  BY <1>1, <1>4, Answered, OthersKnow
<1>5. CASE Expire(q)
  <2> DEFINE p == req[q].place
  <2>1. p \in Placements
    BY <1>1, <1>5 DEF Expire, At, Knows, Placed
  <2>2. /\ Return(q) /\ UNCHANGED <<invoice, collectedAt, over, inWindow, adjusted, journal>>
        /\ recs' = recs \/ recs' = releaseHeldCommissionRecordsForPlacement(p)
        /\ period' = period \/ period' = [period EXCEPT ![p] = "ExpiredClean"]
        /\ placement' = placement \/ AdvancePlacement(p)
    BY <1>5 DEF Expire
  <2>3. Table(recs')
    BY <1>1, <2>1, <2>2, WindowReleased
  <2>4. placement' \in [Placements -> {"Active", "GuaranteeActive", "GuaranteeExpired"}]
    BY <1>1, <2>2 DEF TypeOK, AdvancePlacement
  <2>5. period' \in [Placements -> {"none", "Active", "ExpiredClean", "Triggered"}]
    BY <1>1, <2>2 DEF TypeOK
  <2>6. QED
    BY <1>1, <1>4, <2>2, <2>3, <2>4, <2>5, WritesRecords DEF TypeOK
<1>6. CASE Trigger(q)
  <2> DEFINE p == req[q].place
  <2>1. p \in Placements
    BY <1>1, <1>6 DEF Trigger, At, Knows, Placed
  <2>2. /\ Return(q) /\ UNCHANGED <<invoice, collectedAt, over, placement, inWindow, journal>>
        /\ recs' = recs \/ recs' = holdCommissionRecordsForClawback(p)
        /\ period' = period \/ period' = [period EXCEPT ![p] = "Triggered"]
        /\ adjusted' = adjusted \/ PostAdjustments(p)
    BY <1>6 DEF Trigger
  <2>3. Table(recs')
    BY <1>1, <2>1, <2>2, ClawedBack
  <2>4. adjusted' \in [Records -> Nat]
    BY <1>1, <2>2 DEF TypeOK, PostAdjustments
  <2>5. period' \in [Placements -> {"none", "Active", "ExpiredClean", "Triggered"}]
    BY <1>1, <2>2 DEF TypeOK
  <2>6. QED
    BY <1>1, <1>4, <2>2, <2>3, <2>4, <2>5, WritesRecords DEF TypeOK
<1>7. QED
  BY <1>3, <1>5, <1>6 DEF Guarantee

LEMMA SurroundingsStep ==
  ASSUME Inv, Surroundings
  PROVE  Inv'
<1>1. /\ TypeOK /\ Table(recs) /\ PaidCollected /\ \A p \in Requests : Knows(req[p])
  BY DEF Inv
<1>2. ASSUME NEW i \in Invoices, CreateInvoice(i)
      PROVE  Inv'
  <2>1. invoice' = [invoice EXCEPT ![i] = "Issued"]
        /\ UNCHANGED <<recs, collectedAt, period, over, placement, inWindow, adjusted,
                       journal, req>>
    BY <1>2 DEF CreateInvoice
  <2>2. TypeOK'
    BY <1>1, <2>1 DEF TypeOK, RecordsTypeOK, INVOICE_STATES
  <2>3. PaidCollected'
    BY <1>1, <2>1 DEF PaidCollected, TypeOK
  <2>4. Table(recs)' /\ \A p \in Requests : Knows(req[p])'
    BY <1>1, <2>1 DEF Table, RowOK, Knows
  <2>5. QED
    BY <2>2, <2>3, <2>4 DEF Inv
<1>3. ASSUME UNCHANGED <<recs, invoice, collectedAt, inWindow, adjusted, journal, req>>,
             period' \in [Placements -> {"none", "Active", "ExpiredClean", "Triggered"}],
             over' \subseteq Placements,
             placement' \in [Placements -> {"Active", "GuaranteeActive", "GuaranteeExpired"}]
      PROVE  Inv'
  <2>1. Table(recs') /\ \A p \in Requests : Knows(req[p])'
    BY <1>1, <1>3 DEF Knows
  <2>2. QED
    BY <1>1, <1>3, <2>1, WritesRecords DEF TypeOK
<1>4. ASSUME NEW p \in Placements, PeriodBegins(p) \/ PeriodEnds(p) \/ PatchPlacement(p)
      PROVE  Inv'
  <2>1. CASE PeriodBegins(p)
    BY <1>1, <1>3, <2>1 DEF TypeOK, PeriodBegins
  <2>2. CASE PeriodEnds(p)
    BY <1>1, <1>3, <2>2 DEF TypeOK, PeriodEnds
  <2>3. CASE PatchPlacement(p)
    BY <1>1, <1>3, <2>3 DEF TypeOK, PatchPlacement
  <2>4. QED
    BY <1>4, <2>1, <2>2, <2>3
<1>5. ASSUME NEW r \in Records, ApproveInRun(r)
      PROVE  Inv'
  <2>1. Table(recs') /\ UNCHANGED <<invoice, collectedAt, period, over, placement,
                                    inWindow, adjusted, journal, req>>
    BY <1>1, <1>5, ApprovedOne DEF ApproveInRun
  <2>2. \A p \in Requests : Knows(req[p])'
    BY <1>1, <2>1 DEF Knows
  <2>3. QED
    BY <1>1, <2>1, <2>2, WritesRecords DEF TypeOK
<1>6. QED
  BY <1>2, <1>4, <1>5 DEF Surroundings

LEMMA InvNext == Inv /\ [Next]_vars => Inv'
<1>1. SUFFICES ASSUME Inv, [Next]_vars PROVE Inv'
  OBVIOUS
<1>2. ASSUME NEW q \in Requests, Fail(q) PROVE Inv'
  <2>1. req \in [Requests -> Request]
    BY <1>1 DEF Inv, TypeOK
  <2>2. QED
    BY <1>1, <1>2, <2>1, IdleRequest, Answered, MovesOn DEF Fail, Return
<1>3. CASE UNCHANGED vars
  <2>1. Table(recs') /\ \A p \in Requests : Knows(req[p])'
    BY <1>1, <1>3 DEF Inv, vars, Knows
  <2>2. QED
    BY <1>1, <1>3, <2>1, WritesRecords DEF Inv, TypeOK, vars
<1>4. QED
  BY <1>1, <1>2, <1>3, BillStep, CalculateStep, GuaranteeStep, SurroundingsStep DEF Next

LEMMA Invariance == Spec => []Inv
<1>1. Init => Inv
  BY InvInit
<1>2. Inv /\ [Next]_vars => Inv'
  BY InvNext
<1>3. QED
  BY <1>1, <1>2, PTL DEF Spec

-----------------------------------------------------------------------------
(* The variables hold values of their types: every handler leaves the       *)
(* tables with statuses that the enum types of the schema know.             *)
THEOREM TypeCorrect == Spec => []TypeOK
<1>1. Inv => TypeOK
  BY DEF Inv
<1>2. QED
  BY <1>1, Invariance, PTL

(* No commission passes the collection gate unless an invoice it waits for  *)
(* has been collected, however many handlers run, fail or are repeated      *)
(* (handleCalculateCommission, handleUpdateInvoice, handleImportInvoices).  *)
THEOREM GateSound == Spec => []GateBacked
<1>1. Inv => GateBacked
  <2>1. SUFFICES ASSUME Inv, NEW r \in Records, Exists(r), ~Gated(r),
                        recs[r].status # "ClawbackInitiated"
                 PROVE  Payers(r) \cap collectedAt # {}
    BY DEF GateBacked
  <2>2. RowOK(recs[r], r)
    BY <2>1 DEF Inv, Table
  <2>3. Payers(r) = PayersOf(PlacementOf[r], PhaseOf[r])
    BY DEF Payers, PayersOf
  <2>4. QED
    BY <2>1, <2>2, <2>3 DEF RowOK, Exists, Gated
<1>2. QED
  BY <1>1, Invariance, PTL

-----------------------------------------------------------------------------
(* The outcome of a guarantee period. *)

(* The actions that leave period and adjusted alone. *)
LEMMA PeriodKept ==
  ASSUME NEW q \in Requests, Bill(q) \/ Calculate(q) \/ Fail(q)
  PROVE  UNCHANGED <<period, adjusted>>
<1>1. CASE Bill(q)
  BY <1>1 DEF Bill, UpdateInvoiceRequest, ImportInvoice, UpdateInvoice, ReleaseGate,
       SelectPhases, SelectHeld, PayPhase, WriteJournal, ReleaseImport, tables
<1>2. CASE Calculate(q)
  BY <1>2 DEF Calculate, CalculateRequest, CalculatePhasesRequest, NextPhase,
       ResolveInvoices, ResolveWindow, Resolved, InsertRecord, EndContributors, tables
<1>3. CASE Fail(q)
  BY <1>3 DEF Fail, tables
<1>4. QED
  BY <1>1, <1>2, <1>3

(* What a step may do to the periods and to the adjustments. *)
PeriodStep ==
  \/ UNCHANGED <<period, adjusted>>
  \/ \E p \in Placements : /\ period[p] = "none" /\ adjusted' = adjusted
                           /\ period' = [period EXCEPT ![p] = "Active"]
  \/ \E p \in Placements : /\ period[p] = "Active" /\ adjusted' = adjusted
                           /\ period' = [period EXCEPT ![p] = "ExpiredClean"]
  \/ \E p \in Placements : /\ period[p] = "Active"
                           /\ period' = [period EXCEPT ![p] = "Triggered"]
                           /\ PostAdjustments(p) \/ UNCHANGED adjusted

LEMMA PeriodSteps == Inv /\ [Next]_vars => PeriodStep
<1>1. SUFFICES ASSUME Inv, [Next]_vars PROVE PeriodStep
  OBVIOUS
<1>2. ASSUME NEW q \in Requests, Guarantee(q) PROVE PeriodStep
  <2>1. ASSUME NEW p \in Placements, ExpireRequest(q, p) \/ TriggerRequest(q, p)
        PROVE  UNCHANGED <<period, adjusted>>
    BY <2>1 DEF ExpireRequest, TriggerRequest, tables
  <2>2. CASE Expire(q)
    <3>1. req[q].place \in Placements
      BY <1>1, <2>2 DEF Inv, Expire, At, Knows, Placed
    <3>2. QED
      BY <2>2, <3>1 DEF Expire, PeriodStep
  <2>3. CASE Trigger(q)
    <3>1. req[q].place \in Placements
      BY <1>1, <2>3 DEF Inv, Trigger, At, Knows, Placed
    <3>2. QED
      BY <2>3, <3>1 DEF Trigger, PeriodStep
  <2>4. QED
    BY <1>2, <2>1, <2>2, <2>3 DEF Guarantee, PeriodStep
<1>3. CASE Surroundings
  BY <1>3 DEF Surroundings, CreateInvoice, PeriodBegins, PeriodEnds, PatchPlacement,
       ApproveInRun, PeriodStep
<1>4. CASE UNCHANGED vars
  BY <1>4 DEF vars, PeriodStep
<1>5. QED
  BY <1>1, <1>2, <1>3, <1>4, PeriodKept DEF Next, PeriodStep

(* A statement that looks at the status leaves what was taken back alone.   *)
LEMMA UpdateLeaves ==
  ASSUME recs \in [Records -> RecordRow], NEW r \in Records,
         recs[r].status = "ClawbackInitiated",
         NEW S, r \notin S, NEW status, NEW hold
  PROVE  SetStatus(S, status, hold)[r] = recs[r]
BY DEF SetStatus

LEMMA HeldExcludes ==
  ASSUME NEW r \in Records, recs[r].status = "ClawbackInitiated", NEW S, NEW hold
  PROVE  r \notin HeldFor(S, hold)
BY DEF HeldFor

(* The one statement that names its rows by id only is about phases.        *)
LEMMA ClawbackStays ==
  ASSUME Inv, [Next]_vars, NEW r \in Records,
         PhaseOf[r] = None, recs[r].status = "ClawbackInitiated"
  PROVE  recs'[r].status = "ClawbackInitiated"
<1>1. recs \in [Records -> RecordRow]
  BY DEF Inv, Table
<1>2. ASSUME NEW p PROVE releaseCollectionGate(p)[r] = recs[r]
  BY <1>1, HeldExcludes, UpdateLeaves DEF releaseCollectionGate
<1>3. ASSUME NEW p PROVE releaseHeldCommissionRecordsForPlacement(p)[r] = recs[r]
  BY <1>1, HeldExcludes, UpdateLeaves DEF releaseHeldCommissionRecordsForPlacement
<1>4. ASSUME NEW p
      PROVE  holdCommissionRecordsForClawback(p)[r].status = "ClawbackInitiated"
  BY <1>1, UpdateLeaves DEF holdCommissionRecordsForClawback, ClawbackReach
<1>5. ASSUME NEW q \in Requests, Bill(q) PROVE recs'[r].status = "ClawbackInitiated"
  <2>1. CASE PayPhase(q)
    <3>1. r \notin req[q].seen
      BY <2>1 DEF PayPhase, At, Inv, Knows
    <3>2. QED
      BY <1>1, <2>1, <3>1, UpdateLeaves DEF PayPhase, PayListed
  <2>2. CASE ReleaseGate(q) \/ ReleaseImport(q)
    BY <1>2, <2>2 DEF ReleaseGate, ReleaseImport
  <2>3. QED
    BY <1>5, <2>1, <2>2 DEF Bill, UpdateInvoiceRequest, ImportInvoice, UpdateInvoice,
         SelectPhases, SelectHeld, WriteJournal, tables
<1>6. ASSUME NEW q \in Requests, Calculate(q) PROVE recs'[r].status = "ClawbackInitiated"
  <2>1. ASSUME NEW s \in Records, InsertRecord(q, s)
        PROVE  recs'[r].status = "ClawbackInitiated"
    BY <1>1, <2>1 DEF InsertRecord, createCommissionRecord, Exists
  <2>2. QED
    BY <1>6, <2>1 DEF Calculate, CalculateRequest, CalculatePhasesRequest, NextPhase,
         ResolveInvoices, ResolveWindow, Resolved, EndContributors, tables
<1>7. ASSUME NEW q \in Requests, Guarantee(q) PROVE recs'[r].status = "ClawbackInitiated"
  BY <1>3, <1>4, <1>7 DEF Guarantee, ExpireRequest, TriggerRequest, Expire, Trigger, tables
<1>8. CASE Surroundings
  <2>1. ASSUME NEW s \in Records, ApproveInRun(s)
        PROVE  recs'[r].status = "ClawbackInitiated"
    BY <1>1, <2>1 DEF ApproveInRun, ApprovePending, Advance
  <2>2. QED
    BY <1>8, <2>1 DEF Surroundings, CreateInvoice, PeriodBegins, PeriodEnds, PatchPlacement
<1>9. ASSUME NEW q \in Requests, Fail(q) PROVE recs'[r].status = "ClawbackInitiated"
  BY <1>9 DEF Fail, tables
<1>10. CASE UNCHANGED vars
  BY <1>10 DEF vars
<1>11. QED
  BY <1>5, <1>6, <1>7, <1>8, <1>9, <1>10 DEF Next

(* How a period ended is final: the clawback and the expiry exclude each    *)
(* other (triggerGuaranteePeriod and expireGuaranteePeriodClean), and what  *)
(* a clawback took of a contingency placement no release gives back         *)
(* (releaseCollectionGate, releaseHeldCommissionRecordsForPlacement).       *)
THEOREM OutcomesExclude == Spec => OutcomeFinal
<1>1. ASSUME Inv, PeriodStep, NEW p \in Placements,
             period[p] \in {"ExpiredClean", "Triggered"}
      PROVE  period'[p] = period[p]
  BY <1>1 DEF PeriodStep, Inv, TypeOK
<1>2. Inv /\ [Next]_vars =>
        [/\ \A p \in Placements : period[p] \in {"ExpiredClean", "Triggered"} =>
                                   period'[p] = period[p]
         /\ \A r \in Records : PhaseOf[r] = None /\ recs[r].status = "ClawbackInitiated" =>
                                recs'[r].status = "ClawbackInitiated"]_vars
  BY <1>1, PeriodSteps, ClawbackStays
<1>3. QED
  BY <1>2, Invariance, PTL DEF Spec, OutcomeFinal

(* Why a record is charged once: the adjustments are posted by the          *)
(* transaction that makes the period Triggered, and only one can.           *)
Charged == \A r \in Records : /\ adjusted[r] <= 1
                              /\ adjusted[r] > 0 => period[PlacementOf[r]] = "Triggered"

(* A clawback is charged to a record once, although any number of admins    *)
(* trigger it at the same moment (handleTriggerClawback).                   *)
THEOREM ChargedAtMostOnce == Spec => []ChargedOnce
<1>1. Init => Charged
  BY DEF Init, Charged
<1>2. ASSUME Inv, Charged, PeriodStep PROVE Charged'
  <2>1. /\ period \in [Placements -> {"none", "Active", "ExpiredClean", "Triggered"}]
        /\ adjusted \in [Records -> Nat]
    BY <1>2 DEF Inv, TypeOK
  <2>2. SUFFICES ASSUME NEW r \in Records
                 PROVE  /\ adjusted'[r] <= 1
                        /\ adjusted'[r] > 0 => period'[PlacementOf[r]] = "Triggered"
    BY DEF Charged
  <2>3. /\ PlacementOf[r] \in Placements /\ adjusted[r] \in Nat /\ adjusted[r] <= 1
        /\ adjusted[r] > 0 => period[PlacementOf[r]] = "Triggered"
    BY <1>2, <2>1, PlacementOfAssumption DEF Charged
  <2>4. ASSUME NEW p \in Placements, period[p] = "Active",
               period' = [period EXCEPT ![p] = "Triggered"], PostAdjustments(p)
        PROVE  /\ adjusted'[r] <= 1
               /\ adjusted'[r] > 0 => period'[PlacementOf[r]] = "Triggered"
    <3>1. r \in RecordsOf(p) => adjusted'[r] = adjusted[r] + 1 /\ PlacementOf[r] = p
      BY <2>4 DEF PostAdjustments, RecordsOf
    <3>2. r \notin RecordsOf(p) => adjusted'[r] = adjusted[r]
      BY <2>4 DEF PostAdjustments
    <3>3. QED
      BY <2>1, <2>3, <2>4, <3>1, <3>2
  <2>5. QED
    BY <1>2, <2>1, <2>3, <2>4 DEF PeriodStep
<1>3. Inv /\ Charged /\ [Next]_vars => Charged'
  BY <1>2, PeriodSteps
<1>4. Charged => ChargedOnce
  BY DEF Charged, ChargedOnce
<1>5. QED
  BY <1>1, <1>3, <1>4, Invariance, PTL DEF Spec

(* Both together: money leaves the gate only for an invoice that was        *)
(* collected, and is charged back once (handleUpdateInvoice,                *)
(* handleCalculateCommission, handleTriggerClawback).                       *)
THEOREM HoldsAreSound == Spec => []HoldsSound
BY GateSound, ChargedAtMostOnce, PTL DEF HoldsSound

-----------------------------------------------------------------------------
(* One request at a time.  What is held waits for something, or the one     *)
(* request that is served will come to it.                                  *)

GateHolds == {"collection_gate", "held_pending_phase_invoice"}

(* The request will release record r in one of its next statements.         *)
Due(m, r) ==
  \/ m.pc = "releaseGate" /\ PhaseOf[r] = None /\ BilledTo[m.inv] = PlacementOf[r]
  \/ m.pc \in {"releaseGate", "selectPhases"} /\ PhaseOf[r] # None /\ InvoiceOf[PhaseOf[r]] = m.inv
  \/ m.pc \in {"releasePhases", "payPhase", "journal"} /\ PhaseOf[r] \in m.phases
  \/ m.pc = "payPhase" /\ r \in m.seen

(* What a calculation has read is still so. *)
Learnt(m) ==
  /\ m.pc # "releaseImport"
  /\ m.pc \in {"resolve", "insert"} /\ m.collected = "no" => ~IsCollected(m.place, m.phase)
  /\ m.pc \in {"resolve", "insert"} /\ m.inside = "yes" => period[m.place] = "Active"

HoldOK(r) ==
  /\ recs[r].hold \in GateHolds \cup {"guarantee_hold"} => recs[r].status = "Held"
  /\ recs[r].hold = "held_pending_phase_invoice" => PhaseOf[r] # None
  /\ recs[r].hold = "guarantee_hold" => period[PlacementOf[r]] # "ExpiredClean"

Uncollected(r) == recs[r].hold \in GateHolds => ~IsCollected(PlacementOf[r], PhaseOf[r])

SerialInv ==
  /\ \A q \in Requests : Learnt(req[q])
  /\ \A r \in Records : HoldOK(r) /\ (Uncollected(r) \/ \E q \in Requests : Due(req[q], r))

OthersIdle(q) == \A other \in Requests \ {q} : At(other, "idle")

LEMMA IdleOwesNothing ==
  ASSUME SerialInv, NEW q \in Requests, OthersIdle(q), NEW r \in Records
  PROVE  HoldOK(r) /\ (Uncollected(r) \/ Due(req[q], r))
<1>1. ASSUME NEW p \in Requests, Due(req[p], r) PROVE p = q
  BY <1>1 DEF Due, OthersIdle, At
<1>2. QED
  BY <1>1 DEF SerialInv

LEMMA OneServed ==
  ASSUME TypeOK, SerialInv, NEW q \in Requests, OthersIdle(q), NEW next,
         req' = [req EXCEPT ![q] = next], Learnt(next)',
         \A r \in Records : HoldOK(r)' /\ (Uncollected(r)' \/ Due(next, r))
  PROVE  SerialInv'
<1>1. req'[q] = next
  BY DEF TypeOK
<1>2. ASSUME NEW p \in Requests PROVE Learnt(req[p])'
  <2>1. PICK m : m = req'[p]
    OBVIOUS
  <2>2. m = next \/ m.pc = "idle"
    BY <1>1, <2>1 DEF OthersIdle, At, TypeOK
  <2>3. Learnt(m)'
    BY <2>2 DEF Learnt
  <2>4. QED
    BY <2>1, <2>3 DEF Learnt
<1>3. ASSUME NEW r \in Records, Due(next, r) PROVE (\E p \in Requests : Due(req[p], r))'
  BY <1>1, <1>3 DEF Due
<1>4. QED
  BY <1>2, <1>3 DEF SerialInv

(* A statement that only reads keeps what is due. *)
LEMMA OneReads ==
  ASSUME TypeOK, SerialInv, NEW q \in Requests, OthersIdle(q), NEW next,
         req' = [req EXCEPT ![q] = next], UNCHANGED <<recs, invoice, period>>, Learnt(next),
         \A r \in Records : ~Uncollected(r) /\ Due(req[q], r) => Due(next, r)
  PROVE  SerialInv'
<1>1. Learnt(next)'
  BY DEF Learnt, IsCollected, InvoicesOf
<1>2. ASSUME NEW r \in Records PROVE HoldOK(r)' /\ (Uncollected(r)' \/ Due(next, r))
  <2>1. HoldOK(r) /\ (Uncollected(r) \/ Due(req[q], r))
    BY IdleOwesNothing
  <2>2. QED
    BY <2>1 DEF HoldOK, Uncollected, IsCollected, InvoicesOf
<1>3. QED
  BY <1>1, <1>2, OneServed

LEMMA SerialStart == Init => SerialInv
BY DEF Init, RecordsInit, Idle, SerialInv, Learnt, HoldOK, Uncollected, GateHolds

-----------------------------------------------------------------------------
(* An invoice that becomes Paid.                                            *)

LEMMA SerialUpdate ==
  ASSUME Inv, SerialInv, NEW q \in Requests, OthersIdle(q), UpdateInvoice(q)
  PROVE  SerialInv'
<1>1. PICK i, s : i = req[q].inv /\ s = req[q].to
  OBVIOUS
<1>2. /\ TypeOK /\ i \in Invoices /\ s \in Targets /\ req[q] \in Request /\ req[q].pc = "updateInvoice"
      /\ req[q].inv = i
  BY <1>1 DEF Inv, Knows, TypeOK, UpdateInvoice, At
<1>3. invoice' = [invoice EXCEPT ![i] = s] /\ UNCHANGED <<recs, period>>
  BY <1>1 DEF UpdateInvoice, SetInvoice
<1>4. PICK next : next = IF s = "Paid" THEN [req[q] EXCEPT !.pc = "releaseGate"] ELSE Idle
  OBVIOUS
<1>5. /\ next.pc \notin {"resolve", "insert", "releaseImport"}
      /\ s = "Paid" => next.pc = "releaseGate" /\ next.inv = i
  BY <1>2, <1>4 DEF Request, Idle
<1>6. req' = [req EXCEPT ![q] = next]
  BY <1>1, <1>2, <1>4 DEF UpdateInvoice, Goto, Return, TypeOK
<1>7. Learnt(next)'
  BY <1>5 DEF Learnt
<1>8. ASSUME NEW r \in Records PROVE HoldOK(r)' /\ (Uncollected(r)' \/ Due(next, r))
  <2>1. HoldOK(r) /\ Uncollected(r)
    BY <1>2, IdleOwesNothing DEF Due
  <2>2. HoldOK(r)'
    BY <1>3, <2>1 DEF HoldOK
  <2>3. PICK p, ph : p = PlacementOf[r] /\ ph = PhaseOf[r]
    OBVIOUS
  <2>4. p \in Placements /\ ph \in Phases \cup {None}
    BY <2>3, PlacementOfAssumption, PhasesAssumption
  <2>5. ASSUME ~Uncollected(r)' PROVE Due(next, r)
    <3>1. ~IsCollected(p, ph) /\ IsCollected(p, ph)'
      BY <1>3, <2>1, <2>3, <2>5 DEF Uncollected, IsCollected, InvoicesOf
    <3>2. s = "Paid" /\ (ph = None => BilledTo[i] = p) /\ (ph # None => InvoiceOf[ph] = i)
      <4>1. /\ s # "absent" /\ invoice'[i] = s /\ \A k \in Invoices \ {i} : invoice'[k] = invoice[k]
            /\ InvoiceOf \in [Phases -> Invoices \cup {None}] /\ BilledTo \in [Invoices -> Placements]
        BY <1>2, <1>3, InvoicesAssumption, PhasesAssumption DEF INVOICE_STATES, TypeOK
      <4>2. CASE ph # None
        BY <2>4, <3>1, <4>1, <4>2 DEF IsCollected
      <4>3. CASE ph = None
        <5>1. ASSUME BilledTo[i] # p PROVE FALSE
          <6>1. InvoicesOf(p)' = InvoicesOf(p) /\ \A k \in InvoicesOf(p) : invoice'[k] = invoice[k]
            BY <4>1, <5>1 DEF InvoicesOf
          <6>2. QED
            BY <3>1, <4>3, <6>1 DEF IsCollected
        <5>2. i \in InvoicesOf(p)' /\ invoice'[i] = s
          BY <1>2, <4>1, <5>1 DEF InvoicesOf
        <5>3. QED
          BY <3>1, <4>3, <5>1, <5>2 DEF IsCollected
      <4>4. QED
        BY <4>2, <4>3
    <3>3. QED
      BY <1>5, <2>3, <3>2 DEF Due
  <2>6. QED
    BY <2>2, <2>5
<1>9. QED
  BY <1>2, <1>6, <1>7, <1>8, OneServed

LEMMA SerialRelease ==
  ASSUME Inv, SerialInv, NEW q \in Requests, OthersIdle(q), ReleaseGate(q),
         recs' = releaseCollectionGate(BilledTo[req[q].inv])
  PROVE  SerialInv'
<1>1. PICK m : m = req[q]
  OBVIOUS
<1>2. /\ TypeOK /\ Table(recs) /\ m \in Request /\ m.pc = "releaseGate"
      /\ UNCHANGED <<invoice, period>> /\ recs \in [Records -> RecordRow]
  BY <1>1 DEF Inv, TypeOK, Table, ReleaseGate, At
<1>3. PICK next : next = [m EXCEPT !.pc = "selectPhases"]
  OBVIOUS
<1>4. next.pc = "selectPhases" /\ next.inv = m.inv
  BY <1>2, <1>3 DEF Request
<1>5. req' = [req EXCEPT ![q] = next]
  BY <1>1, <1>2, <1>3 DEF ReleaseGate, Goto, TypeOK
<1>6. Learnt(next)'
  BY <1>4 DEF Learnt
<1>7. ASSUME NEW r \in Records PROVE HoldOK(r)' /\ (Uncollected(r)' \/ Due(next, r))
  <2>1. HoldOK(r) /\ (Uncollected(r) \/ Due(m, r))
    BY <1>1, IdleOwesNothing
  <2>2. recs[r] \in RecordRow /\ RowOK(recs[r], r)
    BY <1>2 DEF Table
  <2>3. CASE r \in HeldFor(RecordsOf(BilledTo[m.inv]), "collection_gate")
    <3>1. recs'[r].hold = "none"
      BY <1>1, <2>2, <2>3 DEF releaseCollectionGate, SetStatus, RecordRow
    <3>2. QED
      BY <3>1 DEF HoldOK, Uncollected, GateHolds
  <2>4. CASE r \notin HeldFor(RecordsOf(BilledTo[m.inv]), "collection_gate")
    <3>1. recs'[r] = recs[r]
      BY <1>1, <2>4 DEF releaseCollectionGate, SetStatus
    <3>2. HoldOK(r)'
      BY <1>2, <2>1, <3>1 DEF HoldOK
    <3>3. Uncollected(r) => Uncollected(r)'
      BY <1>2, <3>1 DEF Uncollected, IsCollected, InvoicesOf
    <3>4. ASSUME Due(m, r), ~Uncollected(r) PROVE Due(next, r)
      <4>1. recs[r].hold \in GateHolds /\ recs[r].status = "Held"
        BY <2>1, <3>4 DEF Uncollected, HoldOK
      <4>2. CASE PhaseOf[r] # None
        BY <1>2, <1>4, <3>4, <4>2 DEF Due
      <4>3. CASE PhaseOf[r] = None
        <5>1. recs[r].hold = "collection_gate"
          BY <2>1, <4>1, <4>3 DEF HoldOK, GateHolds
        <5>2. BilledTo[m.inv] = PlacementOf[r]
          BY <1>2, <3>4, <4>3 DEF Due
        <5>3. QED
          BY <2>4, <4>1, <5>1, <5>2 DEF HeldFor, RecordsOf, Exists
      <4>4. QED
        BY <4>2, <4>3
    <3>5. QED
      BY <2>1, <3>2, <3>3, <3>4
  <2>5. QED
    BY <2>3, <2>4
<1>8. QED
  BY <1>2, <1>5, <1>6, <1>7, OneServed

LEMMA SerialSelectPhases ==
  ASSUME Inv, SerialInv, NEW q \in Requests, OthersIdle(q), SelectPhases(q)
  PROVE  SerialInv'
<1>1. PICK m, phases : m = req[q] /\ phases = {ph \in Phases : InvoiceOf[ph] = m.inv}
  OBVIOUS
<1>2. TypeOK /\ m \in Request /\ m.pc = "selectPhases" /\ UNCHANGED <<recs, invoice, period>>
  BY <1>1 DEF Inv, TypeOK, SelectPhases, At, tables
<1>3. PICK next : next = [m EXCEPT !.pc = "releasePhases", !.phases = phases]
  OBVIOUS
<1>4. next.pc = "releasePhases" /\ next.phases = phases
  BY <1>2, <1>3 DEF Request
<1>5. req' = [req EXCEPT ![q] = next]
  BY <1>1, <1>2, <1>3 DEF SelectPhases, TypeOK
<1>6. ASSUME NEW r \in Records, Due(m, r) PROVE Due(next, r)
  <2>1. PhaseOf[r] \in Phases /\ InvoiceOf[PhaseOf[r]] = m.inv
    BY <1>2, <1>6, PhasesAssumption DEF Due
  <2>2. QED
    BY <1>1, <1>4, <2>1 DEF Due
<1>7. Learnt(next)
  BY <1>4 DEF Learnt
<1>8. QED
  BY <1>1, <1>2, <1>5, <1>6, <1>7, OneReads

LEMMA SerialSelectHeld ==
  ASSUME Inv, SerialInv, NEW q \in Requests, OthersIdle(q), SelectHeld(q)
  PROVE  SerialInv'
<1>1. PICK m : m = req[q]
  OBVIOUS
<1>2. TypeOK /\ m \in Request /\ m.pc = "releasePhases" /\ UNCHANGED <<recs, invoice, period>>
  BY <1>1 DEF Inv, TypeOK, SelectHeld, At, tables
<1>3. ASSUME m.phases = {}, Return(q) PROVE SerialInv'
  <2>1. \A r \in Records : ~Due(m, r)
    BY <1>2, <1>3 DEF Due
  <2>2. Learnt(Idle)
    BY DEF Idle, Learnt
  <2>3. QED
    BY <1>1, <1>2, <1>3, <2>1, <2>2, OneReads DEF Return
<1>4. ASSUME NEW ph \in m.phases,
             req' = [req EXCEPT ![q].phases = @ \ {ph}, ![q].seen = PhaseHeld(ph),
                                ![q].pc = IF PhaseHeld(ph) = {} THEN @ ELSE "payPhase"]
      PROVE  SerialInv'
  <2>1. PICK held : held = PhaseHeld(ph)
    OBVIOUS
  <2>2. PICK next : next = [m EXCEPT !.phases = @ \ {ph}, !.seen = held,
                                     !.pc = IF held = {} THEN @ ELSE "payPhase"]
    OBVIOUS
  <2>3. /\ next.phases = m.phases \ {ph} /\ next.seen = held
        /\ next.pc = IF held = {} THEN "releasePhases" ELSE "payPhase"
    BY <1>2, <2>2 DEF Request
  <2>4. req' = [req EXCEPT ![q] = next]
    BY <1>1, <1>2, <1>4, <2>1, <2>2 DEF TypeOK
  <2>5. Learnt(next)
    BY <2>3 DEF Learnt
  <2>6. ASSUME NEW r \in Records, ~Uncollected(r), Due(m, r) PROVE Due(next, r)
    <3>1. PhaseOf[r] \in m.phases
      BY <1>2, <2>6 DEF Due
    <3>2. CASE PhaseOf[r] # ph
      BY <2>3, <3>1, <3>2 DEF Due
    <3>3. CASE PhaseOf[r] = ph
      <4>1. PhaseOf[r] # None
        BY <1>2, <3>1, NoneAssumption DEF Request
      <4>2. HoldOK(r) /\ RowOK(recs[r], r) /\ recs[r].hold \in GateHolds
        BY <2>6 DEF SerialInv, Inv, Table, Uncollected
      <4>3. recs[r].hold = "held_pending_phase_invoice" /\ recs[r].status = "Held"
        BY <4>1, <4>2 DEF HoldOK, RowOK, GateHolds
      <4>4. r \in held
        BY <2>1, <3>3, <4>3 DEF PhaseHeld, HeldFor
      <4>5. QED
        BY <2>3, <4>4 DEF Due
    <3>4. QED
      BY <3>2, <3>3
  <2>7. QED
    BY <1>1, <1>2, <2>4, <2>5, <2>6, OneReads
<1>5. QED
  BY <1>1, <1>3, <1>4 DEF SelectHeld

LEMMA SerialPayPhase ==
  ASSUME Inv, SerialInv, NEW q \in Requests, OthersIdle(q), PayPhase(q)
  PROVE  SerialInv'
<1>1. PICK m : m = req[q]
  OBVIOUS
<1>2. /\ TypeOK /\ m \in Request /\ m.pc = "payPhase" /\ UNCHANGED <<invoice, period>>
      /\ recs' = PayListed(m.seen) /\ recs \in [Records -> RecordRow]
  BY <1>1 DEF Inv, Table, TypeOK, PayPhase, At
<1>3. PICK next : next = [m EXCEPT !.pc = "journal"]
  OBVIOUS
<1>4. next.pc = "journal" /\ next.phases = m.phases
  BY <1>2, <1>3 DEF Request
<1>5. req' = [req EXCEPT ![q] = next]
  BY <1>1, <1>2, <1>3 DEF PayPhase, Goto, TypeOK
<1>6. Learnt(next)'
  BY <1>4 DEF Learnt
<1>7. ASSUME NEW r \in Records PROVE HoldOK(r)' /\ (Uncollected(r)' \/ Due(next, r))
  <2>1. HoldOK(r) /\ (Uncollected(r) \/ Due(m, r))
    BY <1>1, IdleOwesNothing
  <2>2. CASE r \in m.seen
    <3>1. recs'[r].hold = "none"
      BY <1>2, <2>2 DEF PayListed, SetStatus, RecordRow
    <3>2. QED
      BY <3>1 DEF HoldOK, Uncollected, GateHolds
  <2>3. CASE r \notin m.seen
    <3>1. recs'[r] = recs[r]
      BY <1>2, <2>3 DEF PayListed, SetStatus
    <3>2. HoldOK(r)' /\ (Uncollected(r) => Uncollected(r)')
      BY <1>2, <2>1, <3>1 DEF HoldOK, Uncollected, IsCollected, InvoicesOf
    <3>3. Due(m, r) => Due(next, r)
      BY <1>2, <1>4, <2>3 DEF Due
    <3>4. QED
      BY <2>1, <3>2, <3>3
  <2>4. QED
    BY <2>2, <2>3
<1>8. QED
  BY <1>2, <1>5, <1>6, <1>7, OneServed

LEMMA SerialJournal ==
  ASSUME Inv, SerialInv, NEW q \in Requests, OthersIdle(q), WriteJournal(q)
  PROVE  SerialInv'
<1>1. PICK m, r0 :
        /\ m = req[q] /\ r0 \in m.seen
        /\ req' = [req EXCEPT ![q].seen = @ \ {r0},
                              ![q].pc = IF req[q].seen = {r0} THEN "releasePhases" ELSE @]
  BY DEF WriteJournal
<1>2. TypeOK /\ m \in Request /\ m.pc = "journal" /\ UNCHANGED <<recs, invoice, period>>
  BY <1>1 DEF Inv, TypeOK, WriteJournal, At
<1>3. PICK next : next = [m EXCEPT !.seen = @ \ {r0},
                                   !.pc = IF m.seen = {r0} THEN "releasePhases" ELSE @]
  OBVIOUS
<1>4. next.pc \in {"journal", "releasePhases"} /\ next.phases = m.phases
  BY <1>2, <1>3 DEF Request
<1>5. req' = [req EXCEPT ![q] = next]
  BY <1>1, <1>2, <1>3 DEF TypeOK
<1>6. \A r \in Records : Due(m, r) => Due(next, r)
  BY <1>2, <1>4 DEF Due
<1>7. Learnt(next)
  BY <1>4 DEF Learnt
<1>8. QED
  BY <1>1, <1>2, <1>5, <1>6, <1>7, OneReads

-----------------------------------------------------------------------------
(* A calculation that nothing overlaps with.                                *)

LEMMA SerialCalculates ==
  ASSUME Inv, SerialInv, NEW q \in Requests, OthersIdle(q),
         \/ \E p \in Placements : CalculateRequest(q, p) \/ CalculatePhasesRequest(q, p)
         \/ NextPhase(q) \/ ResolveInvoices(q) \/ ResolveWindow(q) \/ Resolved(q)
         \/ EndContributors(q)
  PROVE  SerialInv'
<1>1. PICK m : m = req[q]
  OBVIOUS
<1>2. /\ TypeOK /\ m \in Request /\ UNCHANGED <<recs, invoice, period>> /\ Learnt(m)
      /\ m.pc \in {"idle", "nextPhase", "resolve", "insert"}
  BY <1>1 DEF Inv, TypeOK, SerialInv, CalculateRequest, CalculatePhasesRequest, NextPhase,
     ResolveInvoices, ResolveWindow, Resolved, EndContributors, Receive, At, tables
<1>3. \A r \in Records : ~Due(m, r)
  BY <1>2 DEF Due
<1>4. ASSUME NEW next, Learnt(next), req' = [req EXCEPT ![q] = next] PROVE SerialInv'
  BY <1>1, <1>2, <1>3, <1>4, OneReads
<1>5. ASSUME NEW p \in Placements, CalculateRequest(q, p) PROVE SerialInv'
  <2>1. PICK next : next = [Idle EXCEPT !.pc = "resolve", !.place = p]
    OBVIOUS
  <2>2. next.collected = "unknown" /\ next.inside = "unknown" /\ next.pc = "resolve"
    BY <2>1 DEF Idle
  <2>3. Learnt(next)
    BY <2>2 DEF Learnt
  <2>4. QED
    BY <1>4, <1>5, <2>1, <2>3 DEF CalculateRequest, Receive
<1>6. ASSUME NEW p \in Placements, CalculatePhasesRequest(q, p) PROVE SerialInv'
  <2>1. PICK next : next = [Idle EXCEPT !.pc = "nextPhase", !.place = p, !.phases = PhasesOf[p]]
    OBVIOUS
  <2>2. Learnt(next)
    BY <2>1 DEF Learnt, Idle
  <2>3. QED
    BY <1>4, <1>6, <2>1, <2>2 DEF CalculatePhasesRequest, Receive
<1>7. Learnt(Idle)
  BY DEF Learnt, Idle
<1>8. CASE Return(q)
  BY <1>4, <1>7, <1>8 DEF Return
<1>9. CASE NextPhase(q)
  <2>1. ASSUME NEW ph \in m.phases,
               req' = [req EXCEPT ![q].phases = @ \ {ph}, ![q].phase = ph, ![q].pc = "resolve",
                                  ![q].collected = "unknown", ![q].inside = "unknown"]
        PROVE  SerialInv'
    <3>1. PICK next : next = [m EXCEPT !.phases = @ \ {ph}, !.phase = ph, !.pc = "resolve",
                                       !.collected = "unknown", !.inside = "unknown"]
      OBVIOUS
    <3>2. next.collected = "unknown" /\ next.inside = "unknown" /\ next.pc = "resolve"
      BY <1>2, <3>1 DEF Request
    <3>3. Learnt(next) /\ req' = [req EXCEPT ![q] = next]
      BY <1>1, <1>2, <2>1, <3>1, <3>2 DEF Learnt, TypeOK
    <3>4. QED
      BY <1>4, <3>3
  <2>2. QED
    BY <1>1, <1>8, <1>9, <2>1 DEF NextPhase
<1>10. CASE ResolveInvoices(q)
  <2>1. PICK answer, next : /\ answer = Answer(IsCollected(m.place, m.phase))
                            /\ next = [m EXCEPT !.collected = answer]
    OBVIOUS
  <2>2. /\ next.collected = answer /\ next.place = m.place /\ next.phase = m.phase
        /\ next.pc = m.pc /\ next.inside = m.inside
    BY <1>2, <2>1 DEF Request
  <2>3. answer = "no" => ~IsCollected(m.place, m.phase)
    BY <2>1 DEF Answer
  <2>4. Learnt(next)
    BY <1>2, <2>2, <2>3 DEF Learnt
  <2>5. req' = [req EXCEPT ![q] = next]
    BY <1>1, <1>2, <1>10, <2>1 DEF ResolveInvoices, TypeOK
  <2>6. QED
    BY <1>4, <2>4, <2>5
<1>11. CASE ResolveWindow(q)
  <2>1. PICK answer, next : /\ answer = Answer(WindowOpen(m.place))
                            /\ next = [m EXCEPT !.inside = answer]
    OBVIOUS
  <2>2. /\ next.inside = answer /\ next.place = m.place /\ next.phase = m.phase
        /\ next.pc = m.pc /\ next.collected = m.collected
    BY <1>2, <2>1 DEF Request
  <2>3. answer = "yes" => period[m.place] = "Active"
    BY <2>1 DEF Answer, WindowOpen
  <2>4. Learnt(next)
    BY <1>2, <2>2, <2>3 DEF Learnt
  <2>5. req' = [req EXCEPT ![q] = next]
    BY <1>1, <1>2, <1>11, <2>1 DEF ResolveWindow, TypeOK
  <2>6. QED
    BY <1>4, <2>4, <2>5
<1>12. ASSUME NEW pc \in {"insert", "nextPhase"}, m.pc \in {"resolve", "insert"}, Goto(q, pc)
       PROVE  SerialInv'
  <2>1. PICK next : next = [m EXCEPT !.pc = pc]
    OBVIOUS
  <2>2. /\ next.inside = m.inside /\ next.place = m.place /\ next.phase = m.phase
        /\ next.pc = pc /\ next.collected = m.collected
    BY <1>2, <2>1 DEF Request
  <2>3. Learnt(next)
    BY <1>2, <1>12, <2>2 DEF Learnt
  <2>4. req' = [req EXCEPT ![q] = next]
    BY <1>1, <1>2, <1>12, <2>1 DEF Goto, TypeOK
  <2>5. QED
    BY <1>4, <2>3, <2>4
<1>13. QED
  BY <1>1, <1>5, <1>6, <1>8, <1>9, <1>10, <1>11, <1>12 DEF Resolved, EndContributors, At

LEMMA SerialInsert ==
  ASSUME Inv, SerialInv, NEW q \in Requests, OthersIdle(q), NEW r0 \in Records, InsertRecord(q, r0)
  PROVE  SerialInv'
<1>1. PICK m, reason : m = req[q] /\ reason = HoldReason(q)
  OBVIOUS
<1>2. /\ TypeOK /\ m \in Request /\ m.pc = "insert" /\ Learnt(m) /\ recs \in [Records -> RecordRow]
      /\ UNCHANGED <<invoice, period, req>>
      /\ PlacementOf[r0] = m.place /\ PhaseOf[r0] = m.phase
      /\ recs' = createCommissionRecord(r0, IF reason = "none" THEN "Accrued" ELSE "Held", reason)
  BY <1>1 DEF Inv, Table, TypeOK, SerialInv, InsertRecord, At
<1>3. /\ reason \in GateHolds => m.collected = "no"
      /\ reason = "held_pending_phase_invoice" => m.phase # None
      /\ reason = "guarantee_hold" => m.inside = "yes"
      /\ reason \in GateHolds \cup {"guarantee_hold", "none"}
  BY <1>1 DEF HoldReason, GateHolds
<1>4. /\ recs'[r0].hold = reason /\ (reason # "none" => recs'[r0].status = "Held")
      /\ \A r \in Records : r # r0 => recs'[r] = recs[r]
  BY <1>2 DEF createCommissionRecord
<1>5. Learnt(m)'
  BY <1>2 DEF Learnt, IsCollected, InvoicesOf
<1>6. ASSUME NEW r \in Records PROVE HoldOK(r)' /\ (Uncollected(r)' \/ Due(m, r))
  <2>1. CASE r # r0
    <3>1. HoldOK(r) /\ Uncollected(r) /\ recs'[r] = recs[r]
      BY <1>1, <1>2, <1>4, <2>1, IdleOwesNothing DEF Due
    <3>2. QED
      BY <1>2, <3>1 DEF HoldOK, Uncollected, IsCollected, InvoicesOf
  <2>2. CASE r = r0
    <3>1. HoldOK(r)'
      BY <1>2, <1>3, <1>4, <2>2 DEF HoldOK, Learnt, GateHolds
    <3>2. Uncollected(r)'
      BY <1>2, <1>3, <1>4, <2>2 DEF Uncollected, Learnt, IsCollected, InvoicesOf
    <3>3. QED
      BY <3>1, <3>2
  <2>3. QED
    BY <2>1, <2>2
<1>7. req' = [req EXCEPT ![q] = m]
  BY <1>1, <1>2 DEF TypeOK
<1>8. QED
  BY <1>2, <1>5, <1>6, <1>7, OneServed

-----------------------------------------------------------------------------
(* The guarantee period.                                                    *)

LEMMA SerialGuarantee ==
  ASSUME Inv, SerialInv, NEW q \in Requests, OthersIdle(q), Guarantee(q)
  PROVE  SerialInv'
<1>1. PICK m : m = req[q]
  OBVIOUS
<1>2. TypeOK /\ m \in Request /\ recs \in [Records -> RecordRow]
  BY <1>1 DEF Inv, Table, TypeOK
<1>3. \A r \in Records : m.pc \in {"idle", "expire", "trigger"} => HoldOK(r) /\ Uncollected(r)
  BY <1>1, IdleOwesNothing DEF Due
<1>4. ASSUME NEW p \in Placements, NEW next, next \in {[Idle EXCEPT !.pc = "expire", !.place = p],
                                                       [Idle EXCEPT !.pc = "trigger", !.place = p]},
             Receive(q, next), UNCHANGED tables
      PROVE  SerialInv'
  <2>1. Learnt(next) /\ m.pc = "idle"
    BY <1>1, <1>4 DEF Learnt, Idle, Receive, At
  <2>2. QED
    BY <1>1, <1>2, <1>3, <1>4, <2>1, OneReads DEF Receive, tables
<1>5. CASE \E p \in Placements : ExpireRequest(q, p) \/ TriggerRequest(q, p)
  BY <1>4, <1>5 DEF ExpireRequest, TriggerRequest
<1>6. Learnt(Idle)' /\ \A r \in Records : ~Due(Idle, r)
  BY DEF Learnt, Idle, Due
<1>7. ASSUME Return(q), UNCHANGED invoice,
             \A r \in Records : \/ recs'[r].hold \notin GateHolds \cup {"guarantee_hold"}
                                \/ /\ recs'[r] = recs[r]
                                   /\ recs[r].hold = "guarantee_hold" =>
                                        period'[PlacementOf[r]] # "ExpiredClean",
             m.pc \in {"expire", "trigger"}
      PROVE  SerialInv'
  <2>1. ASSUME NEW r \in Records PROVE HoldOK(r)' /\ Uncollected(r)'
    <3>1. HoldOK(r) /\ Uncollected(r)
      BY <1>3, <1>7
    <3>2. CASE recs'[r].hold \notin GateHolds \cup {"guarantee_hold"}
      BY <3>2 DEF HoldOK, Uncollected, GateHolds
    <3>3. CASE recs'[r] = recs[r] /\ (recs[r].hold = "guarantee_hold" =>
                                        period'[PlacementOf[r]] # "ExpiredClean")
      BY <1>7, <3>1, <3>3 DEF HoldOK, Uncollected, IsCollected, InvoicesOf
    <3>4. QED
      BY <1>7, <3>2, <3>3
  <2>2. QED
    BY <1>2, <1>6, <1>7, <2>1, OneServed DEF Return
<1>8. CASE Expire(q)
  <2>1. PICK p : p = m.place
    OBVIOUS
  <2>2. m.pc = "expire" /\ Return(q) /\ UNCHANGED invoice /\ p \in Placements
    BY <1>1, <1>8, <2>1 DEF Expire, At, Inv, Knows, Placed
  <2>3. CASE period[p] # "Active"
    <3>1. UNCHANGED <<recs, period>>
      BY <1>1, <1>8, <2>1, <2>3 DEF Expire
    <3>2. QED
      BY <1>3, <1>7, <2>2, <3>1 DEF HoldOK
  <2>4. CASE period[p] = "Active"
    <3>1. /\ period' = [period EXCEPT ![p] = "ExpiredClean"]
          /\ recs' = releaseHeldCommissionRecordsForPlacement(p)
      BY <1>1, <1>8, <2>1, <2>4 DEF Expire
    <3>2. ASSUME NEW r \in Records
          PROVE  \/ recs'[r].hold \notin GateHolds \cup {"guarantee_hold"}
                 \/ /\ recs'[r] = recs[r]
                    /\ recs[r].hold = "guarantee_hold" => period'[PlacementOf[r]] # "ExpiredClean"
      <4>1. recs[r] \in RecordRow /\ HoldOK(r) /\ PlacementOf[r] \in Placements
        BY <1>2, <1>3, <2>2, PlacementOfAssumption
      <4>2. CASE r \in HeldFor(RecordsOf(p), "guarantee_hold")
        BY <3>1, <4>1, <4>2 DEF releaseHeldCommissionRecordsForPlacement, SetStatus, RecordRow, GateHolds
      <4>3. CASE r \notin HeldFor(RecordsOf(p), "guarantee_hold")
        <5>1. recs'[r] = recs[r]
          BY <3>1, <4>3 DEF releaseHeldCommissionRecordsForPlacement, SetStatus
        <5>2. recs[r].hold = "guarantee_hold" => PlacementOf[r] # p
          BY <4>1, <4>3 DEF HoldOK, HeldFor, RecordsOf, Exists
        <5>3. recs[r].hold = "guarantee_hold" => period'[PlacementOf[r]] = period[PlacementOf[r]]
          BY <1>2, <3>1, <4>1, <5>2 DEF TypeOK
        <5>4. QED
          BY <4>1, <5>1, <5>3 DEF HoldOK
      <4>4. QED
        BY <4>2, <4>3
    <3>3. QED
      BY <1>7, <2>2, <3>2
  <2>5. QED
    BY <2>3, <2>4
<1>9. CASE Trigger(q)
  <2>1. PICK p : p = m.place
    OBVIOUS
  <2>2. m.pc = "trigger" /\ Return(q) /\ UNCHANGED invoice /\ p \in Placements
    BY <1>1, <1>9, <2>1 DEF Trigger, At, Inv, Knows, Placed
  <2>3. CASE period[p] # "Active"
    <3>1. UNCHANGED <<recs, period>>
      BY <1>1, <1>9, <2>1, <2>3 DEF Trigger
    <3>2. QED
      BY <1>3, <1>7, <2>2, <3>1 DEF HoldOK
  <2>4. CASE period[p] = "Active"
    <3>1. /\ period' = [period EXCEPT ![p] = "Triggered"]
          /\ recs' = holdCommissionRecordsForClawback(p)
      BY <1>1, <1>9, <2>1, <2>4 DEF Trigger
    <3>2. ASSUME NEW r \in Records
          PROVE  \/ recs'[r].hold \notin GateHolds \cup {"guarantee_hold"}
                 \/ /\ recs'[r] = recs[r]
                    /\ recs[r].hold = "guarantee_hold" => period'[PlacementOf[r]] # "ExpiredClean"
      <4>1. recs[r] \in RecordRow /\ HoldOK(r) /\ PlacementOf[r] \in Placements
        BY <1>2, <1>3, <2>2, PlacementOfAssumption
      <4>2. CASE r \in {s \in RecordsOf(p) : recs[s].status \in ClawbackReach}
        BY <3>1, <4>1, <4>2 DEF holdCommissionRecordsForClawback, SetStatus, RecordRow, GateHolds
      <4>3. CASE r \notin {s \in RecordsOf(p) : recs[s].status \in ClawbackReach}
        <5>1. recs'[r] = recs[r]
          BY <3>1, <4>3 DEF holdCommissionRecordsForClawback, SetStatus
        <5>2. recs[r].hold = "guarantee_hold" => period'[PlacementOf[r]] # "ExpiredClean"
          BY <1>2, <3>1, <4>1 DEF TypeOK, HoldOK
        <5>3. QED
          BY <5>1, <5>2
      <4>4. QED
        BY <4>2, <4>3
    <3>3. QED
      BY <1>7, <2>2, <3>2
  <2>5. QED
    BY <2>3, <2>4
<1>10. QED
  BY <1>5, <1>8, <1>9 DEF Guarantee

-----------------------------------------------------------------------------
(* The rest of the system moves at any moment.                              *)

LEMMA SerialSurroundings ==
  ASSUME Inv, SerialInv, Surroundings PROVE SerialInv'
<1>1. TypeOK /\ recs \in [Records -> RecordRow] /\ req' = req
  BY DEF Inv, Table, TypeOK, Surroundings, CreateInvoice, PeriodBegins, PeriodEnds, PatchPlacement,
     ApproveInRun
<1>2. ASSUME \A p \in Placements, ph \in Phases \cup {None} : IsCollected(p, ph)' => IsCollected(p, ph),
             \A p \in Placements : /\ period[p] = "Active" => period'[p] = "Active"
                                   /\ period[p] # "ExpiredClean" => period'[p] # "ExpiredClean",
             \A r \in Records : \/ recs'[r].hold \notin GateHolds \cup {"guarantee_hold"}
                                \/ recs'[r] = recs[r]
      PROVE  SerialInv'
  <2>1. ASSUME NEW q \in Requests PROVE Learnt(req[q])'
    <3>1. PICK m : m = req[q]
      OBVIOUS
    <3>2. Learnt(m) /\ m \in Request /\ (m.pc \in {"resolve", "insert"} => m.place \in Placements)
      BY <1>1, <3>1 DEF SerialInv, TypeOK, Inv, Knows, Placed
    <3>3. Learnt(m)'
      BY <1>2, <3>2 DEF Learnt, Request
    <3>4. QED
      BY <1>1, <3>1, <3>3
  <2>2. ASSUME NEW r \in Records
        PROVE  HoldOK(r)' /\ (Uncollected(r)' \/ (\E q \in Requests : Due(req[q], r))')
    <3>1. /\ HoldOK(r) /\ (Uncollected(r) \/ \E q \in Requests : Due(req[q], r))
          /\ PlacementOf[r] \in Placements /\ PhaseOf[r] \in Phases \cup {None}
      BY PlacementOfAssumption, PhasesAssumption DEF SerialInv
    <3>2. HoldOK(r)'
      BY <1>2, <3>1 DEF HoldOK, GateHolds
    <3>3. Uncollected(r) => Uncollected(r)'
      BY <1>2, <3>1 DEF Uncollected
    <3>4. QED
      BY <1>1, <3>1, <3>2, <3>3
  <2>3. QED
    BY <2>1, <2>2 DEF SerialInv
<1>3. ASSUME NEW i \in Invoices, CreateInvoice(i) PROVE SerialInv'
  <2>1. /\ invoice \in [Invoices -> INVOICE_STATES \cup {"absent"}] /\ invoice[i] = "absent"
        /\ invoice' = [invoice EXCEPT ![i] = "Issued"] /\ UNCHANGED <<recs, period>>
    BY <1>1, <1>3 DEF CreateInvoice, TypeOK
  <2>2. ASSUME NEW p \in Placements, NEW ph \in Phases \cup {None}, IsCollected(p, ph)'
        PROVE  IsCollected(p, ph)
    <3>1. CASE ph # None
      BY <2>1, <2>2, <3>1, PhasesAssumption DEF IsCollected
    <3>2. CASE ph = None
      <4>1. i \notin InvoicesOf(p)'
        BY <2>1, <2>2, <3>2 DEF IsCollected, InvoicesOf
      <4>2. InvoicesOf(p)' = InvoicesOf(p) /\ \A j \in InvoicesOf(p) : invoice'[j] = invoice[j]
        BY <2>1, <4>1 DEF InvoicesOf
      <4>3. QED
        BY <2>2, <3>2, <4>2 DEF IsCollected
    <3>3. QED
      BY <3>1, <3>2
  <2>3. QED
    BY <1>2, <2>1, <2>2
<1>4. ASSUME NEW p \in Placements, PeriodBegins(p) \/ PeriodEnds(p) \/ PatchPlacement(p)
      PROVE  SerialInv'
  <2>1. UNCHANGED <<invoice, recs>>
    BY <1>4 DEF PeriodBegins, PeriodEnds, PatchPlacement
  <2>2. period' = period \/ (period[p] = "none" /\ period' = [period EXCEPT ![p] = "Active"])
    BY <1>4 DEF PeriodBegins, PeriodEnds, PatchPlacement
  <2>3. \A x \in Placements : /\ period[x] = "Active" => period'[x] = "Active"
                              /\ period[x] # "ExpiredClean" => period'[x] # "ExpiredClean"
    BY <1>1, <2>2 DEF TypeOK
  <2>4. \A x \in Placements, ph \in Phases \cup {None} : IsCollected(x, ph)' => IsCollected(x, ph)
    BY <2>1 DEF IsCollected, InvoicesOf
  <2>5. QED
    BY <1>2, <2>1, <2>3, <2>4
<1>5. ASSUME NEW r0 \in Records, ApproveInRun(r0) PROVE SerialInv'
  <2>1. UNCHANGED <<invoice, period>> /\ recs[r0].status = "Accrued" /\ recs' = ApprovePending({r0})
    BY <1>5 DEF ApproveInRun
  <2>2. ASSUME NEW r \in Records
        PROVE  recs'[r].hold \notin GateHolds \cup {"guarantee_hold"} \/ recs'[r] = recs[r]
    <3>1. CASE r # r0
      BY <2>1, <3>1 DEF ApprovePending, Advance
    <3>2. CASE r = r0
      <4>1. HoldOK(r0) /\ recs[r0] \in RecordRow
        BY <1>1 DEF SerialInv
      <4>2. recs[r0].hold \notin GateHolds \cup {"guarantee_hold"}
        BY <2>1, <4>1 DEF HoldOK
      <4>3. recs'[r0].hold = recs[r0].hold
        BY <2>1, <4>1 DEF ApprovePending, Advance, RecordRow
      <4>4. QED
        BY <3>2, <4>2, <4>3
    <3>3. QED
      BY <3>1, <3>2
  <2>3. \A x \in Placements, ph \in Phases \cup {None} : IsCollected(x, ph)' => IsCollected(x, ph)
    BY <2>1 DEF IsCollected, InvoicesOf
  <2>4. QED
    BY <1>2, <2>1, <2>2, <2>3
<1>6. QED
  BY <1>3, <1>4, <1>5 DEF Surroundings

-----------------------------------------------------------------------------
LEMMA SerialServed ==
  ASSUME Inv, SerialInv, NEW q \in Requests, OthersIdle(q), Served(q)
  PROVE  SerialInv'
<1>1. ASSUME NEW i \in Invoices, NEW s \in Targets, UpdateInvoiceRequest(q, i, s) PROVE SerialInv'
  <2>1. PICK next : next = [Idle EXCEPT !.pc = "updateInvoice", !.inv = i, !.to = s]
    OBVIOUS
  <2>2. /\ TypeOK /\ Learnt(next) /\ \A r \in Records : ~Due(req[q], r)
        /\ req' = [req EXCEPT ![q] = next] /\ UNCHANGED <<recs, invoice, period>>
    BY <1>1, <2>1 DEF Inv, Learnt, Idle, Due, UpdateInvoiceRequest, Receive, At, tables
  <2>3. QED
    BY <2>2, OneReads
<1>2. QED
  BY <1>1, SerialUpdate, SerialRelease, SerialSelectPhases, SerialSelectHeld, SerialPayPhase,
     SerialJournal, SerialCalculates, SerialInsert, SerialGuarantee DEF Served, Calculate

LEMMA ServedIsStep == ASSUME NEW q \in Requests, Served(q) PROVE Next
<1>1. Bill(q) \/ Calculate(q) \/ Guarantee(q)
  BY DEF Served, Bill
<1>2. QED
  BY <1>1 DEF Next

LEMMA SerialInvariance == MCSpec => [](Inv /\ (serial => SerialInv))
<1>1. MCInit => Inv /\ (serial => SerialInv)
  BY InvInit, SerialStart DEF MCInit
<1>2. ASSUME [MCNext]_<<vars, serial>> PROVE [Next]_vars
  BY <1>2, ServedIsStep DEF MCNext, Next
<1>3. ASSUME Inv, serial, SerialInv, [MCNext]_<<vars, serial>> PROVE SerialInv'
  <2>1. CASE UNCHANGED vars
    BY <1>3, <2>1 DEF vars, SerialInv, Learnt, HoldOK, Uncollected, IsCollected, InvoicesOf
  <2>2. ASSUME NEW q \in Requests, \A other \in Requests \ {q} : At(other, "idle"), Served(q)
        PROVE  SerialInv'
    BY <1>3, <2>2, SerialServed DEF OthersIdle
  <2>3. QED
    BY <1>3, <2>1, <2>2, SerialSurroundings DEF MCNext
<1>4. [MCNext]_<<vars, serial>> => (serial' => serial)
  BY DEF MCNext
<1>5. Inv /\ (serial => SerialInv) /\ [MCNext]_<<vars, serial>> => (Inv /\ (serial => SerialInv))'
  BY <1>2, <1>3, <1>4, InvNext
<1>6. QED
  BY <1>1, <1>5, PTL DEF MCSpec

(* When requests follow each other, nothing stays held that was paid for or *)
(* whose window is over: the statements of one payment, of one calculation  *)
(* and of one expiry together leave no record behind (handleUpdateInvoice,  *)
(* handleCalculateCommission, processGuaranteeExpiredRecalc).               *)
THEOREM SerialRequestsRelease == MCSpec => []SerialReleases
<1>1. ASSUME Inv, SerialInv, Quiet, NEW r \in Records
      PROVE  HoldOK(r) /\ Uncollected(r) /\ Table(recs)
  BY <1>1 DEF Inv, SerialInv, Quiet, Due, At
<1>2. Inv /\ SerialInv => PaidReleases
  <2>1. SUFFICES ASSUME Inv, SerialInv, Quiet, NEW r \in Records, recs[r].hold = "collection_gate"
                 PROVE  LET I == InvoicesOf(PlacementOf[r])
                        IN I = {} \/ \E i \in I : invoice[i] # "Paid"
    BY DEF PaidReleases
  <2>2. PhaseOf[r] = None /\ ~IsCollected(PlacementOf[r], PhaseOf[r])
    BY <1>1, <2>1 DEF Table, RowOK, Uncollected, GateHolds
  <2>3. QED
    BY <2>2 DEF IsCollected
<1>3. Inv /\ SerialInv => PhasePaidReleases
  BY <1>1 DEF PhasePaidReleases, HoldOK, Uncollected, GateHolds, IsCollected
<1>4. Inv /\ SerialInv => ExpiredReleases
  BY <1>1 DEF ExpiredReleases, HoldOK
<1>5. Inv /\ (serial => SerialInv) => SerialReleases
  BY <1>2, <1>3, <1>4 DEF SerialReleases
<1>6. QED
  BY <1>5, SerialInvariance, PTL
=============================================================================
