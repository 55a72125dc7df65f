---------------------------- MODULE CommissionHolds ----------------------------
(***************************************************************************)
(* When a commission may be paid: a calculation inserts records, some of   *)
(* them Held, and the payment of an invoice, the end of the guarantee      *)
(* window or a clawback decides what becomes of them.                      *)
(*                                                                         *)
(* The clawback and the expiry of a guarantee period are transactions and  *)
(* each is one step: the UPDATE of the period, on whose row they meet,     *)
(* comes first.  Everything else is one step for each statement.  As in    *)
(* CommissionRuns, req[q] is the request served in slot q and its pc names *)
(* what it does next.                                                      *)
(*                                                                         *)
(* A phase is linked to its invoice before either is used, and stays so.   *)
(* net_payable plays no part here.                                         *)
(***************************************************************************)
EXTENDS CommissionRecords

CONSTANTS Phases,        \* ids of billing phases
          PhasesOf,      \* the phases of a placement
          PhaseOf,       \* billing_phase_id of a record, or None
          Invoices,      \* ids of invoices
          InvoiceOf,     \* invoice_id of a phase, or None
          BilledTo,      \* placement_id of an invoice
          Targets,       \* the statuses that clients ask for
          Requests,      \* slots for the requests being served
          None,          \* NULL
          Imports,       \* TRUE: invoices are also imported from CSV files
          Failures       \* TRUE: a statement may throw

INVOICE_STATES == {"Issued", "PartiallyPaid", "Paid", "Disputed", "WrittenOff",
                   "CreditMemoApplied"}

ASSUME PhasesAssumption ==
         /\ PhasesOf \in [Placements -> SUBSET Phases]
         /\ PhaseOf \in [Records -> Phases \cup {None}]
         /\ InvoiceOf \in [Phases -> Invoices \cup {None}]
ASSUME InvoicesAssumption == /\ BilledTo \in [Invoices -> Placements]
                             /\ Targets \subseteq INVOICE_STATES
ASSUME NoneAssumption == None \notin Records \cup Phases \cup Invoices \cup Placements
ASSUME SwitchAssumption == Imports \in BOOLEAN /\ Failures \in BOOLEAN

VARIABLES invoice,     \* status of each invoice
          collectedAt, \* the invoices with collected_at set
          period,      \* status of the guarantee period of each placement
          over,        \* the placements whose guarantee_ends has passed
          placement,   \* status of each placement
          inWindow,    \* records whose explanation says that the guarantee
                       \* window holds them
          adjusted,    \* number of clawback adjustments of each record
          journal,     \* number of commission_journal rows of each record
          req

tables == <<recs, invoice, collectedAt, period, over, placement, inWindow,
            adjusted, journal>>
vars == <<recs, invoice, collectedAt, period, over, placement, inWindow,
          adjusted, journal, req>>

Steps == {"idle", "updateInvoice", "releaseGate", "selectPhases", "releasePhases",
          "payPhase", "journal", "releaseImport", "nextPhase", "resolve", "insert",
          "expire", "trigger"}

Answers == {"unknown", "yes", "no"}

Request == [pc : Steps, inv : Invoices \cup {None}, to : Targets \cup {None},
            place : Placements \cup {None}, phase : Phases \cup {None},
            phases : SUBSET Phases, seen : SUBSET Records,
            collected : Answers, inside : Answers]

TypeOK ==
  /\ RecordsTypeOK
  /\ invoice \in [Invoices -> INVOICE_STATES \cup {"absent"}]
  /\ collectedAt \subseteq Invoices
  /\ period \in [Placements -> {"none", "Active", "ExpiredClean", "Triggered"}]
  /\ over \subseteq Placements
  /\ placement \in [Placements -> {"Active", "GuaranteeActive", "GuaranteeExpired"}]
  /\ inWindow \subseteq Records
  /\ adjusted \in [Records -> Nat]
  /\ journal \in [Records -> Nat]
  /\ req \in [Requests -> Request]

Idle == [pc |-> "idle", inv |-> None, to |-> None, place |-> None, phase |-> None,
         phases |-> {}, seen |-> {}, collected |-> "unknown", inside |-> "unknown"]

Init == /\ RecordsInit
        /\ invoice = [i \in Invoices |-> "absent"]
        /\ collectedAt = {}
        /\ period = [p \in Placements |-> "none"]
        /\ over = {}
        /\ placement = [p \in Placements |-> "Active"]
        /\ inWindow = {}
        /\ adjusted = [r \in Records |-> 0]
        /\ journal = [r \in Records |-> 0]
        /\ req = [q \in Requests |-> Idle]

At(q, pc) == req[q].pc = pc

Receive(q, request) == /\ At(q, "idle")
                       /\ req' = [req EXCEPT ![q] = request]

Goto(q, pc) == req' = [req EXCEPT ![q].pc = pc]

Return(q) == req' = [req EXCEPT ![q] = Idle]

InvoicesOf(p) == {i \in Invoices : BilledTo[i] = p /\ invoice[i] # "absent"}

WindowOpen(p) == period[p] = "Active" /\ p \notin over

-----------------------------------------------------------------------------
(* POST /invoices, PATCH /invoices/:id and POST /invoices/import *)

CreateInvoice(i) ==
  /\ invoice[i] = "absent"
  /\ invoice' = [invoice EXCEPT ![i] = "Issued"]
  /\ UNCHANGED <<recs, collectedAt, period, over, placement, inWindow, adjusted,
                 journal, req>>

VALID_TRANSITIONS ==
  [s \in INVOICE_STATES |->
     CASE s = "Issued" -> {"PartiallyPaid", "Paid", "Disputed", "WrittenOff",
                           "CreditMemoApplied"}
       [] s = "PartiallyPaid" -> {"Paid", "Disputed", "WrittenOff",
                                  "CreditMemoApplied"}
       [] s = "Disputed" -> {"Issued", "WrittenOff"}
       [] OTHER -> {}]

(* A PATCH with the status the invoice has already passes. *)
MayBecome(from, s) ==
  from # "absent" /\ (s = from \/ s \in VALID_TRANSITIONS[from])

UpdateInvoiceRequest(q, i, s) ==
  /\ MayBecome(invoice[i], s)
  /\ Receive(q, [Idle EXCEPT !.pc = "updateInvoice", !.inv = i, !.to = s])
  /\ UNCHANGED tables

SetInvoice(i, s) ==
  /\ invoice' = [invoice EXCEPT ![i] = s]
  /\ collectedAt' = IF s = "Paid" THEN collectedAt \cup {i} ELSE collectedAt

(* The UPDATE names the invoice by id only. *)
UpdateInvoice(q) ==
  /\ At(q, "updateInvoice")
  /\ SetInvoice(req[q].inv, req[q].to)
  /\ IF req[q].to = "Paid" THEN Goto(q, "releaseGate") ELSE Return(q)
  /\ UNCHANGED <<recs, period, over, placement, inWindow, adjusted, journal>>

(* Mutant: the handler returns before it comes to the phases. *)
ReleaseGateOnly(q) ==
  /\ At(q, "releaseGate")
  /\ recs' = releaseCollectionGate(BilledTo[req[q].inv])
  /\ Return(q)
  /\ UNCHANGED <<invoice, collectedAt, period, over, placement, inWindow, adjusted,
                 journal>>

(* If this throws the handler goes on with the phases. *)
ReleaseGate(q) ==
  /\ At(q, "releaseGate")
  /\ \/ recs' = releaseCollectionGate(BilledTo[req[q].inv])
     \/ Failures /\ UNCHANGED recs
  /\ Goto(q, "selectPhases")
  /\ UNCHANGED <<invoice, collectedAt, period, over, placement, inWindow, adjusted,
                 journal>>

SelectPhases(q) ==
  /\ At(q, "selectPhases")
  /\ req' = [req EXCEPT ![q].pc = "releasePhases",
                        ![q].phases = {ph \in Phases : InvoiceOf[ph] = req[q].inv}]
  /\ UNCHANGED tables

PhaseHeld(ph) ==
  HeldFor({r \in Records : PhaseOf[r] = ph}, "held_pending_phase_invoice")

(* releasePhaseCollectionGate, for the phases one after the other.          *)
SelectHeld(q) ==
  /\ At(q, "releasePhases")
  /\ \/ \E ph \in req[q].phases :
          req' = [req EXCEPT ![q].phases = @ \ {ph}, ![q].seen = PhaseHeld(ph),
                             ![q].pc = IF PhaseHeld(ph) = {} THEN @ ELSE "payPhase"]
     \/ req[q].phases = {} /\ Return(q)
  /\ UNCHANGED tables

PayPhase(q) ==
  /\ At(q, "payPhase")
  /\ recs' = PayListed(req[q].seen)
  /\ Goto(q, "journal")
  /\ UNCHANGED <<invoice, collectedAt, period, over, placement, inWindow, adjusted,
                 journal>>

WriteJournal(q) ==
  /\ At(q, "journal")
  /\ \E r \in req[q].seen :
       /\ journal' = [journal EXCEPT ![r] = @ + 1]
       /\ req' = [req EXCEPT ![q].seen = @ \ {r},
                             ![q].pc = IF req[q].seen = {r} THEN "releasePhases" ELSE @]
  /\ UNCHANGED <<recs, invoice, collectedAt, period, over, placement, inWindow,
                 adjusted>>

(* ON CONFLICT it takes the status of the file, whatever the invoice was.   *)
UpsertInvoiceByNumber(i, s) ==
  /\ invoice' = [invoice EXCEPT ![i] = s]
  /\ collectedAt' = IF s = "Paid" THEN collectedAt \cup {i} ELSE collectedAt

(* A row of a CSV file: the upsert knows no transitions. *)
ImportInvoice(q, i, s) ==
  /\ Imports
  /\ UpsertInvoiceByNumber(i, s)
  /\ IF s = "Paid"
       THEN Receive(q, [Idle EXCEPT !.pc = "releaseImport", !.inv = i])
       ELSE At(q, "idle") /\ UNCHANGED req
  /\ UNCHANGED <<recs, period, over, placement, inWindow, adjusted, journal>>

ReleaseImport(q) ==
  /\ At(q, "releaseImport")
  /\ \/ recs' = releaseCollectionGate(BilledTo[req[q].inv])
     \/ Failures /\ UNCHANGED recs
  /\ Return(q)
  /\ UNCHANGED <<invoice, collectedAt, period, over, placement, inWindow, adjusted,
                 journal>>

-----------------------------------------------------------------------------
(* POST /placements/:id/calculate and /calculate-phases *)

CalculateRequest(q, p) ==
  /\ placement[p] = "Active"
  /\ Receive(q, [Idle EXCEPT !.pc = "resolve", !.place = p])
  /\ UNCHANGED tables

CalculatePhasesRequest(q, p) ==
  /\ placement[p] = "Active" /\ PhasesOf[p] # {}
  /\ Receive(q, [Idle EXCEPT !.pc = "nextPhase", !.place = p, !.phases = PhasesOf[p]])
  /\ UNCHANGED tables

NextPhase(q) ==
  /\ At(q, "nextPhase")
  /\ \/ \E ph \in req[q].phases :
          req' = [req EXCEPT ![q].phases = @ \ {ph}, ![q].phase = ph,
                             ![q].pc = "resolve",
                             ![q].collected = "unknown", ![q].inside = "unknown"]
     \/ req[q].phases = {} /\ Return(q)
  /\ UNCHANGED tables

Answer(b) == IF b THEN "yes" ELSE "no"

(* Mutant: a placement without invoices has no invoice that is not paid. *)
NoneUnpaid(p, ph) ==
  IF ph = None THEN \A i \in InvoicesOf(p) : invoice[i] = "Paid"
               ELSE InvoiceOf[ph] # None /\ invoice[InvoiceOf[ph]] = "Paid"

(* All invoices of the placement, phase invoices among them, and at least   *)
(* one; or the invoice of the phase.                                        *)
IsCollected(p, ph) ==
  IF ph = None
    THEN InvoicesOf(p) # {} /\ \A i \in InvoicesOf(p) : invoice[i] = "Paid"
    ELSE InvoiceOf[ph] # None /\ invoice[InvoiceOf[ph]] = "Paid"

ResolveInvoices(q) ==
  /\ At(q, "resolve") /\ req[q].collected = "unknown"
  /\ req' = [req EXCEPT ![q].collected = Answer(IsCollected(req[q].place, req[q].phase))]
  /\ UNCHANGED tables

(* The two queries are awaited together, but for a phase.                   *)
ResolveWindow(q) ==
  /\ At(q, "resolve") /\ req[q].inside = "unknown"
  /\ req[q].phase # None => req[q].collected # "unknown"
  /\ req' = [req EXCEPT ![q].inside = Answer(WindowOpen(req[q].place))]
  /\ UNCHANGED tables

Resolved(q) ==
  /\ At(q, "resolve")
  /\ req[q].collected # "unknown" /\ req[q].inside # "unknown"
  /\ Goto(q, "insert")
  /\ UNCHANGED tables

(* The collection gate comes first when both hold the record.               *)
HoldReason(q) ==
  CASE req[q].collected = "no" /\ req[q].phase = None -> "collection_gate"
    [] req[q].collected = "no" /\ req[q].phase # None -> "held_pending_phase_invoice"
    [] req[q].collected = "yes" /\ req[q].inside = "yes" -> "guarantee_hold"
    [] OTHER -> "none"

(* One record for each contributor.  Nothing keeps a second calculation     *)
(* from inserting them again.                                               *)
InsertRecord(q, r) ==
  /\ At(q, "insert")
  /\ ~Exists(r) /\ PlacementOf[r] = req[q].place /\ PhaseOf[r] = req[q].phase
  /\ recs' = createCommissionRecord(
               r, IF HoldReason(q) = "none" THEN "Accrued" ELSE "Held", HoldReason(q))
  /\ inWindow' = IF req[q].inside = "yes" THEN inWindow \cup {r} ELSE inWindow
  /\ UNCHANGED <<invoice, collectedAt, period, over, placement, adjusted, journal, req>>

(* The last contributor, or one without an active plan (422). *)
EndContributors(q) ==
  /\ At(q, "insert")
  /\ Return(q) \/ (req[q].phase # None /\ Goto(q, "nextPhase"))
  /\ UNCHANGED tables

-----------------------------------------------------------------------------
(* The guarantee window *)

(* guarantee_expired_recalc: the scan found the window over, and the task   *)
(* finds the period Active.                                                 *)
ExpireRequest(q, p) ==
  /\ period[p] = "Active" /\ p \in over
  /\ Receive(q, [Idle EXCEPT !.pc = "expire", !.place = p])
  /\ UNCHANGED tables

(* Mutant: the placement gets the status of the period. *)
AdvanceLikePeriod(p) ==
  placement' = [placement EXCEPT ![p] = IF @ = "GuaranteeActive"
                                          THEN "ExpiredClean" ELSE @]

AdvancePlacement(p) ==
  placement' = [placement EXCEPT ![p] = IF @ = "GuaranteeActive"
                                          THEN "GuaranteeExpired" ELSE @]

Expire(q) ==
  /\ At(q, "expire")
  /\ LET p == req[q].place
     IN IF period[p] = "Active"
          THEN /\ period' = [period EXCEPT ![p] = "ExpiredClean"]
               /\ AdvancePlacement(p)
               /\ recs' = releaseHeldCommissionRecordsForPlacement(p)
          ELSE UNCHANGED <<period, placement, recs>>
  /\ Return(q)
  /\ UNCHANGED <<invoice, collectedAt, over, inWindow, adjusted, journal>>

(* POST /placements/:id/clawback *)
TriggerRequest(q, p) ==
  /\ WindowOpen(p)
  /\ Receive(q, [Idle EXCEPT !.pc = "trigger", !.place = p])
  /\ UNCHANGED tables

(* The rules clawback and holdback post an adjustment to each record of the *)
(* placement, whatever its status.                                          *)
PostAdjustments(p) ==
  adjusted' = [r \in Records |-> IF r \in RecordsOf(p) THEN adjusted[r] + 1
                                                       ELSE adjusted[r]]

(* If the period is not Active any more the transaction is rolled back.     *)
Trigger(q) ==
  /\ At(q, "trigger")
  /\ LET p == req[q].place
     IN IF period[p] = "Active"
          THEN /\ period' = [period EXCEPT ![p] = "Triggered"]
               /\ recs' = holdCommissionRecordsForClawback(p)
               /\ PostAdjustments(p) \/ UNCHANGED adjusted
          ELSE UNCHANGED <<period, recs, adjusted>>
  /\ Return(q)
  /\ UNCHANGED <<invoice, collectedAt, over, placement, inWindow, journal>>

(* A statement throws, or the server stops. *)
Fail(q) ==
  /\ Failures /\ ~At(q, "idle")
  /\ Return(q)
  /\ UNCHANGED tables

-----------------------------------------------------------------------------
(* The rest of the system: a period begins (no code in src/ inserts one)    *)
(* and runs out, a placement is patched, a run approves a record.           *)
PeriodBegins(p) ==
  /\ period[p] = "none"
  /\ period' = [period EXCEPT ![p] = "Active"]
  /\ UNCHANGED <<recs, invoice, collectedAt, over, placement, inWindow, adjusted,
                 journal, req>>

PeriodEnds(p) ==
  /\ period[p] = "Active" /\ p \notin over
  /\ over' = over \cup {p}
  /\ UNCHANGED <<recs, invoice, collectedAt, period, placement, inWindow, adjusted,
                 journal, req>>

PatchPlacement(p) ==
  /\ placement[p] = "Active"
  /\ placement' = [placement EXCEPT ![p] = "GuaranteeActive"]
  /\ UNCHANGED <<recs, invoice, collectedAt, period, over, inWindow, adjusted,
                 journal, req>>

ApproveInRun(r) ==
  /\ recs[r].status = "Accrued"
  /\ recs' = ApprovePending({r})
  /\ UNCHANGED <<invoice, collectedAt, period, over, placement, inWindow, adjusted,
                 journal, req>>

Bill(q) == \/ \E i \in Invoices, s \in Targets :
                UpdateInvoiceRequest(q, i, s) \/ ImportInvoice(q, i, s)
           \/ UpdateInvoice(q)
           \/ ReleaseGate(q)
           \/ SelectPhases(q)
           \/ SelectHeld(q)
           \/ PayPhase(q)
           \/ WriteJournal(q)
           \/ ReleaseImport(q)

Calculate(q) == \/ \E p \in Placements :
                     CalculateRequest(q, p) \/ CalculatePhasesRequest(q, p)
                \/ NextPhase(q)
                \/ ResolveInvoices(q)
                \/ ResolveWindow(q)
                \/ Resolved(q)
                \/ \E r \in Records : InsertRecord(q, r)
                \/ EndContributors(q)

Guarantee(q) == \/ \E p \in Placements : ExpireRequest(q, p) \/ TriggerRequest(q, p)
                \/ Expire(q)
                \/ Trigger(q)

Surroundings == \/ \E i \in Invoices : CreateInvoice(i)
                \/ \E p \in Placements :
                     PeriodBegins(p) \/ PeriodEnds(p) \/ PatchPlacement(p)
                \/ \E r \in Records : ApproveInRun(r)

Next == \/ \E q \in Requests : Bill(q) \/ Calculate(q) \/ Guarantee(q) \/ Fail(q)
        \/ Surroundings

Spec == Init /\ [][Next]_vars

-----------------------------------------------------------------------------
(* What the component promises. *)

(* The invoices whose payment the record waits for. *)
Payers(r) == IF PhaseOf[r] = None THEN {i \in Invoices : BilledTo[i] = PlacementOf[r]}
                                  ELSE {InvoiceOf[PhaseOf[r]]} \ {None}

Gated(r) == recs[r].status = "Held" /\
            recs[r].hold \in {"collection_gate", "held_pending_phase_invoice"}

(* No commission passes the collection gate unless an invoice it waits for  *)
(* has been collected, and a paid retainer releases no delivery commission: *)
(* whatever is read too early, retried, imported or fails.                  *)
GateBacked ==
  \A r \in Records :
    Exists(r) => \/ Gated(r)
                 \/ recs[r].status = "ClawbackInitiated"
                 \/ Payers(r) \cap collectedAt # {}

(* How a guarantee period ended is final.  Its expiry and its clawback      *)
(* exclude each other, however close they come (expireGuaranteePeriodClean  *)
(* and triggerGuaranteePeriod), and no release gives a contingency          *)
(* commission back that a clawback took (releaseCollectionGate).            *)
OutcomeFinal ==
  [][/\ \A p \in Placements : period[p] \in {"ExpiredClean", "Triggered"} =>
                                period'[p] = period[p]
     /\ \A r \in Records : PhaseOf[r] = None /\ recs[r].status = "ClawbackInitiated" =>
                             recs'[r].status = "ClawbackInitiated"]_vars

(* A clawback is charged to a record once, although any number of admins    *)
(* trigger it at the same moment (handleTriggerClawback).                   *)
ChargedOnce == \A r \in Records : adjusted[r] <= 1

(* Money moves only for a reason, and once: out of the gate for an invoice  *)
(* that was collected, back by one clawback.                                *)
HoldsSound == GateBacked /\ ChargedOnce

Quiet == \A q \in Requests : At(q, "idle")

(* Once all invoices of a placement are paid, none of its commissions waits *)
(* for them (handleUpdateInvoice against handleCalculateCommission).        *)
PaidReleases ==
  Quiet => \A r \in Records :
             LET I == InvoicesOf(PlacementOf[r])
             IN recs[r].hold = "collection_gate" =>
                  I = {} \/ \E i \in I : invoice[i] # "Paid"

(* Commission of a phase is not held once the invoice of the phase is Paid. *)
PhasePaidReleases ==
  Quiet => \A r \in Records :
             /\ recs[r].hold = "held_pending_phase_invoice"
             /\ InvoiceOf[PhaseOf[r]] # None
             => invoice[InvoiceOf[PhaseOf[r]]] # "Paid"

(* When a guarantee period has expired cleanly it holds no record.          *)
ExpiredReleases ==
  Quiet => \A r \in Records : recs[r].hold = "guarantee_hold" =>
                                period[PlacementOf[r]] # "ExpiredClean"

(* A release finds the record Held (releasePhaseCollectionGate).            *)
ReleasesHeld ==
  [][\A r \in Records : recs[r].status # "Payable" /\ recs'[r].status = "Payable" =>
                          recs[r].status = "Held"]_vars

(* An invoice moves along VALID_TRANSITIONS (handleUpdateInvoice).          *)
TransitionsValid ==
  [][\A i \in Invoices : invoice[i] \notin {"absent", invoice'[i]} =>
                           invoice'[i] \in VALID_TRANSITIONS[invoice[i]]]_vars

-----------------------------------------------------------------------------
(* What the documentation promises and the code does not do. *)

(* The guarantee window overrides the collection gate: a commission that it *)
(* holds is not released before its end.                                    *)
WindowOverridesGate ==
  [][\A r \in inWindow : WindowOpen(PlacementOf[r]) /\ recs[r].status = "Held" =>
                           recs'[r].status # "Payable"]_vars

(* Each release of phase commission has its row in the journal.             *)
ReleaseJournaled ==
  Quiet => \A r \in Records \ inWindow :
             PhaseOf[r] # None /\ recs[r].status = "Payable" => journal[r] > 0

(* A clawback takes over what is Payable or Approved too.                   *)
ClawbackTakesApproved ==
  [][\A p \in Placements : period[p] = "Active" /\ period'[p] = "Triggered" =>
       \A r \in RecordsOf(p) : recs'[r].status = "ClawbackInitiated"]_vars
=============================================================================
