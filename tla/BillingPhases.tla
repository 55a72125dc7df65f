----------------------------- MODULE BillingPhases -----------------------------
(***************************************************************************)
(* The billing phases of a retained placement: which contributors are      *)
(* credited on which phase, which invoice collects it, and the commission  *)
(* that is calculated for it.  It shares placements and contributors with  *)
(* Placements: a phase refers to contributors that requests there add and  *)
(* remove, and the link of a phase to its invoice can change while         *)
(* commission waits for it.                                                *)
(*                                                                         *)
(* The statements of one release, and the holds of the guarantee window,   *)
(* are left to CommissionHolds: here a release is one step.                *)
(***************************************************************************)
EXTENDS Placements

CONSTANTS Phases,        \* ids of billing phases: UNIQUE (placement_id, phase_name)
          Invoices,      \* ids of invoices
          Records,       \* ids of commission records
          Bills          \* slots for the requests being served here

ASSUME PhasesAssumption == Phases \subseteq Placements \X {"retainer", "delivery"}
ASSUME InvoicesAssumption == None \notin Invoices
ASSUME PhaseScenesAssumption ==
  \A scene \in Scenes :
    /\ scene.links \in [Phases -> Invoices \cup {None, "absent"}]
    /\ scene.credits \subseteq Phases \X Contributors
    /\ \A credit \in scene.credits :
         /\ scene.links[credit[1]] # "absent"
         /\ scene.splits[credit[2]] \notin {None, Deleted}
         /\ scene.splits[credit[2]].place = credit[1][1]

VARIABLES link,        \* billing_phases: invoice_id, or "absent"
          credited,    \* phase_contributors, <<phase, contributor>>
          paid,        \* the invoices that were paid
          commission,  \* commission_records of the phases
          bill,
          linked       \* history: each link there ever was, <<phase, invoice>>

phaseTables == <<link, credited, paid, commission>>
phaseVars == <<link, credited, paid, commission, bill, linked>>

Record == [phase : Phases, contributor : Contributors,
           status : {"Held", "Accrued", "Payable"}]

Bill == [pc : {"idle", "insertCredit", "nextPhase", "readInvoice", "insertRecords",
               "selectPhases", "releasePhases"},
         phase : Phases \cup {None}, contributor : Contributors \cup {None},
         invoice : Invoices \cup {None}, todo : SUBSET Phases,
         links : [Phases -> Invoices \cup {None, "absent"}],
         payees : SUBSET Contributors, collected : BOOLEAN]

PhasesTypeOK ==
  /\ link \in [Phases -> Invoices \cup {None, "absent"}]
  /\ credited \subseteq Phases \X Contributors
  /\ paid \subseteq Invoices
  /\ commission \in [Records -> Record \cup {None}]
  /\ bill \in [Bills -> Bill]
  /\ linked \subseteq Phases \X Invoices

NoLinks == [ph \in Phases |-> "absent"]

NoBill == [pc |-> "idle", phase |-> None, contributor |-> None, invoice |-> None,
           todo |-> {}, links |-> NoLinks, payees |-> {}, collected |-> FALSE]

PhasesInit(scene) ==
  /\ link = scene.links
  /\ credited = scene.credits
  /\ paid = {}
  /\ commission = [r \in Records |-> None]
  /\ bill = [q \in Bills |-> NoBill]
  /\ linked = {l \in Phases \X Invoices : scene.links[l[1]] = l[2]}

InStep(q, pc) == bill[q].pc = pc

Start(q, request) == /\ InStep(q, "idle")
                     /\ bill' = [bill EXCEPT ![q] = request]

Step(q, pc) == bill' = [bill EXCEPT ![q].pc = pc]

End(q) == bill' = [bill EXCEPT ![q] = NoBill]

PhaseExists(ph) == link[ph] # "absent"

-----------------------------------------------------------------------------
(* POST and PATCH /placements/:id/billing-phases *)

SetLink(ph, i) == /\ link' = [link EXCEPT ![ph] = i]
                  /\ linked' = IF i = None THEN linked ELSE linked \cup {<<ph, i>>}
                  /\ UNCHANGED <<placementVars, credited, paid, commission, bill>>

(* The INSERT; UNIQUE (placement_id, phase_name). *)
InsertPhase(ph, i) == ~PhaseExists(ph) /\ SetLink(ph, i)

(* 409 for a second phase of the same name. *)
CreateBillingPhase(ph, i) ==
  /\ "createPhase" \in desk
  /\ PlacementExists(ph[1])
  /\ InsertPhase(ph, i)

(* Whatever the phase was linked to, and whatever waits for that.           *)
UpdateBillingPhase(ph, i) ==
  /\ "link" \in desk
  /\ PhaseExists(ph)
  /\ SetLink(ph, i)

-----------------------------------------------------------------------------
(* POST /placements/:id/billing-phases/:phaseId/contributors *)

CreditRequest(q, ph, c) ==
  /\ "credit" \in desk
  /\ PhaseExists(ph) /\ c \in ContributorsOf(ph[1])
  /\ Start(q, [NoBill EXCEPT !.pc = "insertCredit", !.phase = ph, !.contributor = c])
  /\ UNCHANGED <<placementVars, phaseTables, linked>>

(* The foreign key refuses a contributor that was deleted meanwhile.        *)
InsertCredit(q) ==
  /\ InStep(q, "insertCredit")
  /\ LET c == bill[q].contributor
     IN IF Assigned(c)
          THEN /\ credited' = credited \cup {<<bill[q].phase, c>>}
               /\ referenced' = referenced \cup {c}
          ELSE UNCHANGED <<credited, referenced>>
  /\ End(q)
  /\ UNCHANGED <<row, split, timeline, flagAudit, req, desk, finalized, disturbed,
                 link, paid, commission, linked>>

-----------------------------------------------------------------------------
(* POST /placements/:id/calculate-phases *)

(* The phases are read once, with their links. *)
CalculateRequest(q, p) ==
  LET phases == {ph \in Phases : ph[1] = p /\ PhaseExists(ph)}
  IN /\ "calculate" \in desk
     /\ row[p].status = "Active" /\ phases # {}
     /\ Start(q, [NoBill EXCEPT !.pc = "nextPhase", !.todo = phases,
                    !.links = [ph \in Phases |-> IF ph \in phases THEN link[ph]
                                                                  ELSE "absent"]])
     /\ UNCHANGED <<placementVars, phaseTables, linked>>

ListPhaseContributors(q) ==
  /\ InStep(q, "nextPhase")
  /\ \/ \E ph \in bill[q].todo :
          bill' = [bill EXCEPT ![q].todo = @ \ {ph}, ![q].phase = ph,
                               ![q].payees = {c \in Contributors : <<ph, c>> \in credited},
                               ![q].pc = "readInvoice"]
     \/ bill[q].todo = {} /\ End(q)
  /\ UNCHANGED <<placementVars, phaseTables, linked>>

(* A phase that is linked to no invoice is not collected. *)
ReadInvoice(q) ==
  /\ InStep(q, "readInvoice")
  /\ bill' = [bill EXCEPT ![q].collected = bill[q].links[bill[q].phase] \in paid,
                          ![q].links[bill[q].phase] = "absent",
                          ![q].pc = "insertRecords"]
  /\ UNCHANGED <<placementVars, phaseTables, linked>>

InsertRecord(q, r) ==
  /\ InStep(q, "insertRecords")
  /\ commission[r] = None
  /\ \E c \in bill[q].payees :
       /\ commission' = [commission EXCEPT ![r] =
            [phase |-> bill[q].phase, contributor |-> c,
             status |-> IF bill[q].collected THEN "Accrued" ELSE "Held"]]
       /\ referenced' = referenced \cup {c}
       /\ bill' = [bill EXCEPT ![q].payees = @ \ {c}]
  /\ UNCHANGED <<row, split, timeline, flagAudit, req, desk, finalized, disturbed,
                 link, credited, paid, linked>>

PhaseDone(q) ==
  /\ InStep(q, "insertRecords") /\ bill[q].payees = {}
  /\ Step(q, "nextPhase")
  /\ UNCHANGED <<placementVars, phaseTables, linked>>

-----------------------------------------------------------------------------
(* PATCH /invoices/:id with status Paid, as far as phases are concerned *)

PayInvoice(q, i) ==
  /\ "pay" \in desk
  /\ Start(q, [NoBill EXCEPT !.pc = "selectPhases", !.invoice = i])
  /\ paid' = paid \cup {i}
  /\ UNCHANGED <<placementVars, link, credited, commission, linked>>

(* Mutant: the phases are not selected by their invoice. *)
SelectAllPhases(q) ==
  /\ InStep(q, "selectPhases")
  /\ bill' = [bill EXCEPT ![q].todo = {ph \in Phases : PhaseExists(ph)},
                          ![q].pc = "releasePhases"]
  /\ UNCHANGED <<placementVars, phaseTables, linked>>

SelectPhases(q) ==
  /\ InStep(q, "selectPhases")
  /\ bill' = [bill EXCEPT ![q].todo = {ph \in Phases : link[ph] = bill[q].invoice},
                          ![q].pc = "releasePhases"]
  /\ UNCHANGED <<placementVars, phaseTables, linked>>

ReleasePhase(q) ==
  /\ InStep(q, "releasePhases")
  /\ \/ \E ph \in bill[q].todo :
          /\ commission' = [r \in Records |->
               IF commission[r] # None /\ commission[r].phase = ph
                                       /\ commission[r].status = "Held"
                 THEN [commission[r] EXCEPT !.status = "Payable"]
                 ELSE commission[r]]
          /\ bill' = [bill EXCEPT ![q].todo = @ \ {ph}]
     \/ bill[q].todo = {} /\ End(q) /\ UNCHANGED commission
  /\ UNCHANGED <<placementVars, link, credited, paid, linked>>

(* A statement throws, no plan is found for a contributor (422), or the     *)
(* server stops.                                                            *)
BreakOff(q) ==
  /\ ~InStep(q, "idle")
  /\ End(q)
  /\ UNCHANGED <<placementVars, phaseTables, linked>>

PhasesNext ==
  \/ \E ph \in Phases, i \in Invoices \cup {None} :
       CreateBillingPhase(ph, i) \/ UpdateBillingPhase(ph, i)
  \/ \E q \in Bills :
       \/ \E ph \in Phases, c \in Contributors : CreditRequest(q, ph, c)
       \/ InsertCredit(q)
       \/ \E p \in Placements : CalculateRequest(q, p)
       \/ ListPhaseContributors(q) \/ ReadInvoice(q)
       \/ \E r \in Records : InsertRecord(q, r)
       \/ PhaseDone(q)
       \/ \E i \in Invoices : PayInvoice(q, i)
       \/ SelectPhases(q) \/ ReleasePhase(q) \/ BreakOff(q)

Init == \E scene \in Scenes : PlacementsInit(scene) /\ PhasesInit(scene)

vars == <<placementVars, phaseVars>>

Next == \/ PlacementsNext /\ UNCHANGED phaseVars
        \/ PhasesNext

Spec == Init /\ [][Next]_vars

-----------------------------------------------------------------------------
(* What the two components promise together. *)

TypeOK == PlacementsTypeOK /\ PhasesTypeOK

(* Who is credited on a phase is a contributor of its placement and stays   *)
(* one, although contributors are deleted, or undone by a finalize that     *)
(* fails, after the phase request has looked (handleCreatePhaseContributor  *)
(* against handleDeleteContributor).                                        *)
CreditsValid ==
  \A credit \in credited :
    Assigned(credit[2]) /\ split[credit[2]].place = credit[1][1]

(* A contributor who is credited on the delivery alone accrues nothing for  *)
(* the retainer, and the other way round (handleCalculatePhaseCommissions). *)
PhaseCredited ==
  \A r \in Records : commission[r] # None =>
    <<commission[r].phase, commission[r].contributor>> \in credited

(* Commission of a phase leaves the gate only for an invoice that the phase *)
(* was linked to and that was paid, however the link is changed between the *)
(* calculation, the payment and the release.                                *)
ReleasedByLinked ==
  \A r \in Records : commission[r] # None /\ commission[r].status # "Held" =>
    \E i \in paid : <<commission[r].phase, i>> \in linked

(* Commission of a phase goes to those who are credited on it, and is       *)
(* released by the invoice of that phase.                                   *)
PhasesSound == CreditsValid /\ PhaseCredited /\ ReleasedByLinked

(* What is stored of a placement agrees with itself and with what is stored *)
(* of its phases, although requests to both overlap.                        *)
TablesAgree == PlacementsSound /\ PhasesSound

-----------------------------------------------------------------------------
(* What does not hold: a phase that is linked to a paid invoice, when its   *)
(* commission was held for another, is not released by that.                *)
PaidPhaseReleased ==
  (\A q \in Bills : InStep(q, "idle")) =>
    \A r \in Records : commission[r] # None /\ commission[r].status = "Held" =>
                         link[commission[r].phase] \notin paid
=============================================================================
