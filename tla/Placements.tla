------------------------------ MODULE Placements ------------------------------
(***************************************************************************)
(* Placements from their creation to the approval of their attribution: a  *)
(* Finance Admin creates, imports and patches them, contributors with      *)
(* their splits are added and removed, the attribution is submitted and a  *)
(* Manager approves or rejects it.                                         *)
(*                                                                         *)
(* As in CommissionRuns each statement is one step, and req[q] is the      *)
(* request served in slot q.  A request is received together with its      *)
(* first SELECT and the checks on what that returned; what the handler     *)
(* computed from it stays in the request until a statement writes it.      *)
(***************************************************************************)
EXTENDS Integers, Sequences, FiniteSetsExt

CONSTANTS Placements,    \* ids of placements
          Contributors,  \* ids of contributors
          Dates,         \* start dates, as day numbers
          Spans,         \* guarantee_days
          Splits,        \* split_pct, in units of 1/Whole
          Whole,         \* 100 %
          Tolerance,     \* by how much a split total may be off
          Bodies,        \* bodies of PATCH /placements/:id
          Scenes,        \* where a behaviour begins: the rows there are, and
                         \* the operations that clients use on them
          MaxEvents,     \* bound on the timeline of a placement
          Requests,      \* slots for the requests being served
          None,          \* NULL
          Absent,        \* a property that the body does not have
          Deleted        \* in place of a contributor that was deleted

Statuses == {"Created", "ContributorsAssigned", "PendingApproval", "Active", "Closed"}

Events == {"Submitted", "Approved", "Rejected"}

Body == [start : Dates \cup {None, Absent}, days : Spans \cup {None, Absent},
         status : Statuses \cup {Absent}, confidential : BOOLEAN \cup {Absent}]

ASSUME DatesAssumption == Dates \subseteq Nat /\ Spans \subseteq Int
ASSUME SplitsAssumption == /\ Splits \subseteq 1..Whole
                           /\ Whole \in Nat /\ Tolerance \in Nat
                           /\ IsFiniteSet(Contributors)
ASSUME BodiesAssumption == Bodies \subseteq Body
ASSUME NullAssumption == /\ None \notin Int \cup Placements \cup Contributors \cup Events
                         /\ Absent \notin Dates \cup Spans \cup {None}
                         /\ Deleted # None
                         /\ {None, Deleted} \cap [place : Placements, pct : Splits] = {}
ASSUME EventsAssumption == MaxEvents \in Nat

VARIABLES row,          \* placements; status "absent": no such row
          split,        \* contributors: placement and split_pct, None or Deleted
          referenced,   \* contributors that rows of other tables refer to
          timeline,     \* attribution_events of each placement
          flagAudit,    \* audited changes of is_confidential, <<before, after>>
          req,
          desk,         \* the operations that the clients of this behaviour use
          finalized,    \* history: contributors accepted with finalize
          disturbed     \* history: placements whose attribution was interfered with

tables == <<row, split, timeline, flagAudit>>
placementVars == <<row, split, referenced, timeline, flagAudit, req, desk,
                   finalized, disturbed>>

Row == [status : Statuses \cup {"absent"}, start : Dates \cup {None},
        days : Spans \cup {None}, expiry : Int \cup {None}, confidential : BOOLEAN]

(* A scene is what requests that were served before have left behind; links *)
(* and credits are those of BillingPhases.                                  *)
ASSUME ScenesAssumption ==
  \A scene \in Scenes :
    /\ scene.rows \in [Placements -> Row]
    /\ scene.splits \in [Contributors -> [place : Placements, pct : Splits] \cup {None}]
    /\ \A p \in Placements : scene.rows[p].start = None \/ scene.rows[p].days = None

Request == [pc : {"idle", "importRow", "updateRow", "auditFlag", "updateStatus",
                  "insertEvent", "sumSplits", "undoSplit"},
            place : Placements \cup {None}, body : Bodies \cup {None},
            expiry : Int \cup {None}, before : BOOLEAN,
            event : Events \cup {None}, contributor : Contributors \cup {None}]

PlacementsTypeOK ==
  /\ row \in [Placements -> Row]
  /\ split \in [Contributors -> [place : Placements, pct : Splits]
                                    \cup {None, Deleted}]
  /\ referenced \subseteq Contributors
  /\ timeline \in [Placements -> Seq(Events)]
  /\ flagAudit \subseteq {<<FALSE, TRUE>>, <<TRUE, FALSE>>}
  /\ req \in [Requests -> Request]
  /\ \E scene \in Scenes : desk = scene.operations
  /\ finalized \subseteq Contributors
  /\ disturbed \subseteq Placements

Idle == [pc |-> "idle", place |-> None, body |-> None, expiry |-> None,
         before |-> FALSE, event |-> None, contributor |-> None]

NoRow == [status |-> "absent", start |-> None, days |-> None, expiry |-> None,
          confidential |-> FALSE]

PlacementsInit(scene) ==
  /\ row = scene.rows /\ split = scene.splits
  /\ referenced = {credit[2] : credit \in scene.credits}
  /\ timeline = [p \in Placements |-> <<>>]
  /\ flagAudit = {}
  /\ req = [q \in Requests |-> Idle]
  /\ desk = scene.operations
  /\ finalized = {}
  /\ disturbed = {}

At(q, pc) == req[q].pc = pc

Receive(q, request) == /\ At(q, "idle")
                       /\ req' = [req EXCEPT ![q] = request]

Goto(q, pc) == req' = [req EXCEPT ![q].pc = pc]

Return(q) == req' = [req EXCEPT ![q] = Idle]

PlacementExists(p) == row[p].status # "absent"

-----------------------------------------------------------------------------
(* POST /placements and POST /placements/import *)

(* Null if the start or the days are, or the days are negative. *)
computeGuaranteeExpiryDate(start, days) ==
  IF start = None \/ days = None THEN None
  ELSE IF days < 0 THEN None ELSE start + days

createPlacement(p, start, days, expiry, confidential) ==
  /\ ~PlacementExists(p)
  /\ row' = [row EXCEPT ![p] = [status |-> "Created", start |-> start, days |-> days,
                                expiry |-> expiry, confidential |-> confidential]]

CreatePlacement(p) ==
  /\ "create" \in desk
  /\ \E start \in Dates \cup {None}, days \in Spans \cup {None}, conf \in BOOLEAN :
       createPlacement(p, start, days, computeGuaranteeExpiryDate(start, days), conf)
  /\ UNCHANGED <<split, timeline, flagAudit, req, referenced, desk, finalized, disturbed>>

ImportRequest(q) ==
  /\ "create" \in desk
  /\ Receive(q, [Idle EXCEPT !.pc = "importRow"])
  /\ UNCHANGED <<tables, referenced, desk, finalized, disturbed>>

(* One INSERT for each row of the file, without guarantee_days.             *)
ImportRow(q) ==
  /\ At(q, "importRow")
  /\ \E p \in Placements, start \in Dates \cup {None} :
       createPlacement(p, start, None, None, FALSE)
  /\ UNCHANGED <<split, timeline, flagAudit, req, referenced, desk, finalized, disturbed>>

(* The end of the file, or a row whose INSERT throws: the rows before it    *)
(* stay.                                                                    *)
EndImport(q) ==
  /\ At(q, "importRow")
  /\ Return(q)
  /\ UNCHANGED <<tables, referenced, desk, finalized, disturbed>>

-----------------------------------------------------------------------------
(* PATCH /placements/:id *)

Given(v, old) == IF v = Absent THEN old ELSE v

(* The expiry that handleUpdatePlacement computes from the body and the row *)
(* it has read.  A start date that comes from the row is a Date there, not  *)
(* a string, and with the time appended it need not parse: then the result  *)
(* is null.                                                                 *)
NewExpiries(b, old) ==
  LET e == computeGuaranteeExpiryDate(Given(b.start, old.start), Given(b.days, old.days))
  IN IF b.start = Absent /\ b.days = Absent THEN {None}
     ELSE IF b.start = Absent THEN {e, None}
     ELSE {e}

PatchRequest(q, p, b) ==
  /\ \/ "patch" \in desk
     \/ "patchStatus" \in desk /\ b.start = Absent /\ b.days = Absent
  /\ PlacementExists(p)
  /\ \E e \in NewExpiries(b, row[p]) :
       Receive(q, [Idle EXCEPT !.pc = "updateRow", !.place = p, !.body = b,
                               !.expiry = e, !.before = row[p].confidential])
  /\ UNCHANGED <<tables, referenced, desk, finalized, disturbed>>

Changing(q) == /\ req[q].body.confidential # Absent
               /\ req[q].body.confidential # req[q].before

(* Mutant: updatePlacement asks only whether the status is there, too. *)
PatchedStatus(old, b, e) ==
  [status |-> b.status,
   start |-> Given(b.start, None), days |-> Given(b.days, None), expiry |-> e,
   confidential |-> Given(b.confidential, old.confidential)]

(* The handler passes all properties, with the value undefined for those    *)
(* that the body lacks, and updatePlacement asks for start_date,            *)
(* guarantee_days and guarantee_expiry_date only whether they are there: it *)
(* always writes these three, an absent one as null.                        *)
Patched(old, b, e) ==
  [status |-> Given(b.status, old.status),
   start |-> Given(b.start, None), days |-> Given(b.days, None), expiry |-> e,
   confidential |-> Given(b.confidential, old.confidential)]

AttributionInFlight(p) ==
  \E q \in Requests : req[q].event # None /\ req[q].place = p

UpdateRow(q) ==
  /\ At(q, "updateRow")
  /\ LET p == req[q].place
         b == req[q].body
     IN /\ row' = [row EXCEPT ![p] = Patched(@, b, req[q].expiry)]
        /\ disturbed' = IF b.status # Absent /\
                           (timeline[p] # <<>> \/ AttributionInFlight(p))
                          THEN disturbed \cup {p} ELSE disturbed
  /\ IF Changing(q) THEN Goto(q, "auditFlag") ELSE Return(q)
  /\ UNCHANGED <<split, timeline, flagAudit, referenced, desk, finalized>>

(* The audit write may fail, and the PATCH succeeds all the same.           *)
AuditFlag(q) ==
  /\ At(q, "auditFlag")
  /\ \/ flagAudit' = flagAudit \cup {<<req[q].before, req[q].body.confidential>>}
     \/ UNCHANGED flagAudit
  /\ Return(q)
  /\ UNCHANGED <<row, split, timeline, referenced, desk, finalized, disturbed>>

-----------------------------------------------------------------------------
(* POST /placements/:id/attribution/submit, /approve and /reject *)

From(e) == IF e = "Submitted" THEN "ContributorsAssigned" ELSE "PendingApproval"

To(e) == CASE e = "Submitted" -> "PendingApproval"
           [] e = "Approved" -> "Active"
           [] e = "Rejected" -> "ContributorsAssigned"

AttributionRequest(q, p, e) ==
  /\ "attribution" \in desk
  /\ row[p].status = From(e)
  /\ Len(timeline[p]) < MaxEvents
  /\ Receive(q, [Idle EXCEPT !.pc = "updateStatus", !.place = p, !.event = e])
  /\ disturbed' = IF AttributionInFlight(p) THEN disturbed \cup {p} ELSE disturbed
  /\ UNCHANGED <<tables, referenced, desk, finalized>>

(* The UPDATE names the placement by id only. *)
UpdateStatus(q) ==
  /\ At(q, "updateStatus")
  /\ row' = [row EXCEPT ![req[q].place].status = To(req[q].event)]
  /\ Goto(q, "insertEvent")
  /\ UNCHANGED <<split, timeline, flagAudit, referenced, desk, finalized, disturbed>>

InsertEvent(q) ==
  /\ At(q, "insertEvent")
  /\ timeline' = [timeline EXCEPT ![req[q].place] = Append(@, req[q].event)]
  /\ Return(q)
  /\ UNCHANGED <<row, split, flagAudit, referenced, desk, finalized, disturbed>>

-----------------------------------------------------------------------------
(* POST and DELETE /placements/:id/contributors.  Nothing looks at the      *)
(* status of the placement.                                                 *)

Assigned(c) == split[c] \notin {None, Deleted}

ContributorsOf(p) == {c \in Contributors : Assigned(c) /\ split[c].place = p}

PctOf == [c \in Contributors |-> IF Assigned(c) THEN split[c].pct ELSE 0]

SplitTotal(S) == MapThenSumSet(LAMBDA c : PctOf[c], S)

getSplitTotal(p) == SplitTotal(ContributorsOf(p))

InsertSplit(c, p, pct) ==
  /\ split[c] = None /\ PlacementExists(p)
  /\ split' = [split EXCEPT ![c] = [place |-> p, pct |-> pct]]

AddContributor(c) ==
  /\ "add" \in desk
  /\ \E p \in Placements, pct \in Splits : InsertSplit(c, p, pct)
  /\ UNCHANGED <<row, timeline, flagAudit, req, referenced, desk, finalized, disturbed>>

(* The body says finalize. *)
FinalizeRequest(q, c) ==
  /\ "finalize" \in desk
  /\ \E p \in Placements, pct \in Splits :
       /\ InsertSplit(c, p, pct)
       /\ Receive(q, [Idle EXCEPT !.pc = "sumSplits", !.place = p, !.contributor = c])
  /\ UNCHANGED <<row, timeline, flagAudit, referenced, desk, finalized, disturbed>>

Complete(total) == total \in Whole - Tolerance .. Whole + Tolerance

(* 201, or 422 once the contributor is deleted again. *)
SumSplits(q) ==
  /\ At(q, "sumSplits")
  /\ IF Complete(getSplitTotal(req[q].place))
       THEN finalized' = finalized \cup {req[q].contributor} /\ Return(q)
       ELSE Goto(q, "undoSplit") /\ UNCHANGED finalized
  /\ UNCHANGED <<tables, referenced, desk, disturbed>>

(* Throws if a phase or a commission refers to the contributor.             *)
deleteContributor(c) ==
  c \notin referenced /\ split' = [split EXCEPT ![c] = Deleted]

UndoSplit(q) ==
  /\ At(q, "undoSplit")
  /\ deleteContributor(req[q].contributor)
  /\ Return(q)
  /\ UNCHANGED <<row, timeline, flagAudit, referenced, desk, finalized, disturbed>>

DeleteContributor(c) ==
  /\ "delete" \in desk
  /\ Assigned(c)
  /\ deleteContributor(c)
  /\ finalized' = finalized \ {c}
  /\ UNCHANGED <<row, timeline, flagAudit, req, referenced, desk, disturbed>>

-----------------------------------------------------------------------------
(* A statement throws, or the server stops: what has been written stays.    *)
Fail(q) ==
  /\ ~At(q, "idle")
  /\ Return(q)
  /\ disturbed' = IF At(q, "insertEvent") THEN disturbed \cup {req[q].place}
                                          ELSE disturbed
  /\ UNCHANGED <<tables, referenced, desk, finalized>>

Intake(q) == \/ ImportRequest(q) \/ ImportRow(q) \/ EndImport(q)
             \/ \E p \in Placements, b \in Bodies : PatchRequest(q, p, b)
             \/ UpdateRow(q) \/ AuditFlag(q)

Attribution(q) == \/ \E p \in Placements, e \in Events : AttributionRequest(q, p, e)
                  \/ UpdateStatus(q) \/ InsertEvent(q)

Finalize(q) == \/ \E c \in Contributors : FinalizeRequest(q, c)
               \/ SumSplits(q) \/ UndoSplit(q)

PlacementsNext == \/ \E p \in Placements : CreatePlacement(p)
                  \/ \E c \in Contributors : AddContributor(c) \/ DeleteContributor(c)
                  \/ \E q \in Requests :
                       Intake(q) \/ Attribution(q) \/ Finalize(q) \/ Fail(q)

-----------------------------------------------------------------------------
(* What the component promises. *)

(* The guarantee expiry that is stored is that of the start date and the    *)
(* days stored with it, although it is computed from a row read earlier and *)
(* other requests patch that row in between (handleUpdatePlacement).        *)
ExpiryMatches ==
  \A p \in Placements :
    row[p].start # None /\ row[p].days # None =>
      row[p].expiry = computeGuaranteeExpiryDate(row[p].start, row[p].days)

(* The contributors that were accepted as completing a split never share    *)
(* out more than the whole fee, however many are added at the same moment,  *)
(* undone or left behind by a failure (handleAddContributor).               *)
FinalizedFits ==
  \A p \in Placements : SplitTotal(finalized \cap ContributorsOf(p)) <= Whole + Tolerance

(* The timeline tells the status of the attribution, unless two requests    *)
(* decided on it at the same moment, one broke off between its two writes,  *)
(* or an admin patched the status (handleApproveAttribution and the others).*)
TimelineTellsStatus ==
  \A p \in Placements \ disturbed :
    timeline[p] # <<>> /\ ~AttributionInFlight(p) =>
      LET last == timeline[p][Len(timeline[p])]
      IN /\ last = "Submitted" => row[p].status = "PendingApproval"
         /\ last = "Approved" => row[p].status = "Active"
         /\ last = "Rejected" => row[p].status = "ContributorsAssigned"

(* The columns of a placement agree with each other and with the journal    *)
(* beside it, although requests that overlap write them.                    *)
PlacementsSound == ExpiryMatches /\ TimelineTellsStatus

-----------------------------------------------------------------------------
(* What the documentation promises and the code does not do. *)

(* "Only provided fields are updated; absent fields are left unchanged."    *)
PatchKeepsAbsent ==
  [][\A q \in Requests :
       /\ At(q, "updateRow") /\ ~At(q, "updateRow")'
       /\ req[q].body.start = Absent
       /\ row'[req[q].place] # row[req[q].place]
       => row'[req[q].place].start = row[req[q].place].start]_placementVars
=============================================================================
