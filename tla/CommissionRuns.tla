---------------------------- MODULE CommissionRuns ----------------------------
(***************************************************************************)
(* The commission close: a Finance Admin opens a run over some placements, *)
(* approves its records one by one, approves (or finalizes) the run and    *)
(* exports it to payroll.                                                  *)
(*                                                                         *)
(* No handler opens a transaction.  A handler is a sequence of statements, *)
(* each atomic, and the statements of concurrent requests interleave; what *)
(* a handler has read stays in its request until it uses it.  req[q] is    *)
(* the request served in slot q, and its pc names the statement that the   *)
(* handler runs next.  An early return is a step to Idle.                  *)
(***************************************************************************)
EXTENDS CommissionRecords

CONSTANTS Runs,          \* ids of commission runs
          Requests,      \* slots for the requests being served
          None           \* NULL

ASSUME NoneAssumption ==
         /\ None \notin Runs /\ None \notin Records
         /\ \A S \in SUBSET Records : None # S
         /\ None \notin {"Open", "Approved"}

VARIABLES runs,        \* commission_runs joined with commission_run_records
          artifact,    \* payroll_export_artifacts, by run: the rows exported
          discrepant,  \* runs with an unacknowledged discrepancy in their period
          req,
          hasty        \* history: runs whose reviews an approver has read, and
                       \* found complete, while the POST that creates the run
                       \* was still linking its records

runVars == <<runs, artifact, discrepant, req, hasty>>
vars == <<recs, runs, artifact, discrepant, req, hasty>>

(* status None: no such run.  linked: the junction rows; reviewed: those    *)
(* with individually_approved set.                                          *)
RunRow == [status : {None, "Open", "Approved"},
           linked : SUBSET Records, reviewed : SUBSET Records]

Steps == {"idle", "listRecords", "insertRun", "linkRecords", "markReviewed",
          "promoteRecord", "countDiscrepancies", "readReviews", "approveRun",
          "settleRecords", "readLinks", "storeArtifact", "readArtifact", "replied"}

Request == [pc : Steps, run : Runs \cup {None}, rec : Records \cup {None},
            todo : SUBSET Placements, seen : SUBSET Records,
            overridden : BOOLEAN]

RunsTypeOK == /\ runs \in [Runs -> RunRow]
              /\ artifact \in [Runs -> (SUBSET Records) \cup {None}]
              /\ discrepant \subseteq Runs
              /\ req \in [Requests -> Request]
              /\ hasty \subseteq Runs

Idle == [pc |-> "idle", run |-> None, rec |-> None, todo |-> {}, seen |-> {},
         overridden |-> FALSE]

RunsInit == /\ runs = [n \in Runs |->
                        [status |-> None, linked |-> {}, reviewed |-> {}]]
            /\ artifact = [n \in Runs |-> None]
            /\ discrepant = {}
            /\ req = [q \in Requests |-> Idle]
            /\ hasty = {}

At(q, pc) == req[q].pc = pc

Receive(q, request) == /\ At(q, "idle")
                       /\ req' = [req EXCEPT ![q] = request]

Goto(q, pc) == req' = [req EXCEPT ![q].pc = pc]

Return(q) == req' = [req EXCEPT ![q] = Idle]

(* The POST that creates run n has not linked all its records yet. *)
BeingLinked(n) ==
  \E q \in Requests : At(q, "linkRecords") /\ req[q].run = n /\ req[q].seen # {}

(* A client sends a request about run n, and getCommissionRun finds it: GET *)
(* /commission-runs lists a run as soon as it has been inserted.  Other     *)
(* values of the status are answered at once, with no effect.               *)
Finds(n, status) == runs[n].status = status

-----------------------------------------------------------------------------
(* POST /commission-runs *)

CreateRunRequest(q, P) ==
  /\ P # {}
  /\ Receive(q, [Idle EXCEPT !.pc = "listRecords", !.todo = P])
  /\ UNCHANGED <<recs, runs, artifact, discrepant, hasty>>

(* One SELECT for each placement; no filter on the status of the record or  *)
(* on the runs it belongs to already.                                       *)
ListRecords(q) ==
  /\ At(q, "listRecords")
  /\ \E p \in req[q].todo :
       req' = [req EXCEPT ![q].todo = @ \ {p},
                          ![q].seen = @ \cup RecordsOf(p),
                          ![q].pc = IF req[q].todo = {p} THEN "insertRun" ELSE @]
  /\ UNCHANGED <<recs, runs, artifact, discrepant, hasty>>

InsertRun(q, n) ==
  /\ At(q, "insertRun")
  /\ runs[n].status = None
  /\ runs' = [runs EXCEPT ![n].status = "Open"]
  /\ req' = [req EXCEPT ![q].run = n, ![q].pc = "linkRecords"]
  /\ UNCHANGED <<recs, artifact, discrepant, hasty>>

LinkRecord(q) ==
  /\ At(q, "linkRecords")
  /\ \E r \in req[q].seen :
       /\ runs' = [runs EXCEPT ![req[q].run].linked = @ \cup {r}]
       /\ req' = [req EXCEPT ![q].seen = @ \ {r}]
  /\ UNCHANGED <<recs, artifact, discrepant, hasty>>

Created(q) ==
  /\ At(q, "linkRecords") /\ req[q].seen = {}
  /\ Return(q)
  /\ UNCHANGED <<recs, runs, artifact, discrepant, hasty>>

-----------------------------------------------------------------------------
(* POST /commission-runs/:id/records/:rid/approve *)

ApproveRecordRequest(q, n, r) ==
  /\ Finds(n, "Open")
  /\ Receive(q, [Idle EXCEPT !.pc = "markReviewed", !.run = n, !.rec = r])
  /\ UNCHANGED <<recs, runs, artifact, discrepant, hasty>>

(* The junction row is updated whatever the run's status is by now; 404 if  *)
(* the record is not in the run.                                            *)
MarkReviewed(q) ==
  /\ At(q, "markReviewed")
  /\ LET n == req[q].run
         r == req[q].rec
     IN IF r \in runs[n].linked
          THEN /\ runs' = [runs EXCEPT ![n].reviewed = @ \cup {r}]
               /\ Goto(q, "promoteRecord")
          ELSE Return(q) /\ UNCHANGED runs
  /\ UNCHANGED <<recs, artifact, discrepant, hasty>>

(* Mutant: the individual approval goes all the way. *)
PromoteRecordToApproved(q) ==
  /\ At(q, "promoteRecord")
  /\ recs' = ApprovePending({req[q].rec})
  /\ Return(q)
  /\ UNCHANGED <<runs, artifact, discrepant, hasty>>

PromoteRecord(q) ==
  /\ At(q, "promoteRecord")
  /\ recs' = PromoteIfAccrued(req[q].rec)
  /\ Return(q)
  /\ UNCHANGED <<runs, artifact, discrepant, hasty>>

-----------------------------------------------------------------------------
(* POST /commission-runs/:id/approve and /finalize *)

ApproveRunRequest(q, n) ==
  /\ Finds(n, "Open")
  /\ Receive(q, [Idle EXCEPT !.pc = "readReviews", !.run = n])
  /\ UNCHANGED <<recs, runs, artifact, discrepant, hasty>>

FinalizeRequest(q, n, hasOverride) ==
  /\ Finds(n, "Open")
  /\ Receive(q, [Idle EXCEPT !.pc = "countDiscrepancies", !.run = n,
                             !.overridden = hasOverride])
  /\ UNCHANGED <<recs, runs, artifact, discrepant, hasty>>

(* The reconciliation gate: an override_reason in the body passes it.       *)
CountDiscrepancies(q) ==
  /\ At(q, "countDiscrepancies")
  /\ IF req[q].run \in discrepant /\ ~req[q].overridden
       THEN Return(q)
       ELSE Goto(q, "readReviews")
  /\ UNCHANGED <<recs, runs, artifact, discrepant, hasty>>

(* 422 if some record of the run is not individually approved.  A run with  *)
(* no records passes.                                                       *)
AllReviewed(n) == runs[n].linked \subseteq runs[n].reviewed

ReadReviews(q) ==
  /\ At(q, "readReviews")
  /\ LET n == req[q].run
     IN IF AllReviewed(n)
          THEN /\ Goto(q, "approveRun")
               /\ hasty' = IF BeingLinked(n) THEN hasty \cup {n} ELSE hasty
          ELSE Return(q) /\ UNCHANGED hasty
  /\ UNCHANGED <<recs, runs, artifact, discrepant>>

ApproveRun(q) ==
  /\ At(q, "approveRun")
  /\ LET n == req[q].run
     IN IF runs[n].status = "Open"
          THEN /\ runs' = [runs EXCEPT ![n].status = "Approved"]
               /\ Goto(q, "settleRecords")
          ELSE Return(q) /\ UNCHANGED runs
  /\ UNCHANGED <<recs, artifact, discrepant, hasty>>

SettleRecords(q) ==
  /\ At(q, "settleRecords")
  /\ recs' = ApprovePending(runs[req[q].run].linked)
  /\ Return(q)
  /\ UNCHANGED <<runs, artifact, discrepant, hasty>>

-----------------------------------------------------------------------------
(* POST /commission-runs/:id/export.  The rows are read one by one after    *)
(* the junction, but the amounts exported of them (gross_amount, summed by  *)
(* producer) never change: the content is the set of rows in the junction   *)
(* when it was read.                                                        *)

(* Mutant: the status of the run is not checked. *)
ExportAnyRequest(q, n) ==
  /\ Finds(n, "Open") \/ Finds(n, "Approved")
  /\ Receive(q, [Idle EXCEPT !.pc = "readLinks", !.run = n])
  /\ UNCHANGED <<recs, runs, artifact, discrepant, hasty>>

ExportRequest(q, n) ==
  /\ Finds(n, "Approved")
  /\ Receive(q, [Idle EXCEPT !.pc = "readLinks", !.run = n])
  /\ UNCHANGED <<recs, runs, artifact, discrepant, hasty>>

ReadLinks(q) ==
  /\ At(q, "readLinks")
  /\ req' = [req EXCEPT ![q].seen = runs[req[q].run].linked,
                        ![q].pc = "storeArtifact"]
  /\ UNCHANGED <<recs, runs, artifact, discrepant, hasty>>

(* Mutant: ON CONFLICT (run_id) DO UPDATE. *)
ReplaceArtifact(q) ==
  /\ At(q, "storeArtifact")
  /\ artifact' = [artifact EXCEPT ![req[q].run] = req[q].seen]
  /\ Goto(q, "readArtifact")
  /\ UNCHANGED <<recs, runs, discrepant, hasty>>

(* INSERT ... ON CONFLICT (run_id) DO NOTHING *)
StoreArtifact(q) ==
  /\ At(q, "storeArtifact")
  /\ artifact' = [artifact EXCEPT ![req[q].run] = IF @ = None THEN req[q].seen ELSE @]
  /\ Goto(q, "readArtifact")
  /\ UNCHANGED <<recs, runs, discrepant, hasty>>

ReadArtifact(q) ==
  /\ At(q, "readArtifact")
  /\ req' = [req EXCEPT ![q].seen = artifact[req[q].run], ![q].pc = "replied"]
  /\ UNCHANGED <<recs, runs, artifact, discrepant, hasty>>

ReceiveReply(q) ==
  /\ At(q, "replied")
  /\ Return(q)
  /\ UNCHANGED <<recs, runs, artifact, discrepant, hasty>>

-----------------------------------------------------------------------------
(* A statement throws (or the server stops): what has been written stays.   *)
Fail(q) ==
  /\ ~At(q, "idle")
  /\ Return(q)
  /\ UNCHANGED <<recs, runs, artifact, discrepant, hasty>>

Create(q) == \/ \E P \in SUBSET Placements : CreateRunRequest(q, P)
             \/ ListRecords(q)
             \/ \E n \in Runs : InsertRun(q, n)
             \/ LinkRecord(q)
             \/ Created(q)

Review(q) == \/ \E n \in Runs, r \in Records : ApproveRecordRequest(q, n, r)
             \/ MarkReviewed(q)
             \/ PromoteRecord(q)

Approve(q) == \/ \E n \in Runs : ApproveRunRequest(q, n)
              \/ \E n \in Runs, b \in BOOLEAN : FinalizeRequest(q, n, b)
              \/ CountDiscrepancies(q)
              \/ ReadReviews(q)
              \/ ApproveRun(q)
              \/ SettleRecords(q)

Export(q) == \/ \E n \in Runs : ExportRequest(q, n)
             \/ ReadLinks(q)
             \/ StoreArtifact(q)
             \/ ReadArtifact(q)
             \/ ReceiveReply(q)

RunsNext == \E q \in Requests :
              Create(q) \/ Review(q) \/ Approve(q) \/ Export(q) \/ Fail(q)

-----------------------------------------------------------------------------
(* The rest of the server, as this component sees it: the statements by     *)
(* which other handlers write the records, and the reconciliation report.   *)
(* CommissionHolds models those handlers whole.                             *)

Calculate(r) ==
  /\ ~Exists(r)
  /\ \E row \in {<<"Accrued", "none">>, <<"Held", "collection_gate">>,
                 <<"Held", "guarantee_hold">>} :
       recs' = createCommissionRecord(r, row[1], row[2])

HoldSide == /\ \/ \E r \in Records : Calculate(r)
               \/ \E p \in Placements :
                    \/ recs' = releaseCollectionGate(p)
                    \/ recs' = releaseHeldCommissionRecordsForPlacement(p)
                    \/ recs' = holdCommissionRecordsForClawback(p)
            /\ UNCHANGED runVars

Reconciliation == /\ \E n \in Runs :
                       \/ discrepant' = discrepant \cup {n}
                       \/ discrepant' = discrepant \ {n}
                  /\ UNCHANGED <<recs, runs, artifact, req, hasty>>

Init == RecordsInit /\ RunsInit

Next == RunsNext \/ HoldSide \/ Reconciliation

Spec == Init /\ [][Next]_vars

-----------------------------------------------------------------------------
(* What the component promises. *)

TypeOK == RecordsTypeOK /\ RunsTypeOK

(* A run that nobody approved in haste is Approved only when each of its    *)
(* records was individually approved, and then it is complete: its creation *)
(* is over, or has broken off (handleApproveCommissionRun reads the reviews *)
(* in one statement and approves in another, createCommissionRun links the  *)
(* records one by one).                                                     *)
ApprovedAsReviewed ==
  \A n \in Runs : runs[n].status = "Approved" /\ n \notin hasty =>
                    AllReviewed(n) /\ ~BeingLinked(n)

(* A record has status Approved only if an Approved run holds it, and a     *)
(* Finance Admin approved it in that run unless that was approved in haste  *)
(* (approveCommissionRun).                                                  *)
ApprovedRecordBacked ==
  \A r \in Records : recs[r].status = "Approved" =>
    \E n \in Runs : /\ runs[n].status = "Approved"
                    /\ r \in runs[n].linked
                    /\ r \in runs[n].reviewed \/ n \in hasty

(* The approval of a run takes exactly what was reviewed: no run is         *)
(* Approved that holds an unreviewed record, and no record is Approved that *)
(* such a run does not hold (handleApproveCommissionRun).  The one way out  *)
(* is an approver who was faster than the creation of the run.              *)
ApprovalSound == ApprovedAsReviewed /\ ApprovedRecordBacked

(* What went to payroll for a run is the run as it was approved: all of its *)
(* records, and nothing linked to it later; of a run approved in haste, at  *)
(* least nothing that is not in it (handleCreatePayrollExport).             *)
ExportedWhole ==
  \A n \in Runs : artifact[n] # None =>
    /\ runs[n].status = "Approved"
    /\ artifact[n] \subseteq runs[n].linked
    /\ n \in hasty \/ artifact[n] = runs[n].linked

(* Whoever exports a run, and however their requests interleave, gets the   *)
(* one stored artifact (createOrGetPayrollExport).                          *)
ReplyIsArtifact ==
  \A q \in Requests : At(q, "replied") => req[q].seen = artifact[req[q].run]

(* An export hands out the whole approved run, and the same file to all     *)
(* (handleCreatePayrollExport).                                             *)
ExportSound == ExportedWhole /\ ReplyIsArtifact

(* What was given away or taken back stays so: a stored artifact never      *)
(* changes (ON CONFLICT DO NOTHING), and the approvals of a run that was    *)
(* read before a clawback do not bring the records back that the clawback   *)
(* took (approveRunRecord and approveCommissionRun against                  *)
(* holdCommissionRecordsForClawback).                                       *)
Irrevocable ==
  [][/\ \A n \in Runs : artifact[n] # None => artifact'[n] = artifact[n]
     /\ \A r \in Records : recs[r].status = "ClawbackInitiated" =>
                            recs'[r].status = "ClawbackInitiated"]_vars

-----------------------------------------------------------------------------
(* What the documentation promises and the code does not do. *)

(* An Approved run holds no record that was not individually approved (the  *)
(* header of api/commission-runs.ts: approval "Requires all included        *)
(* commission records to be individually approved first").  Nothing keeps   *)
(* an approver off a run whose records are still being linked.              *)
ApprovedRunReviewed == \A n \in Runs : runs[n].status = "Approved" => AllReviewed(n)

(* The second statement of approveCommissionRun follows the first: no       *)
(* record of an Approved run waits for approval for ever.  It throws, the   *)
(* reply is 500, and a retry is refused because the run is Approved.        *)
ApprovedRunSettles ==
  \A n \in Runs : runs[n].status = "Approved" ~>
    \A r \in runs[n].linked : recs[r].status \notin {"Accrued", "PendingApproval"}

(* Reconciliation is a required step of the close: a run whose period has   *)
(* an unacknowledged discrepancy is approved only by a documented override. *)
ReconciledBeforeApproval ==
  [][\A n \in discrepant :
       runs[n].status = "Open" /\ runs'[n].status = "Approved" =>
         \E q \in Requests : /\ At(q, "approveRun") /\ req[q].run = n
                             /\ req[q].overridden]_vars

(* After an approval has succeeded, every record of the run is Approved.    *)
ApprovalCoversRun ==
  \A n \in Runs :
    runs[n].status = "Approved" /\ (\A q \in Requests : req[q].run # n) =>
      \A r \in runs[n].linked : recs[r].status = "Approved"
=============================================================================
