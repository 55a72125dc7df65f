------------------------------- MODULE MonthEnd --------------------------------
(***************************************************************************)
(* The month-end close: a commission run whose records have been reviewed  *)
(* is finalized, or approved, beside the reconciliation of its period.     *)
(* CommissionRuns leaves open when a run has an unacknowledged             *)
(* discrepancy; here the rows of Reconciliation tell (all runs are for the *)
(* one period).  A behaviour begins where the review has ended: the        *)
(* exports, and the statements that hold and release records, play no part *)
(* in the gate.                                                            *)
(***************************************************************************)
EXTENDS CommissionRuns, Reconciliation

monthVars == <<vars, reconVars>>

MonthInit == \E scene \in Scenes, R \in SUBSET Records :
  /\ recs = [r \in Records |-> IF r \in R
               THEN [status |-> "PendingApproval", hold |-> "none", net |-> 0]
               ELSE [status |-> "Absent", hold |-> "none", net |-> 0]]
  /\ runs = [n \in Runs |-> [status |-> "Open", linked |-> R, reviewed |-> R]]
  /\ artifact = [n \in Runs |-> None]
  /\ discrepant = {}
  /\ req = [q \in Requests |-> Idle]
  /\ hasty = {}
  /\ ReconInit(scene)

(* Mutant: discrepancies in the amount are all that counts. *)
CountAmounts(table) ==
  IF \E d \in table : ~d.acknowledged /\ d.finding[1] = "amount_mismatch"
    THEN Runs ELSE {}

(* The runs for whose period countUnacknowledgedDiscrepancies is not 0.     *)
Blocked(table) == IF \E d \in table : ~d.acknowledged THEN Runs ELSE {}

Close == /\ "finalize" \in desk
         /\ \E q \in Requests : Approve(q) \/ Fail(q)

MonthNext == \/ Close /\ UNCHANGED reconVars
             \/ /\ ReconNext
                /\ discrepant' = Blocked(rows')
                /\ UNCHANGED <<recs, runs, artifact, req, hasty>>

MonthSpec == MonthInit /\ [][MonthNext]_monthVars

-----------------------------------------------------------------------------
(* What the close promises. *)

MonthTypeOK == TypeOK /\ ReconTypeOK

GetsPast(q) == /\ At(q, "countDiscrepancies") /\ ~req[q].overridden
               /\ req'[q].pc = "readReviews"

(* The gate: a request gets past the count without an override only if each *)
(* way in which an invoice of the last report's lists differs was           *)
(* acknowledged by an admin, although that report deleted and inserted its  *)
(* rows one by one while the request was being served                       *)
(* (handleFinalizeCommissionRun against generateReconciliationReport).  And *)
(* an acknowledged row was acknowledged for the very difference that it     *)
(* shows, and stays when reports run again (clearUnacknowledged).           *)
GateHolds ==
  [][/\ \A q \in Requests : GetsPast(q) /\ compared.known =>
          Differences(compared.ledger, compared.ar) \subseteq noted
     /\ \A d \in rows : d.acknowledged => d \in rows' /\ d.finding \in noted]_monthVars

-----------------------------------------------------------------------------
(* What the documentation promises and the code does not do. *)

(* An acknowledgment outlives the reports that follow (createDiscrepancy's  *)
(* comment: on a re-run "acknowledged ones are left untouched").  The row   *)
(* is, but the same difference gets another one, unacknowledged, which      *)
(* blocks the close again.                                                  *)
AcknowledgedOnce ==
  \A d, e \in rows : d.finding = e.finding /\ d.acknowledged => e.acknowledged

(* While a report is being generated the table is empty for a moment, and   *)
(* a finalize that counts then sees nothing to acknowledge.                 *)
GateHoldsDuringReports ==
  [][\A q \in Requests : GetsPast(q) => \A g \in Reports : ~Generating(g)]_monthVars
=============================================================================
