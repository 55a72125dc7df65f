--------------------------- MODULE CommissionRecords ---------------------------
(***************************************************************************)
(* The commission_records table and the SQL statements that write it.      *)
(*                                                                         *)
(* Every handler of the server reaches the table through one of these      *)
(* statements, and Postgres runs each of them atomically.  A statement is  *)
(* an operator whose value is the table it leaves behind; the modules that *)
(* extend this one say which handler runs which statement, and in what     *)
(* order.                                                                  *)
(*                                                                         *)
(* A row is written [status, hold, net]; net is net_payable less the value *)
(* it was inserted with.  Amounts other than net_payable                   *)
(* never change after the INSERT and are not kept.  A row whose status is  *)
(* Absent has not been inserted: a model has a fixed set of Records, and   *)
(* each of them belongs to a fixed placement.                              *)
(***************************************************************************)
EXTENDS Integers, FiniteSets

CONSTANTS Records,       \* ids of the rows that can ever exist
          Placements,    \* ids of placements
          PlacementOf    \* placement_id of a row

ASSUME PlacementOfAssumption == PlacementOf \in [Records -> Placements]

VARIABLE recs

(* 'Paid' and 'Recovered' belong to the type too, but no statement of the  *)
(* program writes them.                                                    *)
Statuses == {"Accrued", "PendingApproval", "Approved", "Held", "Payable",
             "ClawbackInitiated"}

HoldReasons == {"none", "collection_gate", "guarantee_hold",
                "held_pending_phase_invoice", "clawback_hold"}

RecordRow == [status : Statuses \cup {"Absent"}, hold : HoldReasons, net : Int]

RecordsTypeOK == recs \in [Records -> RecordRow]

RecordsInit == recs = [r \in Records |->
                        [status |-> "Absent", hold |-> "none", net |-> 0]]

Exists(r) == recs[r].status # "Absent"

RecordsOf(p) == {r \in Records : PlacementOf[r] = p /\ Exists(r)}

-----------------------------------------------------------------------------
(* INSERT *)
createCommissionRecord(r, status, hold) ==
  [recs EXCEPT ![r] = [status |-> status, hold |-> hold, net |-> 0]]

(* The UPDATE of every row in S, as one statement. *)
SetStatus(S, status, hold) ==
  [r \in Records |-> IF r \in S
                       THEN [recs[r] EXCEPT !.status = status, !.hold = hold]
                       ELSE recs[r]]

HeldFor(S, hold) == {r \in S : recs[r].status = "Held" /\ recs[r].hold = hold}

(* The approval statements leave hold_reason alone. *)
Advance(S, status) ==
  [r \in Records |-> IF r \in S THEN [recs[r] EXCEPT !.status = status] ELSE recs[r]]

PromoteIfAccrued(r) ==
  Advance({x \in {r} : recs[x].status = "Accrued"}, "PendingApproval")

ApprovePending(S) ==
  Advance({r \in S : recs[r].status \in {"Accrued", "PendingApproval"}}, "Approved")

(* Mutant: whatever waits for something, and not for the invoice only. *)
ReleaseAnyWait(p) ==
  SetStatus({r \in RecordsOf(p) : recs[r].hold # "none"}, "Payable", "none")

releaseCollectionGate(p) ==
  SetStatus(HeldFor(RecordsOf(p), "collection_gate"), "Payable", "none")

releaseHeldCommissionRecordsForPlacement(p) ==
  SetStatus(HeldFor(RecordsOf(p), "guarantee_hold"), "Payable", "none")

(* Approved is not among the statuses a clawback takes over. *)
ClawbackReach == {"Held", "Payable", "Accrued", "PendingApproval"}

holdCommissionRecordsForClawback(p) ==
  SetStatus({r \in RecordsOf(p) : recs[r].status \in ClawbackReach},
            "ClawbackInitiated", "clawback_hold")

(* The UPDATE of releasePhaseCollectionGate names its rows by id only: it  *)
(* does not look at their status again.                                    *)
PayListed(S) == SetStatus(S, "Payable", "none")

WriteNet(r, n) == [recs EXCEPT ![r].net = n]
=============================================================================
