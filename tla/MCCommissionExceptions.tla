------------------------ MODULE MCCommissionExceptions ------------------------
(* Exceptions, disputes, adjustments and clawbacks on a small instance; a  *)
(* behaviour is about one of the four.  Three users work on one dispute *)
(* (desk "disputes"), two on two (desk "two disputes").                    *)
EXTENDS Disputes, Adjustments, ClawbackLedger, TLC

CONSTANTS p1, r1, e1, e2, e3, q1, q2, q3, d1, d2, manager, executive, admin, c1, c2, a1, a2, a3

VARIABLE desk

MCPlacementOf == [r \in Records |-> p1]

(* e1 and e2 are on r1; e3 is on no record. *)
MCRecordOf == [e \in Exceptions |-> IF e # e3 THEN r1 ELSE None]

(* No two sets of amounts have the same sum. *)
MCImpact == [e \in Exceptions |-> CASE e = e1 -> 1 [] e = e2 -> -2 [] e = e3 -> 4]

MCDisputedRecord == [d \in Disputes |-> r1]

MCKindOf == [p \in Pages |-> CASE p = manager -> "manager" [] p = executive -> "executive"
                               [] p = admin -> "admin"]

(* d1 is a seeded dispute. *)
MCInit == /\ Init /\ LedgerInit
          /\ desk \in {"exceptions", "disputes", "two disputes", "ledger", "clawback"}
          /\ IF desk = "clawback" THEN ClawbackInit
             ELSE ClawbackBegin /\ claim = [q \in Claims |-> NewClaim("clawback", CHOOSE n \in Counts : TRUE)]
          /\ DisputesInit([d \in Disputes |-> IF d = d1 THEN "UnderReview" ELSE "absent"])

Others ==
     \/ /\ desk = "exceptions" /\ Next
        /\ UNCHANGED <<disputeVars, ledgerVars>>
     \/ /\ desk \in {"disputes", "two disputes"}
        /\ \/ DisputesNext
           \/ ((e3 \in Exceptions /\ CreateException(e3)) \/ \E r \in Records : Close(r)) /\ UNCHANGED disputeVars
        /\ desk = "disputes" /\ d2 \in Disputes => dispute'[d2].state = "absent"
        /\ desk = "two disputes" => page'[admin] = NoPage
        /\ UNCHANGED ledgerVars
     \/ /\ desk = "ledger"
        /\ \/ LedgerNext /\ UNCHANGED vars
           \/ (\E r \in Records : Close(r)) /\ UNCHANGED ledgerVars
        /\ UNCHANGED disputeVars

MCNext ==
  /\ UNCHANGED desk
  /\ IF desk = "clawback" THEN ClawbackNext /\ UNCHANGED <<vars, disputeVars, ledgerVars>>
                          ELSE Others /\ UNCHANGED clawbackVars

MCSpec == MCInit /\ [][MCNext]_<<vars, disputeVars, ledgerVars, clawbackVars, desk>>

MCTypeOK == TypeOK /\ DisputesTypeOK /\ LedgerTypeOK /\ ClawbackTypeOK

(* What the users and the audit log are told of a decision is what the      *)
(* tables hold: who resolved a dispute, and which adjustments a new one     *)
(* found (handleResolveDispute, handlePostAdjustment).                      *)
TrailsTellTruth == ConfirmedByResolver /\ AuditNamesResolver /\ PriorsNest

(* The calls are alike. *)
MCSymmetry == Permutations(Calls)
=============================================================================
