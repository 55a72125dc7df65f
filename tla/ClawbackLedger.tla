---------------------------- MODULE ClawbackLedger ----------------------------
(***************************************************************************)
(* POST /placements/:id/clawback statement by statement.  Its writes are a *)
(* transaction (db.begin): what it inserts and updates shows when it       *)
(* commits, and the rows it updates stay locked until then.  Each of its   *)
(* statements reads what others have committed by then (READ COMMITTED),   *)
(* so that commission can be calculated between two of them.               *)
(*                                                                         *)
(* CommissionHolds takes the whole transaction for one step; GuaranteeLife *)
(* says what that step does, and this module implements it.                *)
(***************************************************************************)
EXTENDS Integers, FiniteSets

CONSTANTS Claims,        \* POST requests; a request that commits is its event
          Entitled,      \* commission records of the placement
          Counts         \* installment_count

ASSUME CountsAssumption == Counts \subseteq Nat \ {0} /\ Counts # {}

ASSUME FiniteAssumption == IsFiniteSet(Claims) /\ IsFiniteSet(Entitled)

VARIABLES period,        \* guarantee_periods.status
          locked,        \* the transaction that has updated the period, or {}
          standing,      \* status of each commission record
          events,        \* clawback_events
          charges,       \* commission_record_adjustments, <<event, record>>
          schedules,     \* clawback_recovery_schedules, <<event, record, installment>>
          entries,       \* events the audit log tells of
          claim

clawbackVars == <<period, locked, standing, events, charges, schedules, entries, claim>>
committed == <<period, standing, events, charges, schedules>>

Rules == {"clawback", "holdback", "refund_credit", "replacement_search"}
Charging == {"clawback", "holdback"}

(* Amounts are cents: every record is charged the placeholder of 1.00. *)
ChargedAmount == 100

Claim == [pc : {"new", "insertEvent", "trigger", "hold", "list", "post", "audit",
                "done", "refused"},
          rule : Rules, count : Counts,
          taken : SUBSET Entitled, listed : SUBSET Entitled, posted : SUBSET Entitled]

ClawbackTypeOK ==
  /\ period \in {"Active", "Triggered", "ExpiredClean"}
  /\ locked \subseteq Claims /\ Cardinality(locked) <= 1
  /\ standing \in [Entitled -> {"absent", "open", "Approved", "ClawbackInitiated"}]
  /\ events \subseteq Claims /\ entries \subseteq Claims
  /\ charges \subseteq Claims \X Entitled
  /\ schedules \subseteq Claims \X Entitled \X Nat
  /\ claim \in [Claims -> Claim]

ClawbackBegin ==
  /\ period = "Active" /\ locked = {}
  /\ standing = [w \in Entitled |-> "absent"]
  /\ events = {} /\ charges = {} /\ schedules = {} /\ entries = {}

NewClaim(rule, count) == [pc |-> "new", rule |-> rule, count |-> count,
                          taken |-> {}, listed |-> {}, posted |-> {}]

ClawbackInit ==
  /\ ClawbackBegin
  /\ claim \in [Claims -> {NewClaim(rule, count) : rule \in Rules, count \in Counts}]

Stage(q, pc) == claim[q].pc = pc
Proceed(q, pc) == claim' = [claim EXCEPT ![q].pc = pc]

-----------------------------------------------------------------------------
(* What others do meanwhile.  An UPDATE waits for the lock of its row. *)

Held(w) == \E q \in Claims : w \in claim[q].taken /\ claim[q].pc \in {"list", "post"}

Calculate(w) ==
  /\ standing[w] = "absent"
  /\ standing' = [standing EXCEPT ![w] = "open"]
  /\ UNCHANGED <<period, locked, events, charges, schedules, entries, claim>>

ApproveRecord(w) ==
  /\ standing[w] = "open" /\ ~Held(w)
  /\ standing' = [standing EXCEPT ![w] = "Approved"]
  /\ UNCHANGED <<period, locked, events, charges, schedules, entries, claim>>

ExpireClean ==
  /\ period = "Active" /\ locked = {}
  /\ period' = "ExpiredClean"
  /\ UNCHANGED <<locked, standing, events, charges, schedules, entries, claim>>

-----------------------------------------------------------------------------
(* The period is read before the transaction begins: 422 unless it is       *)
(* Active.                                                                  *)
TriggerClawback(q) ==
  /\ Stage(q, "new")
  /\ Proceed(q, IF period = "Active" THEN "insertEvent" ELSE "refused")
  /\ UNCHANGED <<committed, locked, entries>>

InsertClawbackEvent(q) ==
  /\ Stage(q, "insertEvent")
  /\ Proceed(q, "trigger")
  /\ UNCHANGED <<committed, locked, entries>>

(* Mutant: the UPDATE does not look at the status again. *)
TriggerPeriodAnyway(q) ==
  /\ Stage(q, "trigger") /\ locked = {}
  /\ Proceed(q, "hold") /\ locked' = {q}
  /\ UNCHANGED <<committed, entries>>

(* Waits for another transaction that updated the row.  409, and the event  *)
(* is rolled back, if the period is no longer Active then.                  *)
TriggerGuaranteePeriod(q) ==
  /\ Stage(q, "trigger") /\ locked = {}
  /\ IF period = "Active" THEN Proceed(q, "hold") /\ locked' = {q}
                          ELSE Proceed(q, "refused") /\ UNCHANGED locked
  /\ UNCHANGED <<committed, entries>>

(* holdCommissionRecordsForClawback: Approved is not among the statuses.    *)
HoldRecords(q) ==
  /\ Stage(q, "hold")
  /\ claim' = [claim EXCEPT ![q].taken = {w \in Entitled : standing[w] = "open"},
                 ![q].pc = IF claim[q].rule \in Charging THEN "list" ELSE "post"]
  /\ UNCHANGED <<committed, locked, entries>>

(* Mutant: only records of the statuses that were taken over are listed.    *)
ListOpenRecords(q) ==
  /\ Stage(q, "list")
  /\ claim' = [claim EXCEPT ![q].pc = "post",
                 ![q].listed = {w \in Entitled : standing[w] = "open"} \ claim[q].taken]
  /\ UNCHANGED <<committed, locked, entries>>

(* Every record there is by now, whatever its status.                       *)
ListRecordIds(q) ==
  /\ Stage(q, "list")
  /\ claim' = [claim EXCEPT ![q].pc = "post",
                 ![q].listed = {w \in Entitled : standing[w] # "absent"}]
  /\ UNCHANGED <<committed, locked, entries>>

PostCharge(q, w) ==
  /\ Stage(q, "post") /\ w \in claim[q].listed \ claim[q].posted
  /\ claim' = [claim EXCEPT ![q].posted = @ \cup {w}]
  /\ UNCHANGED <<committed, locked, entries>>

(* (clawback_amount / installment_count).toFixed(2) *)
InstallmentAmount(amount, count) == (2 * amount + count) \div (2 * count)

Commit(q) ==
  /\ Stage(q, "post") /\ claim[q].posted = claim[q].listed
  /\ Proceed(q, "audit")
  /\ period' = "Triggered" /\ locked' = {}
  /\ standing' = [w \in Entitled |-> IF w \in claim[q].taken THEN "ClawbackInitiated"
                                                            ELSE standing[w]]
  /\ events' = events \cup {q}
  /\ charges' = charges \cup {<<q, w>> : w \in claim[q].posted}
  /\ schedules' = IF claim[q].rule # "clawback" THEN schedules
                  ELSE schedules \cup
                    {<<q, w, InstallmentAmount(ChargedAmount, claim[q].count)>> :
                       w \in claim[q].posted}
  /\ UNCHANGED entries

(* A statement of the transaction throws, or the server stops.              *)
Rollback(q) ==
  /\ claim[q].pc \in {"insertEvent", "trigger", "hold", "list", "post"}
  /\ claim' = [claim EXCEPT ![q].pc = "refused", ![q].taken = {}]
  /\ locked' = locked \ {q}
  /\ UNCHANGED <<committed, entries>>

(* Best effort, after the transaction. *)
WriteClawbackAudit(q) ==
  /\ Stage(q, "audit")
  /\ Proceed(q, "done")
  /\ entries' \in {entries, entries \cup {q}}
  /\ UNCHANGED <<committed, locked>>

ClawbackNext ==
  \/ \E w \in Entitled : Calculate(w) \/ ApproveRecord(w)
  \/ ExpireClean
  \/ \E q \in Claims :
       \/ TriggerClawback(q) \/ InsertClawbackEvent(q) \/ TriggerGuaranteePeriod(q)
       \/ HoldRecords(q) \/ ListRecordIds(q)
       \/ \E w \in Entitled : PostCharge(q, w)
       \/ Commit(q) \/ Rollback(q) \/ WriteClawbackAudit(q)

ClawbackSpec == ClawbackInit /\ [][ClawbackNext]_clawbackVars

-----------------------------------------------------------------------------
(* However many requests trigger the period at the same moment, and however *)
(* they meet its expiry: it ends once, at most one of them charges, and all *)
(* it charges appears in the step that ends the period (db.begin in         *)
(* handleTriggerClawback, triggerGuaranteePeriod).                          *)
Life == INSTANCE GuaranteeLife WITH Chargeable <- Claims \X Entitled,
                                    state <- period, charged <- charges

ImplementsLife == Life!Spec

(* Under a rule that charges no record is taken over without being charged, *)
(* although the two statements see different records when commission is     *)
(* calculated between them.                                                 *)
TakenIsCharged ==
  \A q \in events, w \in Entitled :
    claim[q].rule \in Charging /\ standing[w] = "ClawbackInitiated" =>
      <<q, w>> \in charges

(* The audit log tells only of clawbacks that happened (writeAuditLog comes *)
(* after the transaction).                                                  *)
AuditAfterCommit == entries \subseteq events

(* getProducerClawbackExposure: no statement marks a charge as recovered.   *)
Exposure == -ChargedAmount * Cardinality(charges)

(* HR is shown the exposure of a producer next to the recovery schedules:   *)
(* no more is scheduled than is owed (steps 4d and 4e of the transaction).  *)
ScheduledIsOwed == ChargedAmount * Cardinality(schedules) <= -Exposure

(* What the books tell of a clawback agrees, however its statements meet    *)
(* other requests: taken and charged, charged and scheduled, committed and  *)
(* audited (handleTriggerClawback).                                         *)
ClawbackSound == TakenIsCharged /\ AuditAfterCommit /\ ScheduledIsOwed

-----------------------------------------------------------------------------
(* What does not hold.  Charges go to Approved records and to records that  *)
(* were calculated in between, which are not taken over.                    *)
ChargedIsTaken ==
  \A q \in events, w \in Entitled :
    <<q, w>> \in charges => standing[w] = "ClawbackInitiated"

(* Three installments of 1.00 are 0.33 each, and 201 are 0.00 each.         *)
InstallmentsRecover ==
  \A s \in schedules : s[3] * claim[s[1]].count = ChargedAmount
=============================================================================
