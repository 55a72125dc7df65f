------------------------- MODULE CommissionExceptions -------------------------
(***************************************************************************)
(* The exception workflow: someone asks for an exception on a placement, a *)
(* Finance Admin approves or rejects it, and an approved exception with an *)
(* amount adjusts net_payable of the commission record it is linked to.    *)
(*                                                                         *)
(* net_payable is encrypted, so it cannot be incremented by an UPDATE: the *)
(* handler reads it, adds the amount and writes the sum back, in two       *)
(* statements that test nothing.  As in CommissionRuns, req[q] is the      *)
(* request served in slot q and its pc names the next statement.           *)
(***************************************************************************)
EXTENDS CommissionRecords, FiniteSetsExt

CONSTANTS Exceptions,    \* ids of exceptions
          RecordOf,      \* commission_record_id of an exception, or None
          Impact,        \* impact_amount of an exception, or None
          Requests,      \* slots for the requests being served
          None,          \* NULL
          Failures       \* TRUE: a statement may throw, which ends its request

ASSUME RecordOfAssumption == RecordOf \in [Exceptions -> Records \cup {None}]
ASSUME ImpactAssumption == Impact \in [Exceptions -> Int \cup {None}]
ASSUME NoneAssumption == None \notin Records \cup Exceptions \cup Int
ASSUME FailuresAssumption == Failures \in BOOLEAN

VARIABLES exc,     \* status of each exception
          req

vars == <<recs, exc, req>>

(* UnderReview is tested for, but no statement writes it. *)
Decisions == {"Approved", "Rejected"}

Request == [pc : {"idle", "approve", "readNet", "writeNet", "reject"},
            exc : Exceptions \cup {None}, read : Int]

TypeOK == /\ RecordsTypeOK
          /\ exc \in [Exceptions -> {"Absent", "Requested"} \cup Decisions]
          /\ req \in [Requests -> Request]

Idle == [pc |-> "idle", exc |-> None, read |-> 0]

Init == /\ RecordsInit
        /\ exc = [e \in Exceptions |-> "Absent"]
        /\ req = [q \in Requests |-> Idle]

At(q, pc) == req[q].pc = pc

Return(q) == req' = [req EXCEPT ![q] = Idle]

(* The exception has an amount, and a record to put it on. *)
Adjusts(e) == RecordOf[e] # None /\ Impact[e] # None

-----------------------------------------------------------------------------
(* Mutant: the row is inserted in the status the admin's queue shows. *)
CreateUnderReview(e) ==
  /\ exc[e] = "Absent"
  /\ RecordOf[e] # None => Exists(RecordOf[e])
  /\ exc' = [exc EXCEPT ![e] = "UnderReview"]
  /\ UNCHANGED <<recs, req>>

(* POST /exceptions; the record is a foreign key. *)
CreateException(e) ==
  /\ exc[e] = "Absent"
  /\ RecordOf[e] # None => Exists(RecordOf[e])
  /\ exc' = [exc EXCEPT ![e] = "Requested"]
  /\ UNCHANGED <<recs, req>>

(* POST /exceptions/:id/approve and /reject: getException finds the         *)
(* exception undecided.  (404 and 409 otherwise.)                           *)
DecideRequest(q, e, pc) ==
  /\ exc[e] = "Requested"
  /\ At(q, "idle")
  /\ req' = [req EXCEPT ![q] = [pc |-> pc, exc |-> e, read |-> 0]]
  /\ UNCHANGED <<recs, exc>>

(* Mutant: the UPDATE does not test the status. *)
ApproveAgain(q) ==
  /\ At(q, "approve")
  /\ exc' = [exc EXCEPT ![req[q].exc] = "Approved"]
  /\ IF Adjusts(req[q].exc) THEN req' = [req EXCEPT ![q].pc = "readNet"] ELSE Return(q)
  /\ UNCHANGED recs

(* The UPDATE tests the status again: 404 if somebody was faster. *)
ApproveException(q) ==
  /\ At(q, "approve")
  /\ LET e == req[q].exc
     IN IF exc[e] = "Requested"
          THEN /\ exc' = [exc EXCEPT ![e] = "Approved"]
               /\ IF Adjusts(e) THEN req' = [req EXCEPT ![q].pc = "readNet"]
                                ELSE Return(q)
          ELSE Return(q) /\ UNCHANGED exc
  /\ UNCHANGED recs

(* adjustNetPayable *)
ReadNet(q) ==
  /\ At(q, "readNet")
  /\ req' = [req EXCEPT ![q].read = recs[RecordOf[req[q].exc]].net,
                        ![q].pc = "writeNet"]
  /\ UNCHANGED <<recs, exc>>

WriteBack(q) ==
  /\ At(q, "writeNet")
  /\ LET e == req[q].exc
     IN recs' = WriteNet(RecordOf[e], req[q].read + Impact[e])
  /\ Return(q)
  /\ UNCHANGED exc

RejectException(q) ==
  /\ At(q, "reject")
  /\ LET e == req[q].exc
     IN exc' = [exc EXCEPT ![e] = IF @ = "Requested" THEN "Rejected" ELSE @]
  /\ Return(q)
  /\ UNCHANGED recs

(* A statement throws, or the server stops.  An error while net_payable is  *)
(* adjusted is swallowed: the reply is 200.                                 *)
Fail(q) ==
  /\ Failures
  /\ ~At(q, "idle")
  /\ Return(q)
  /\ UNCHANGED <<recs, exc>>

-----------------------------------------------------------------------------
(* The rest of the server: a calculation inserts the record, and the run it *)
(* is in is approved.                                                       *)
Close(r) ==
  /\ \/ ~Exists(r) /\ recs' = createCommissionRecord(r, "Accrued", "none")
     \/ recs[r].status = "Accrued" /\ recs' = ApprovePending({r})
  /\ UNCHANGED <<exc, req>>

Handle(q) == \/ \E e \in Exceptions, pc \in {"approve", "reject"} :
                  DecideRequest(q, e, pc)
             \/ ApproveException(q)
             \/ ReadNet(q)
             \/ WriteBack(q)
             \/ RejectException(q)
             \/ Fail(q)

Next == \/ \E e \in Exceptions : CreateException(e)
        \/ \E q \in Requests : Handle(q)
        \/ \E r \in Records : Close(r)

Spec == Init /\ [][Next]_vars

-----------------------------------------------------------------------------
(* What the component promises. *)

(* However many admins decide at the same moment, the first decision on an  *)
(* exception stands (approveException and rejectException).                 *)
DecidedOnce ==
  [][\A e \in Exceptions : exc[e] \in Decisions => exc'[e] = exc[e]]_vars

ApprovedFor(r) ==
  {e \in Exceptions : exc[e] = "Approved" /\ RecordOf[e] = r /\ Impact[e] # None}

Total(S) == MapThenSumSet(LAMBDA e : Impact[e], S)

(* net_payable moves by approved amounts only, and by none of them twice,   *)
(* whatever is retried, raced or rejected (handleApproveException).         *)
NetFromApproved ==
  \A r \in Records : \E S \in SUBSET ApprovedFor(r) : recs[r].net = Total(S)

(* An amount is only ever on its way to a record for one request, and its   *)
(* exception is approved (handleApproveException, adjustNetPayable).        *)
OneAdjustment ==
  \A p, q \in Requests :
    {req[p].pc, req[q].pc} \subseteq {"readNet", "writeNet"} =>
      exc[req[q].exc] = "Approved" /\ (req[p].exc = req[q].exc => p = q)

-----------------------------------------------------------------------------
(* What the documentation promises and the code does not do. *)

(* Once no request is being served, net_payable has been incremented by the *)
(* amount of each approved exception.                                       *)
NetIsTotal ==
  (\A q \in Requests : At(q, "idle")) =>
    \A r \in Records : recs[r].net = Total(ApprovedFor(r))

(* The amounts of a record in an Approved run are not edited. *)
AmountsFrozen ==
  [][\A r \in Records : recs[r].status = "Approved" => recs'[r].net = recs[r].net]_vars
=============================================================================
