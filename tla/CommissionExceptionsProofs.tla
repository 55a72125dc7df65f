---------------------- MODULE CommissionExceptionsProofs ----------------------
(***************************************************************************)
(* Theorems about exceptions, disputes and adjustments, for any number of  *)
(* exceptions, disputes, pages, records and concurrent requests, and about *)
(* MCSpec, where they are put beside the clawbacks of ClawbackLedger.      *)
(*                                                                         *)
(* The status that the UPDATE of approveException tests is what lets one   *)
(* request per exception through to the adjustment.  OneAdjustment is      *)
(* inductive with the types and with what a request knows by its pc.       *)
(***************************************************************************)
EXTENDS MCCommissionExceptions, Sums

(* What a request that is being served knows of its exception. *)
Knows ==
  \A q \in Requests :
    /\ ~At(q, "idle") => req[q].exc \in Exceptions
    /\ req[q].pc \in {"readNet", "writeNet"} =>
         Adjusts(req[q].exc) /\ exc[req[q].exc] = "Approved"

Apart ==
  \A p, q \in Requests :
    /\ {req[p].pc, req[q].pc} \subseteq {"readNet", "writeNet"}
    /\ req[p].exc = req[q].exc
    => p = q

Inv == TypeOK /\ Knows /\ Apart

(* A linked exception has a record among Records, and an amount. *)
LEMMA Linked ==
  ASSUME NEW e \in Exceptions, Adjusts(e)
  PROVE  RecordOf[e] \in Records /\ Impact[e] \in Int
BY RecordOfAssumption, ImpactAssumption, NoneAssumption DEF Adjusts

(* The statements on commission_records keep the type of the table. *)
LEMMA TableKept ==
  ASSUME RecordsTypeOK, NEW r \in Records
  PROVE  /\ createCommissionRecord(r, "Accrued", "none") \in [Records -> RecordRow]
         /\ ApprovePending({r}) \in [Records -> RecordRow]
         /\ \A n \in Int : WriteNet(r, n) \in [Records -> RecordRow]
<1>1. recs \in [Records -> RecordRow]
  BY DEF RecordsTypeOK
<1>2. createCommissionRecord(r, "Accrued", "none") \in [Records -> RecordRow]
  BY <1>1 DEF createCommissionRecord, RecordRow, Statuses, HoldReasons
<1>3. ApprovePending({r}) \in [Records -> RecordRow]
  BY <1>1 DEF ApprovePending, Advance, RecordRow, Statuses, HoldReasons
<1>4. ASSUME NEW n \in Int PROVE WriteNet(r, n) \in [Records -> RecordRow]
  BY <1>1 DEF WriteNet, RecordRow
<1>5. QED
  BY <1>2, <1>3, <1>4

LEMMA InvInit == Init => Inv
<1>1. SUFFICES ASSUME Init PROVE Inv
  OBVIOUS
<1>2. TypeOK
  BY <1>1 DEF Init, RecordsInit, TypeOK, RecordsTypeOK, RecordRow, HoldReasons, Idle, Request
<1>3. Knows /\ Apart
  BY <1>1 DEF Init, Knows, Apart, At, Idle
<1>4. QED
  BY <1>2, <1>3 DEF Inv

(* The types, one action at a time. *)
LEMMA TypeStep == Inv /\ [Next]_vars => TypeOK'
<1>1. SUFFICES ASSUME Inv, [Next]_vars PROVE TypeOK'
  OBVIOUS
<1> USE DEF TypeOK, RecordsTypeOK
<1>2. recs \in [Records -> RecordRow] /\ req \in [Requests -> Request]
      /\ exc \in [Exceptions -> {"Absent", "Requested"} \cup Decisions]
  BY <1>1 DEF Inv
<1>3. Idle \in Request
  BY DEF Idle, Request
<1>4. ASSUME NEW q \in Requests, Return(q) PROVE req' \in [Requests -> Request]
  BY <1>2, <1>3, <1>4 DEF Return
<1>5. ASSUME NEW e \in Exceptions, CreateException(e) PROVE TypeOK'
  BY <1>2, <1>5 DEF CreateException
<1>6. ASSUME NEW q \in Requests, NEW e \in Exceptions, NEW pc \in {"approve", "reject"},
             DecideRequest(q, e, pc)
      PROVE  TypeOK'
  <2>1. pc \in {"idle", "approve", "readNet", "writeNet", "reject"}
    BY <1>6
  <2>2. [pc |-> pc, exc |-> e, read |-> 0] \in Request
    BY <1>6, <2>1 DEF Request
  <2>3. QED
    BY <1>2, <1>6, <2>2 DEF DecideRequest
<1>7. ASSUME NEW q \in Requests, ApproveException(q) PROVE TypeOK'
  <2>1. req[q].exc \in Exceptions /\ req[q] \in Request
    BY <1>1, <1>2, <1>7 DEF ApproveException, Inv, Knows, At
  <2>2. [req[q] EXCEPT !.pc = "readNet"] \in Request
    BY <2>1 DEF Request
  <2>3. req' \in [Requests -> Request]
    BY <1>2, <1>4, <1>7, <2>2 DEF ApproveException
  <2>4. QED
    BY <1>2, <1>7, <2>1, <2>3 DEF ApproveException, Decisions
<1>8. ASSUME NEW q \in Requests, ReadNet(q) PROVE TypeOK'
  <2>1. RecordOf[req[q].exc] \in Records
    BY <1>1, <1>8, Linked DEF ReadNet, Inv, Knows, At
  <2>2. recs[RecordOf[req[q].exc]].net \in Int
    BY <1>2, <2>1 DEF RecordRow
  <2>3. QED
    BY <1>2, <1>8, <2>2 DEF ReadNet, Request
<1>9. ASSUME NEW q \in Requests, WriteBack(q) PROVE TypeOK'
  <2>1. /\ RecordOf[req[q].exc] \in Records
        /\ Impact[req[q].exc] \in Int /\ req[q].read \in Int
    BY <1>1, <1>2, <1>9, Linked DEF WriteBack, Inv, Knows, At, Request
  <2>2. recs' = WriteNet(RecordOf[req[q].exc], req[q].read + Impact[req[q].exc])
    BY <1>9 DEF WriteBack
  <2>3. req[q].read + Impact[req[q].exc] \in Int
    BY <2>1
  <2>4. recs' \in [Records -> RecordRow]
    BY <1>2, <2>1, <2>2, <2>3, TableKept
  <2>5. QED
    BY <1>2, <1>4, <1>9, <2>4 DEF WriteBack
<1>10. ASSUME NEW q \in Requests, RejectException(q) PROVE TypeOK'
  BY <1>2, <1>4, <1>10 DEF RejectException, Decisions
<1>11. ASSUME NEW q \in Requests, Fail(q) PROVE TypeOK'
  BY <1>2, <1>4, <1>11 DEF Fail
<1>12. ASSUME NEW r \in Records, Close(r) PROVE TypeOK'
  BY <1>2, <1>12, TableKept DEF Close
<1>13. CASE UNCHANGED vars
  BY <1>2, <1>13 DEF vars
<1>14. QED
  BY <1>1, <1>5, <1>6, <1>7, <1>8, <1>9, <1>10, <1>11, <1>12, <1>13 DEF Next, Handle

(* A decision that has been taken is not changed by any statement. *)
LEMMA DecisionKept ==
  TypeOK /\ [Next]_vars =>
    \A e \in Exceptions : exc[e] \in Decisions => exc'[e] = exc[e]
<1>1. SUFFICES ASSUME TypeOK, [Next]_vars, NEW e \in Exceptions, exc[e] \in Decisions
               PROVE  exc'[e] = exc[e]
  OBVIOUS
<1>2. exc \in [Exceptions -> {"Absent", "Requested"} \cup Decisions]
  BY <1>1 DEF TypeOK
<1>3. ASSUME NEW d \in Exceptions, CreateException(d) PROVE exc'[e] = exc[e]
  BY <1>1, <1>2, <1>3 DEF CreateException, Decisions
<1>4. ASSUME NEW q \in Requests, Handle(q) PROVE exc'[e] = exc[e]
  <2>1. CASE ApproveException(q)
    BY <1>1, <1>2, <2>1 DEF ApproveException, Decisions
  <2>2. CASE RejectException(q)
    BY <1>1, <1>2, <2>2 DEF RejectException, Decisions
  <2>3. CASE ~ApproveException(q) /\ ~RejectException(q)
    BY <1>4, <2>3 DEF Handle, DecideRequest, ReadNet, WriteBack, Fail
  <2>4. QED
    BY <2>1, <2>2, <2>3
<1>5. QED
  BY <1>1, <1>3, <1>4 DEF Next, vars, Close

(* A request reaches the adjustment by the UPDATE that approves its         *)
(* exception, and no other request is adjusting for it then.                *)
LEMMA KnowsStep == Inv /\ [Next]_vars => (Knows /\ Apart)'
<1>1. SUFFICES ASSUME Inv, [Next]_vars PROVE (Knows /\ Apart)'
  OBVIOUS
<1>2. req \in [Requests -> Request] /\ Knows /\ Apart
      /\ exc \in [Exceptions -> {"Absent", "Requested"} \cup Decisions]
  BY <1>1 DEF Inv, TypeOK
<1>3. \A e \in Exceptions : exc[e] = "Approved" => exc'[e] = "Approved"
  BY <1>1, DecisionKept DEF Inv, Decisions
<1>4. ASSUME UNCHANGED req PROVE (Knows /\ Apart)'
  BY <1>2, <1>3, <1>4 DEF Knows, Apart, At
<1>5. ASSUME NEW q \in Requests, Return(q) PROVE (Knows /\ Apart)'
  BY <1>2, <1>3, <1>5 DEF Return, Idle, Knows, Apart, At
<1>6. ASSUME NEW q \in Requests, NEW e \in Exceptions, NEW pc \in {"approve", "reject"},
             DecideRequest(q, e, pc)
      PROVE  (Knows /\ Apart)'
  <2>1. /\ req'[q].pc \notin {"readNet", "writeNet"} /\ req'[q].exc = e
        /\ \A p \in Requests : p # q => req'[p] = req[p]
    BY <1>2, <1>6 DEF DecideRequest, Idle
  <2>2. QED
    BY <1>2, <1>3, <2>1 DEF Knows, Apart, At
<1>7. ASSUME NEW q \in Requests, ApproveException(q), ~Return(q)
      PROVE  (Knows /\ Apart)'
  <2>1. /\ req[q].exc \in Exceptions /\ exc[req[q].exc] = "Requested"
        /\ Adjusts(req[q].exc) /\ exc'[req[q].exc] = "Approved"
    BY <1>2, <1>7 DEF ApproveException, Knows, At
  <2>2. /\ req'[q].pc = "readNet" /\ req'[q].exc = req[q].exc
        /\ \A p \in Requests : p # q => req'[p] = req[p]
    BY <1>2, <1>7 DEF ApproveException, Request
  <2>3. \A p \in Requests : req[p].pc \in {"readNet", "writeNet"} =>
                              req[p].exc # req[q].exc
    BY <1>2, <2>1 DEF Knows
  <2>4. QED
    BY <1>2, <1>3, <2>1, <2>2, <2>3 DEF Knows, Apart, At
<1>8. ASSUME NEW q \in Requests, ReadNet(q) PROVE (Knows /\ Apart)'
  <2>1. /\ req[q].pc = "readNet" /\ req'[q].pc = "writeNet" /\ req'[q].exc = req[q].exc
        /\ \A p \in Requests : p # q => req'[p] = req[p]
    BY <1>2, <1>8 DEF ReadNet, Request, At
  <2>2. QED
    BY <1>2, <1>3, <2>1 DEF Knows, Apart, At
<1>9. ASSUME NEW q \in Requests, Handle(q) PROVE (Knows /\ Apart)'
  BY <1>5, <1>6, <1>7, <1>8, <1>9 DEF Handle, WriteBack, RejectException, Fail
<1>10. QED
  BY <1>1, <1>4, <1>9 DEF Next, vars, CreateException, Close

LEMMA Invariance == Spec => []Inv
<1>1. Inv /\ [Next]_vars => Inv'
  BY TypeStep, KnowsStep DEF Inv
<1>2. QED
  BY InvInit, <1>1, PTL DEF Spec

(* The rows and the requests have their types.                              *)
THEOREM TypeCorrect == Spec => []TypeOK
<1>1. Inv => TypeOK
  BY DEF Inv
<1>2. QED
  BY <1>1, Invariance, PTL

(* No two requests ever carry the same amount to a record, and only an      *)
(* approved exception moves one: handleApproveException adjusts after the   *)
(* guarded UPDATE of approveException has returned a row.                   *)
THEOREM AdjustmentsAreSingle == Spec => []OneAdjustment
<1>1. Inv => OneAdjustment
  BY DEF Inv, Knows, Apart, OneAdjustment
<1>2. QED
  BY <1>1, Invariance, PTL

(* The first decision on an exception stands, whoever decides and however   *)
(* often (approveException, rejectException).                               *)
THEOREM DecisionsStand == Spec => DecidedOnce
<1>1. Inv /\ [Next]_vars =>
        [\A e \in Exceptions : exc[e] \in Decisions => exc'[e] = exc[e]]_vars
  BY DecisionKept DEF Inv
<1>2. QED
  BY <1>1, Invariance, PTL DEF Spec, DecidedOnce

-----------------------------------------------------------------------------
(* The amounts.  What a record has, and what a request has read of it, is   *)
(* the sum over approved exceptions none of which is still to be added.     *)

Pending == {req[q].exc : q \in {x \in Requests : req[x].pc \in {"readNet", "writeNet"}}}

Added(r) == ApprovedFor(r) \ Pending

FromAdded(r, n) == \E S \in SUBSET Added(r) : IsFiniteSet(S) /\ n = Total(S)

NetInv ==
  /\ \A r \in Records : FromAdded(r, recs[r].net)
  /\ \A q \in Requests : req[q].pc = "writeNet" => FromAdded(RecordOf[req[q].exc], req[q].read)

LEMMA TotalIsSum == ASSUME NEW S PROVE Total(S) = Sum(Impact, S)
BY DEF Total, Sum

LEMMA NothingAdded == ASSUME NEW r PROVE FromAdded(r, 0)
<1>1. Total({}) = 0
  BY SumEmpty, TotalIsSum
<1>. QED BY <1>1, FS_EmptySet DEF FromAdded

(* An exception that is being added is approved already, and one that has   *)
(* been added stays so: the set a sum is over only grows.                   *)
LEMMA AddedGrows ==
  ASSUME Inv, [Next]_vars, NEW r
  PROVE  Added(r) \subseteq Added(r)'
<1>1. \A e \in Exceptions : exc[e] = "Approved" => exc'[e] = "Approved"
  BY DecisionKept DEF Inv, Decisions
<1>2. \A e \in Pending' : e \in Pending \/ exc[e] # "Approved"
  <2>1. SUFFICES ASSUME NEW q \in Requests, req'[q].pc \in {"readNet", "writeNet"},
                        req'[q].exc \notin Pending
                 PROVE  exc[req'[q].exc] # "Approved"
    BY DEF Pending
  <2>2. req \in [Requests -> Request]
    BY DEF Inv, TypeOK
  <2>3. CASE req'[q] = req[q]
    BY <2>1, <2>3 DEF Pending
  <2>4. CASE req'[q] # req[q]
    <3>1. PICK p \in Requests : Handle(p)
      BY <2>4 DEF Next, vars, CreateException, Close
    <3>2. ~ Return(p)
      BY <2>1, <2>2, <2>4 DEF Return, Idle
    <3>3. CASE ApproveException(p)
      BY <2>2, <2>4, <3>2, <3>3 DEF ApproveException, Request
    <3>4. CASE ReadNet(p)
      <4>1. req'[q].exc = req[q].exc /\ req[q].pc = "readNet"
        BY <2>2, <2>4, <3>4 DEF ReadNet, Request, At
      <4>. QED BY <2>1, <4>1 DEF Pending
    <3>5. CASE \E e \in Exceptions, pc \in {"approve", "reject"} : DecideRequest(p, e, pc)
      BY <2>1, <2>2, <2>4, <3>5 DEF DecideRequest
    <3>. QED BY <3>1, <3>2, <3>3, <3>4, <3>5 DEF Handle, WriteBack, RejectException, Fail
  <2>. QED BY <2>3, <2>4
<1>. QED BY <1>1, <1>2 DEF Added, ApprovedFor

LEMMA FromAddedKept ==
  ASSUME Inv, [Next]_vars, NEW r, NEW n, FromAdded(r, n)
  PROVE  FromAdded(r, n)'
BY AddedGrows DEF FromAdded

(* What a request is about to write is the sum over one exception more.     *)
LEMMA WriteAdds ==
  ASSUME Inv, NetInv, NEW q \in Requests, WriteBack(q),
         NEW e, e = req[q].exc, NEW n, n = req[q].read + Impact[e]
  PROVE  FromAdded(RecordOf[e], n)'
<1>1. /\ e \in Exceptions /\ Adjusts(e) /\ exc[e] = "Approved" /\ exc' = exc
      /\ req[q].pc = "writeNet" /\ req' = [req EXCEPT ![q] = Idle]
  BY DEF WriteBack, At, Inv, Knows, Return
<1>2. PICK S \in SUBSET Added(RecordOf[e]) : IsFiniteSet(S) /\ req[q].read = Total(S)
  BY <1>1 DEF NetInv, FromAdded
<1>3. e \notin S
  BY <1>1 DEF Added, Pending
<1>4. Ints(Impact, S) /\ Impact[e] \in Int
  BY <1>1, Linked, ImpactAssumption DEF Ints, Added, ApprovedFor
<1>5. n = Total(S \cup {e}) /\ IsFiniteSet(S \cup {e})
  <2>1. Sum(Impact, S \cup {e}) = Impact[e] + Sum(Impact, S)
    BY <1>2, <1>3, <1>4, SumAdd
  <2>2. Sum(Impact, S) \in Int
    BY <1>2, <1>4, SumInt
  <2>3. Total(S \cup {e}) = Sum(Impact, S \cup {e}) /\ req[q].read = Sum(Impact, S)
    BY <1>2, TotalIsSum
  <2>. QED BY <1>2, <1>4, <2>1, <2>2, <2>3, FS_AddElement
<1>6. S \cup {e} \subseteq Added(RecordOf[e])'
  <2>1. \A p \in Requests : p # q => req'[p] = req[p]
    BY <1>1 DEF Inv, TypeOK
  <2>2. req'[q].pc = "idle"
    BY <1>1 DEF Inv, TypeOK, Idle
  <2>3. Pending' \subseteq Pending /\ e \notin Pending'
    BY <1>1, <2>1, <2>2 DEF Pending, Inv, Apart
  <2>4. ApprovedFor(RecordOf[e])' = ApprovedFor(RecordOf[e]) /\ e \in ApprovedFor(RecordOf[e])
    BY <1>1 DEF ApprovedFor, Adjusts
  <2>. QED BY <1>2, <2>3, <2>4 DEF Added
<1>. QED BY <1>5, <1>6 DEF FromAdded

LEMMA NetStep == ASSUME Inv, NetInv, [Next]_vars PROVE NetInv'
<1>1. /\ recs \in [Records -> RecordRow] /\ req \in [Requests -> Request]
      /\ RecordOf \in [Exceptions -> Records \cup {None}]
  BY RecordOfAssumption DEF Inv, TypeOK, RecordsTypeOK
<1>2. ASSUME NEW r \in Records, recs'[r].net = recs[r].net
      PROVE  FromAdded(r, recs[r].net)'
  BY <1>2, FromAddedKept DEF NetInv
<1>3. ASSUME NEW q \in Requests, req'[q] = req[q], req[q].pc = "writeNet"
      PROVE  FromAdded(RecordOf[req[q].exc], req[q].read)'
  BY <1>3, FromAddedKept DEF NetInv
<1>4. ASSUME UNCHANGED recs, \A q \in Requests : req'[q] = req[q] \/ req'[q].pc # "writeNet"
      PROVE  NetInv'
  BY <1>2, <1>3, <1>4 DEF NetInv
<1>5. ASSUME NEW q \in Requests, UNCHANGED recs,
             \/ Return(q)
             \/ \E e \in Exceptions, pc \in {"approve", "reject"} : DecideRequest(q, e, pc)
             \/ ApproveException(q)
      PROVE  NetInv'
  BY <1>1, <1>4, <1>5 DEF Return, Idle, DecideRequest, ApproveException, Request
<1>6. ASSUME NEW q \in Requests, ReadNet(q)
      PROVE  NetInv'
  <2>1. PICK r \in Records : r = RecordOf[req[q].exc]
    BY <1>6, Linked DEF ReadNet, Inv, Knows, At
  <2>2. /\ UNCHANGED recs /\ req'[q].read = recs'[r].net /\ r = RecordOf[req'[q].exc]
        /\ \A p \in Requests : p # q => req'[p] = req[p]
    BY <1>1, <1>6, <2>1 DEF ReadNet, Request
  <2>3. FromAdded(r, recs[r].net)'
    BY <1>2, <2>1, <2>2
  <2>4. FromAdded(RecordOf[req[q].exc], req[q].read)'
    BY <2>2, <2>3
  <2>. QED BY <1>2, <1>3, <2>2, <2>4 DEF NetInv
<1>7. ASSUME NEW q \in Requests, WriteBack(q)
      PROVE  NetInv'
  <2>1. PICK e \in Exceptions : e = req[q].exc /\ RecordOf[e] \in Records
    BY <1>7, Linked DEF WriteBack, Inv, Knows, At
  <2>2. PICK n : n = req[q].read + Impact[e]
    OBVIOUS
  <2>3. FromAdded(RecordOf[e], n)'
    BY <1>7, <2>1, <2>2, WriteAdds
  <2>4. recs'[RecordOf[e]].net = n /\ \A x \in Records : x # RecordOf[e] => recs'[x] = recs[x]
    BY <1>1, <1>7, <2>1, <2>2 DEF WriteBack, WriteNet, RecordRow
  <2>5. FromAdded(RecordOf[e], recs[RecordOf[e]].net)'
    BY <2>3, <2>4
  <2>6. \A x \in Records : FromAdded(x, recs[x].net)'
    BY <1>2, <2>4, <2>5
  <2>7. \A p \in Requests : req'[p] = req[p] \/ req'[p].pc # "writeNet"
    BY <1>1, <1>7 DEF WriteBack, Return, Idle
  <2>. QED BY <1>3, <2>6, <2>7 DEF NetInv
<1>8. ASSUME NEW x \in Records, Close(x)
      PROVE  NetInv'
  <2>1. \A r \in Records : recs'[r].net = recs[r].net \/ recs'[r].net = 0
    BY <1>1, <1>8 DEF Close, createCommissionRecord, ApprovePending, Advance, RecordRow
  <2>2. \A r \in Records : FromAdded(r, 0)'
    BY FromAddedKept, NothingAdded
  <2>3. \A r \in Records : FromAdded(r, recs[r].net)'
    BY <1>2, <2>1, <2>2
  <2>. QED BY <1>3, <1>8, <2>3 DEF NetInv, Close
<1>9. ASSUME NEW e \in Exceptions, CreateException(e) PROVE NetInv'
  BY <1>4, <1>9 DEF CreateException
<1>10. CASE UNCHANGED vars
  BY <1>4, <1>10 DEF vars
<1>. QED
  BY <1>5, <1>6, <1>7, <1>8, <1>9, <1>10
  DEF Next, Handle, DecideRequest, ApproveException, RejectException, Fail

(* However requests overlap, fail and are repeated, net_payable is what it  *)
(* was calculated as plus the amounts of some approved exceptions, none of  *)
(* them twice: handleApproveException adds each amount once and             *)
(* adjustNetPayable writes a sum of such amounts, even of an old reading.   *)
THEOREM NetIsFromApproved == Spec => []NetFromApproved
<1>1. Init => NetInv
  <2>1. SUFFICES ASSUME Init PROVE NetInv
    OBVIOUS
  <2>2. \A r \in Records : recs[r].net = 0
    BY <2>1 DEF Init, RecordsInit
  <2>. QED BY <2>1, <2>2, NothingAdded DEF NetInv, Init, Idle
<1>2. Inv /\ NetInv /\ [Next]_vars => NetInv'
  BY NetStep
<1>3. NetInv => NetFromApproved
  BY DEF NetInv, FromAdded, Added, NetFromApproved
<1>. QED BY <1>1, <1>2, <1>3, Invariance, PTL DEF Spec

-----------------------------------------------------------------------------
(* Disputes.  Who waits for an answer is who resolved, and the table holds  *)
(* what a call has been told, and what a page confirms.                     *)

DisputeTypes ==
  /\ dispute \in [Disputes -> Dispute]
  /\ log \subseteq [dispute : Disputes, by : Pages]
  /\ page \in [Pages -> DisputePage]
  /\ call \in [Calls -> Call]

ResolvedIn(table, d, p) == table[d].state = "Resolved" /\ table[d].by = p
ResolvedBy(d, p) == ResolvedIn(dispute, d, p)

Told(c) ==
  /\ call[c].pc # "idle" => call[c].user \in Pages /\ call[c].dispute \in Disputes
  /\ call[c].page # None => call[c].pc # "idle" /\ call[c].page = call[c].user
  /\ call[c].pc = "audit" \/ (call[c].pc = "answered" /\ call[c].reply = "ok") =>
       ResolvedBy(call[c].dispute, call[c].user)

Awaits(p) == \E c \in Calls : call[c].page = p

(* A page waits for one answer at most, and its button tells so.            *)
OneAnswer ==
  /\ \A c, b \in Calls : call[c].page # None /\ call[c].page = call[b].page => c = b
  /\ \A p \in Pages : (page[p].saving <=> Awaits(p))

Confirmed ==
  \A p \in Pages : page[p].view = "confirmed" =>
    page[p].selected \in Disputes /\ ResolvedBy(page[p].selected, p)

DisputesInv ==
  DisputeTypes /\ (\A c \in Calls : Told(c)) /\ OneAnswer /\ Confirmed /\ AuditNamesResolver

LEMMA DisputesStart ==
  ASSUME NEW state0 \in [Disputes -> {"absent", "UnderReview"}], DisputesInit(state0)
  PROVE  DisputesInv
<1>1. NoPage \in DisputePage /\ NoCall \in Call
  BY DEF NoPage, NoCall, DisputePage, Call
<1>2. \A d \in Disputes : [state |-> state0[d], by |-> None, link |-> None] \in Dispute
  BY DEF Dispute
<1>3. DisputeTypes
  BY <1>1, <1>2 DEF DisputesInit, DisputeTypes
<1>4. (\A c \in Calls : Told(c)) /\ Confirmed /\ AuditNamesResolver
  BY DEF DisputesInit, Told, Confirmed, AuditNamesResolver, NoPage, NoCall
<1>5. OneAnswer
  <2>1. \A p \in Pages : ~Awaits(p) /\ page[p].saving = FALSE
    BY NoDisputeAssumption DEF DisputesInit, Awaits, NoPage, NoCall
  <2>2. \A c \in Calls : call[c].page = None
    BY DEF DisputesInit, NoCall
  <2>3. QED
    BY <2>1, <2>2 DEF OneAnswer
<1>6. QED
  BY <1>3, <1>4, <1>5 DEF DisputesInv

(* A step of one call c, to the contents `next', while the disputes that    *)
(* are resolved stay so.                                                    *)
LEMMA OneCallStep ==
  ASSUME DisputesInv, NEW c \in Calls, NEW next \in Call,
         call' = [call EXCEPT ![c] = next], page' = page,
         dispute' \in [Disputes -> Dispute],
         \A d \in Disputes, p \in Pages : ResolvedBy(d, p) => ResolvedBy(d, p)',
         log' \subseteq [dispute : Disputes, by : Pages],
         \A entry \in log' : ResolvedBy(entry.dispute, entry.by)',
         next.page = call[c].page, next.user = call[c].user, next.dispute = call[c].dispute,
         call[c].pc # "idle", next.pc # "idle",
         next.pc = "audit" \/ (next.pc = "answered" /\ next.reply = "ok") =>
           ResolvedBy(call[c].dispute, call[c].user)'
  PROVE  DisputesInv'
<1>1. DisputeTypes'
  BY DEF DisputesInv, DisputeTypes
<1>2. call'[c] = next /\ \A b \in Calls \ {c} : call'[b] = call[b]
  BY DEF DisputesInv, DisputeTypes
<1>3. ASSUME NEW b \in Calls PROVE Told(b)'
  <2>1. CASE b = c
    BY <1>2, <2>1 DEF DisputesInv, Told
  <2>2. CASE b # c
    BY <1>2, <2>2 DEF DisputesInv, Told
  <2>3. QED
    BY <2>1, <2>2
<1>4. \A b \in Calls : call'[b].page = call[b].page
  BY <1>2
<1>5. OneAnswer'
  <2>1. \A p \in Pages : Awaits(p)' <=> Awaits(p)
    BY <1>4 DEF Awaits
  <2>2. QED
    BY <1>4, <2>1 DEF DisputesInv, OneAnswer
<1>6. ASSUME NEW p \in Pages, page'[p].view = "confirmed"
      PROVE  page'[p].selected \in Disputes /\ ResolvedIn(dispute', page'[p].selected, p)
  <2>1. page[p].selected \in Disputes /\ ResolvedBy(page[p].selected, p) /\ page' = page
    BY <1>6 DEF DisputesInv, Confirmed
  <2>2. ResolvedBy(page[p].selected, p)'
    BY <2>1
  <2>3. QED
    BY <2>1, <2>2 DEF ResolvedBy, ResolvedIn
<1>7. AuditNamesResolver' /\ Confirmed'
  BY <1>6 DEF AuditNamesResolver, ResolvedBy, ResolvedIn, Confirmed
<1>8. QED
  BY <1>1, <1>3, <1>5, <1>7 DEF DisputesInv

LEMMA CreateDisputeStep ==
  ASSUME DisputesInv, NEW d \in Disputes, CreateDispute(d) PROVE DisputesInv'
<1>1. /\ dispute \in [Disputes -> Dispute]
      /\ dispute' = [dispute EXCEPT ![d].state = "Submitted"]
      /\ dispute[d].state = "absent" /\ UNCHANGED <<log, page, call>>
  BY DEF CreateDispute, DisputesInv, DisputeTypes
<1>2. dispute' \in [Disputes -> Dispute]
  BY <1>1 DEF Dispute
<1>3. \A e \in Disputes, p \in Pages : ResolvedBy(e, p) => ResolvedBy(e, p)'
  BY <1>1 DEF ResolvedBy, ResolvedIn
<1>4. DisputeTypes' /\ OneAnswer'
  BY <1>1, <1>2 DEF DisputesInv, DisputeTypes, OneAnswer, Awaits
<1>5. \A c \in Calls : Told(c)'
  BY <1>1, <1>3 DEF DisputesInv, Told
<1>6. Confirmed'
  BY <1>1, <1>3 DEF DisputesInv, Confirmed
<1>7. AuditNamesResolver'
  BY <1>1, <1>3 DEF DisputesInv, DisputeTypes, AuditNamesResolver, ResolvedBy, ResolvedIn
<1>8. QED
  BY <1>4, <1>5, <1>6, <1>7 DEF DisputesInv

(* The page is loaded, or its user goes back: nobody waits any more.        *)
LEMMA ForgetStep ==
  ASSUME DisputesInv, NEW p \in Pages, NEW list \in SUBSET Disputes,
         page' = [page EXCEPT ![p] = [NoPage EXCEPT !.list = list]],
         call' = Forget(p), UNCHANGED <<dispute, log>>
  PROVE  DisputesInv'
<1> DEFINE fresh == [NoPage EXCEPT !.list = list]
<1>1. fresh \in DisputePage /\ fresh.view = "form" /\ fresh.saving = FALSE
  BY DEF NoPage, DisputePage
<1> HIDE DEF fresh
<1>2. page' = [page EXCEPT ![p] = fresh] /\ page \in [Pages -> DisputePage]
      /\ call \in [Calls -> Call]
  BY DEF fresh, DisputesInv, DisputeTypes
<1>3. ASSUME NEW c \in Calls
      PROVE  /\ call'[c] \in Call /\ call'[c].pc = call[c].pc /\ call'[c].user = call[c].user
             /\ call'[c].dispute = call[c].dispute /\ call'[c].reply = call[c].reply
             /\ call'[c].page = IF call[c].page = p THEN None ELSE call[c].page
  BY <1>2 DEF Forget, Call
<1>4. call' \in [Calls -> Call]
  BY <1>3 DEF Forget
<1>5. DisputeTypes'
  BY <1>1, <1>2, <1>4 DEF DisputesInv, DisputeTypes
<1>6. \A c \in Calls : Told(c)'
  BY <1>3 DEF DisputesInv, Told, ResolvedBy, ResolvedIn
<1>7. OneAnswer'
  <2>1. \A c, b \in Calls : call'[c].page # None /\ call'[c].page = call'[b].page => c = b
    BY <1>3 DEF DisputesInv, OneAnswer
  <2>2. ASSUME NEW o \in Pages PROVE page'[o].saving <=> Awaits(o)'
    <3>1. CASE o = p
      <4>1. page'[o].saving = FALSE
        BY <1>1, <1>2, <3>1
      <4>2. ~Awaits(o)'
        BY <1>3, <3>1, NoDisputeAssumption DEF Awaits
      <4>3. QED
        BY <4>1, <4>2
    <3>2. CASE o # p
      <4>1. Awaits(o)' <=> Awaits(o)
        BY <1>3, <3>2, NoDisputeAssumption DEF Awaits
      <4>2. page'[o] = page[o]
        BY <1>2, <3>2
      <4>3. QED
        BY <4>1, <4>2 DEF DisputesInv, OneAnswer
    <3>3. QED
      BY <3>1, <3>2
  <2>3. QED
    BY <2>1, <2>2 DEF OneAnswer
<1>8. Confirmed'
  BY <1>1, <1>2 DEF DisputesInv, Confirmed, ResolvedBy, ResolvedIn
<1>9. AuditNamesResolver'
  BY DEF DisputesInv, AuditNamesResolver
<1>10. QED
  BY <1>5, <1>6, <1>7, <1>8, <1>9 DEF DisputesInv

LEMMA SelectDisputeStep ==
  ASSUME DisputesInv, NEW p \in Pages, NEW d \in Disputes, SelectDispute(p, d) PROVE DisputesInv'
<1> DEFINE next == [page[p] EXCEPT !.selected = d]
<1>1. page \in [Pages -> DisputePage] /\ UNCHANGED <<dispute, log, call>>
  BY DEF DisputesInv, DisputeTypes, SelectDispute
<1>2. next \in DisputePage /\ next.view = page[p].view
  BY <1>1 DEF DisputePage
<1>3. next.saving = page[p].saving
  BY <1>1 DEF DisputePage
<1> HIDE DEF next
<1>4. page' = [page EXCEPT ![p] = next]
  BY DEF SelectDispute, next
<1>5. page[p].view # "confirmed"
  BY NoDisputeAssumption DEF SelectDispute, DisputesInv, Confirmed
<1>6. DisputeTypes'
  BY <1>1, <1>2, <1>4 DEF DisputesInv, DisputeTypes
<1>7. \A o \in Pages : page'[o].saving = page[o].saving
  BY <1>1, <1>3, <1>4
<1>8. OneAnswer'
  BY <1>1, <1>7 DEF DisputesInv, OneAnswer, Awaits
<1>9. (\A c \in Calls : Told(c)') /\ AuditNamesResolver'
  BY <1>1 DEF DisputesInv, Told, ResolvedBy, ResolvedIn, AuditNamesResolver
<1>10. Confirmed'
  BY <1>1, <1>2, <1>4, <1>5 DEF DisputesInv, Confirmed, ResolvedBy, ResolvedIn
<1>11. QED
  BY <1>6, <1>8, <1>9, <1>10 DEF DisputesInv

LEMMA ResolveStep ==
  ASSUME DisputesInv, NEW p \in Pages, NEW c \in Calls, NEW e \in Exceptions \cup {None},
         Resolve(p, c, e)
  PROVE  DisputesInv'
<1> DEFINE next == [page[p] EXCEPT !.saving = TRUE, !.view = "form"]
           made == [NoCall EXCEPT !.pc = "check", !.page = p, !.user = p,
                                  !.dispute = page[p].selected, !.link = e]
<1>1. /\ page \in [Pages -> DisputePage] /\ call \in [Calls -> Call]
      /\ page[p].selected \in Disputes /\ ~page[p].saving /\ call[c].pc = "idle"
      /\ UNCHANGED <<dispute, log>>
  BY DEF DisputesInv, DisputeTypes, Resolve, DisputePage
<1>2. next \in DisputePage /\ next.view = "form"
  BY <1>1 DEF DisputePage
<1>3. next.saving = TRUE
  BY <1>1 DEF DisputePage
<1>4. /\ made \in Call /\ made.pc = "check" /\ made.page = p /\ made.user = p
      /\ made.dispute = page[p].selected
  BY <1>1 DEF NoCall, Call
<1> HIDE DEF next, made
<1>5. page' = [page EXCEPT ![p] = next] /\ call' = [call EXCEPT ![c] = made]
  BY DEF Resolve, next, made
<1>6. /\ call'[c] = made /\ \A b \in Calls \ {c} : call'[b] = call[b] /\ call[b].page # p
      /\ call[c].page = None
  BY <1>1, <1>5 DEF DisputesInv, OneAnswer, Awaits, Told
<1>7. DisputeTypes'
  BY <1>1, <1>2, <1>4, <1>5 DEF DisputesInv, DisputeTypes
<1>8. \A b \in Calls : Told(b)'
  <2>1. ASSUME NEW b \in Calls, b # c PROVE Told(b)'
    BY <1>1, <1>6, <2>1 DEF DisputesInv, Told, ResolvedBy, ResolvedIn
  <2>2. Told(c)'
    BY <1>1, <1>4, <1>6 DEF Told
  <2>3. QED
    BY <2>1, <2>2
<1>9. OneAnswer'
  <2>1. ASSUME NEW a \in Calls, NEW b \in Calls, call'[a].page # None, call'[a].page = call'[b].page
        PROVE  a = b
    BY <1>4, <1>6, <2>1 DEF DisputesInv, OneAnswer
  <2>2. ASSUME NEW o \in Pages PROVE page'[o].saving <=> Awaits(o)'
    <3>1. CASE o = p
      <4>1. page'[o].saving = TRUE
        BY <1>1, <1>3, <1>5, <3>1
      <4>2. Awaits(o)'
        BY <1>4, <1>6, <3>1 DEF Awaits
      <4>3. QED
        BY <4>1, <4>2
    <3>2. CASE o # p
      <4>1. Awaits(o)' <=> Awaits(o)
        BY <1>4, <1>6, <3>2, NoDisputeAssumption DEF Awaits
      <4>2. page'[o] = page[o]
        BY <1>1, <1>5, <3>2
      <4>3. QED
        BY <4>1, <4>2 DEF DisputesInv, OneAnswer
    <3>3. QED
      BY <3>1, <3>2
  <2>3. QED
    BY <2>1, <2>2 DEF OneAnswer
<1>10. Confirmed' /\ AuditNamesResolver'
  BY <1>1, <1>2, <1>5 DEF DisputesInv, Confirmed, ResolvedBy, ResolvedIn, AuditNamesResolver
<1>11. QED
  BY <1>7, <1>8, <1>9, <1>10 DEF DisputesInv

(* Whoever waited waits no more: with the answer, or because it was lost.   *)
LEMMA NoLongerWaits ==
  ASSUME DisputesInv, NEW c \in Calls, call[c].page # None,
         NEW next \in DisputePage, next.saving = FALSE,
         page' = [page EXCEPT ![call[c].page] = next],
         call' \in [Calls -> Call], call'[c].page = None,
         \A b \in Calls \ {c} : call'[b] = call[b]
  PROVE  OneAnswer' /\ page' \in [Pages -> DisputePage]
<1> DEFINE p == call[c].page
<1>1. p \in Pages /\ page \in [Pages -> DisputePage]
  BY DEF DisputesInv, DisputeTypes, Told
<1>2. page'[p] = next /\ \A o \in Pages \ {p} : page'[o] = page[o]
  BY <1>1
<1>3. \A b \in Calls \ {c} : call[b].page # p
  BY DEF DisputesInv, OneAnswer
<1>4. \A a, b \in Calls : call'[a].page # None /\ call'[a].page = call'[b].page => a = b
  BY DEF DisputesInv, OneAnswer
<1>5. ASSUME NEW o \in Pages PROVE page'[o].saving <=> Awaits(o)'
  <2>1. CASE o = p
    <3>1. page'[o].saving = FALSE
      BY <1>2, <2>1
    <3>2. ~Awaits(o)'
      BY <1>1, <1>3, <2>1, NoDisputeAssumption DEF Awaits
    <3>3. QED
      BY <3>1, <3>2
  <2>2. CASE o # p
    <3>1. Awaits(o)' <=> Awaits(o)
      BY <2>2, NoDisputeAssumption DEF Awaits
    <3>2. page'[o] = page[o]
      BY <1>2, <2>2
    <3>3. QED
      BY <3>1, <3>2 DEF DisputesInv, OneAnswer
  <2>3. QED
    BY <2>1, <2>2
<1>6. QED
  BY <1>1, <1>4, <1>5 DEF OneAnswer

LEMMA AnswerStep == ASSUME DisputesInv, NEW c \in Calls, Answer(c) PROVE DisputesInv'
<1>1. /\ call \in [Calls -> Call] /\ page \in [Pages -> DisputePage]
      /\ call[c].pc = "answered" /\ call' = [call EXCEPT ![c] = NoCall]
      /\ UNCHANGED <<dispute, log>>
  BY DEF DisputesInv, DisputeTypes, Answer
<1>2. NoCall \in Call /\ NoCall.page = None /\ NoCall.pc = "idle"
  BY DEF NoCall, Call
<1>3. /\ call' \in [Calls -> Call] /\ call'[c] = NoCall
      /\ \A b \in Calls \ {c} : call'[b] = call[b]
  BY <1>1, <1>2
<1>4. \A b \in Calls : Told(b)'
  BY <1>1, <1>2, <1>3 DEF DisputesInv, Told, ResolvedBy, ResolvedIn
<1>5. AuditNamesResolver'
  BY <1>1 DEF DisputesInv, AuditNamesResolver
<1>6. CASE call[c].page = None
  <2>1. page' = page
    BY <1>6 DEF Answer
  <2>2. DisputeTypes' /\ Confirmed'
    BY <1>1, <1>3, <2>1 DEF DisputesInv, DisputeTypes, Confirmed, ResolvedBy, ResolvedIn
  <2>3. \A b \in Calls : call'[b].page = call[b].page
    BY <1>2, <1>3, <1>6
  <2>4. OneAnswer'
    <3>1. \A p \in Pages : Awaits(p)' <=> Awaits(p)
      BY <2>3 DEF Awaits
    <3>2. QED
      BY <2>1, <2>3, <3>1 DEF DisputesInv, OneAnswer
  <2>5. QED
    BY <1>4, <1>5, <2>2, <2>4 DEF DisputesInv
<1>7. CASE call[c].page # None
  <2> DEFINE p == call[c].page
             next == IF call[c].reply = "ok"
                       THEN [page[p] EXCEPT !.saving = FALSE, !.view = "confirmed",
                                            !.selected = call[c].dispute]
                       ELSE [page[p] EXCEPT !.saving = FALSE, !.view = "error"]
  <2>1. /\ p \in Pages /\ p = call[c].user /\ call[c].dispute \in Disputes
        /\ call[c].reply = "ok" => ResolvedBy(call[c].dispute, p)
    BY <1>1, <1>7 DEF DisputesInv, Told
  <2>2. page' = [page EXCEPT ![p] = next]
    BY <1>7 DEF Answer
  <2>a. ASSUME call[c].reply = "ok"
        PROVE  next \in DisputePage /\ next.saving = FALSE /\ next.selected = call[c].dispute
    <3>1. next \in DisputePage /\ next.selected = call[c].dispute
      BY <1>1, <2>1, <2>a DEF DisputePage
    <3>2. next.saving = FALSE
      BY <1>1, <2>1, <2>a DEF DisputePage
    <3>3. QED
      BY <2>a, <3>1, <3>2
  <2>b. ASSUME call[c].reply # "ok"
        PROVE  next \in DisputePage /\ next.saving = FALSE /\ next.view = "error"
    <3>1. next = [page[p] EXCEPT !.saving = FALSE, !.view = "error"] /\ page[p] \in DisputePage
      BY <1>1, <2>1, <2>b
    <3> HIDE DEF next
    <3>2. next \in DisputePage
      BY <3>1 DEF DisputePage
    <3>3. next.view = "error"
      BY <3>1 DEF DisputePage
    <3>4. next.saving = FALSE
      BY <3>1 DEF DisputePage
    <3>5. QED
      BY <3>2, <3>3, <3>4
  <2>3. /\ next \in DisputePage /\ next.saving = FALSE
        /\ next.view = "confirmed" => next.selected = call[c].dispute /\ call[c].reply = "ok"
    BY <2>a, <2>b
  <2> HIDE DEF next
  <2>6. OneAnswer' /\ page' \in [Pages -> DisputePage]
    BY <1>2, <1>3, <1>7, <2>2, <2>3, NoLongerWaits
  <2>7. page'[p] = next /\ \A o \in Pages \ {p} : page'[o] = page[o]
    BY <1>1, <2>1, <2>2
  <2>8. Confirmed'
    <3>1. ASSUME NEW o \in Pages, o # p, page'[o].view = "confirmed"
          PROVE  page'[o].selected \in Disputes /\ ResolvedIn(dispute', page'[o].selected, o)
      BY <1>1, <2>7, <3>1 DEF DisputesInv, Confirmed, ResolvedBy, ResolvedIn
    <3>2. page'[p].view = "confirmed" =>
            page'[p].selected \in Disputes /\ ResolvedIn(dispute', page'[p].selected, p)
      BY <1>1, <2>1, <2>3, <2>7 DEF ResolvedBy, ResolvedIn
    <3>3. QED
      BY <3>1, <3>2 DEF Confirmed, ResolvedBy
  <2>9. DisputeTypes'
    BY <1>1, <1>3, <2>6 DEF DisputesInv, DisputeTypes
  <2>10. QED
    BY <1>4, <1>5, <2>6, <2>8, <2>9 DEF DisputesInv
<1>8. QED
  BY <1>6, <1>7

LEMMA LoseAnswerStep == ASSUME DisputesInv, NEW c \in Calls, LoseAnswer(c) PROVE DisputesInv'
<1> DEFINE p == call[c].page
           next == [page[p] EXCEPT !.saving = FALSE, !.view = "error"]
           made == [call[c] EXCEPT !.page = None]
<1>1. /\ call \in [Calls -> Call] /\ page \in [Pages -> DisputePage]
      /\ p # None /\ p \in Pages /\ UNCHANGED <<dispute, log>>
  BY DEF DisputesInv, DisputeTypes, LoseAnswer, Told
<1>2. next \in DisputePage /\ next.view = "error"
  BY <1>1 DEF DisputePage
<1>3. next.saving = FALSE
  BY <1>1 DEF DisputePage
<1>4. /\ made \in Call /\ made.page = None /\ made.pc = call[c].pc /\ made.user = call[c].user
      /\ made.dispute = call[c].dispute /\ made.reply = call[c].reply
  BY <1>1 DEF Call
<1> HIDE DEF next, made
<1>5. page' = [page EXCEPT ![p] = next] /\ call' = [call EXCEPT ![c] = made]
  BY DEF LoseAnswer, next, made
<1>6. /\ call' \in [Calls -> Call] /\ call'[c] = made
      /\ \A b \in Calls \ {c} : call'[b] = call[b]
  BY <1>1, <1>4, <1>5
<1>7. OneAnswer' /\ page' \in [Pages -> DisputePage]
  BY <1>1, <1>2, <1>3, <1>4, <1>5, <1>6, NoLongerWaits
<1>8. \A b \in Calls : Told(b)'
  BY <1>1, <1>4, <1>6 DEF DisputesInv, Told, ResolvedBy, ResolvedIn
<1>9. Confirmed'
  BY <1>1, <1>2, <1>5 DEF DisputesInv, Confirmed, ResolvedBy, ResolvedIn
<1>10. DisputeTypes' /\ AuditNamesResolver'
  BY <1>1, <1>6, <1>7 DEF DisputesInv, DisputeTypes, AuditNamesResolver
<1>11. QED
  BY <1>7, <1>8, <1>9, <1>10 DEF DisputesInv

(* The statements of the handler.                                           *)
LEMMA ReplyOK ==
  ASSUME call \in [Calls -> Call], NEW c \in Calls, NEW reply \in {"ok", "refused"}, Reply(c, reply)
  PROVE  \E next \in Call :
           /\ call' = [call EXCEPT ![c] = next] /\ next.pc = "answered" /\ next.reply = reply
           /\ next.page = call[c].page /\ next.user = call[c].user /\ next.dispute = call[c].dispute
<1> DEFINE next == [call[c] EXCEPT !.pc = "answered", !.reply = reply]
<1>1. /\ next \in Call /\ next.pc = "answered" /\ next.reply = reply
      /\ next.page = call[c].page /\ next.user = call[c].user /\ next.dispute = call[c].dispute
  BY DEF Call
<1> HIDE DEF next
<1>2. call' = [call EXCEPT ![c] = next]
  BY DEF Reply, next
<1>3. QED
  BY <1>1, <1>2

LEMMA GoOnOK ==
  ASSUME call \in [Calls -> Call], NEW c \in Calls, NEW pc \in {"update", "audit"}, GoOn(c, pc)
  PROVE  \E next \in Call :
           /\ call' = [call EXCEPT ![c] = next] /\ next.pc = pc
           /\ next.page = call[c].page /\ next.user = call[c].user /\ next.dispute = call[c].dispute
<1> DEFINE next == [call[c] EXCEPT !.pc = pc]
<1>1. /\ next \in Call /\ next.pc = pc
      /\ next.page = call[c].page /\ next.user = call[c].user /\ next.dispute = call[c].dispute
  BY DEF Call
<1> HIDE DEF next
<1>2. call' = [call EXCEPT ![c] = next]
  BY DEF GoOn, next
<1>3. QED
  BY <1>1, <1>2

LEMMA RefusedStep ==
  ASSUME DisputesInv, NEW c \in Calls, call[c].pc # "idle", Reply(c, "refused"),
         UNCHANGED <<dispute, log, page>>
  PROVE  DisputesInv'
<1>1. call \in [Calls -> Call] /\ dispute' \in [Disputes -> Dispute]
      /\ log' \subseteq [dispute : Disputes, by : Pages] /\ page' = page
  BY DEF DisputesInv, DisputeTypes
<1>2. PICK next \in Call :
        /\ call' = [call EXCEPT ![c] = next] /\ next.pc = "answered" /\ next.reply = "refused"
        /\ next.page = call[c].page /\ next.user = call[c].user /\ next.dispute = call[c].dispute
  BY <1>1, ReplyOK
<1>3. \A d \in Disputes, p \in Pages : ResolvedBy(d, p) => ResolvedBy(d, p)'
  BY DEF ResolvedBy, ResolvedIn
<1>4. \A entry \in log' : ResolvedBy(entry.dispute, entry.by)'
  BY DEF DisputesInv, AuditNamesResolver, ResolvedBy, ResolvedIn
<1>5. next.pc # "idle" /\ ~(next.pc = "audit" \/ (next.pc = "answered" /\ next.reply = "ok"))
  BY <1>2
<1>6. QED
  BY <1>1, <1>2, <1>3, <1>4, <1>5, OneCallStep

LEMMA CheckDisputeStep == ASSUME DisputesInv, NEW c \in Calls, CheckDispute(c) PROVE DisputesInv'
<1>1. call[c].pc # "idle" /\ UNCHANGED <<dispute, log, page>>
  BY DEF CheckDispute
<1>2. CASE Reply(c, "refused")
  BY <1>1, <1>2, RefusedStep
<1>3. CASE GoOn(c, "update")
  <2>1. call \in [Calls -> Call] /\ dispute' \in [Disputes -> Dispute]
        /\ log' \subseteq [dispute : Disputes, by : Pages] /\ page' = page
    BY <1>1 DEF DisputesInv, DisputeTypes
  <2>2. PICK next \in Call :
          /\ call' = [call EXCEPT ![c] = next] /\ next.pc = "update"
          /\ next.page = call[c].page /\ next.user = call[c].user /\ next.dispute = call[c].dispute
    BY <1>3, <2>1, GoOnOK
  <2>3. \A d \in Disputes, p \in Pages : ResolvedBy(d, p) => ResolvedBy(d, p)'
    BY <1>1 DEF ResolvedBy, ResolvedIn
  <2>4. \A entry \in log' : ResolvedBy(entry.dispute, entry.by)'
    BY <1>1 DEF DisputesInv, AuditNamesResolver, ResolvedBy, ResolvedIn
  <2>5. next.pc # "idle" /\ ~(next.pc = "audit" \/ (next.pc = "answered" /\ next.reply = "ok"))
    BY <2>2
  <2>6. QED
    BY <1>1, <2>1, <2>2, <2>3, <2>4, <2>5, OneCallStep
<1>4. QED
  BY <1>2, <1>3 DEF CheckDispute

LEMMA ResolvedRow ==
  ASSUME NEW old \in Dispute, NEW c \in Calls, call[c].user \in Pages,
         call[c].link \in Exceptions \cup {None}
  PROVE  /\ ResolvedAs(old, c) \in Dispute
         /\ ResolvedAs(old, c).state = "Resolved" /\ ResolvedAs(old, c).by = call[c].user
<1>1. PICK link \in Exceptions \cup {None} :
        link = IF call[c].link = None THEN old.link ELSE call[c].link
  BY DEF Dispute
<1>2. ResolvedAs(old, c) = [old EXCEPT !.state = "Resolved", !.by = call[c].user, !.link = link]
  BY <1>1 DEF ResolvedAs
<1>3. old = [state |-> old.state, by |-> old.by, link |-> old.link]
  BY DEF Dispute
<1>4. ResolvedAs(old, c) = [state |-> "Resolved", by |-> call[c].user, link |-> link]
  BY <1>2, <1>3
<1>5. QED
  BY <1>1, <1>4 DEF Dispute

LEMMA UpdateDisputeStep == ASSUME DisputesInv, NEW c \in Calls, UpdateDispute(c) PROVE DisputesInv'
<1> DEFINE d == call[c].dispute
           row == ResolvedAs(dispute[d], c)
<1>1. call[c].pc = "update" /\ UNCHANGED <<log, page>> /\ call \in [Calls -> Call]
      /\ dispute \in [Disputes -> Dispute] /\ log \subseteq [dispute : Disputes, by : Pages]
      /\ d \in Disputes /\ call[c].user \in Pages
  BY DEF UpdateDispute, DisputesInv, DisputeTypes, Told
<1>2. CASE dispute[d].state \in {"Submitted", "UnderReview"}
  <2>1. dispute' = [dispute EXCEPT ![d] = row] /\ GoOn(c, "audit")
    BY <1>2 DEF UpdateDispute
  <2>2. row \in Dispute /\ row.state = "Resolved" /\ row.by = call[c].user
    <3>1. call[c].link \in Exceptions \cup {None}
      BY <1>1 DEF Call
    <3>2. dispute[d] \in Dispute
      BY <1>1
    <3>3. QED
      BY <1>1, <3>1, <3>2, ResolvedRow
  <2> HIDE DEF row
  <2>3. PICK next \in Call :
          /\ call' = [call EXCEPT ![c] = next] /\ next.pc = "audit"
          /\ next.page = call[c].page /\ next.user = call[c].user /\ next.dispute = call[c].dispute
    BY <1>1, <2>1, GoOnOK
  <2>4. dispute' \in [Disputes -> Dispute] /\ ResolvedBy(d, call[c].user)'
    BY <1>1, <2>1, <2>2, <2>3 DEF ResolvedBy, ResolvedIn
  <2>5. \A e \in Disputes, p \in Pages : ResolvedBy(e, p) => ResolvedBy(e, p)'
    BY <1>1, <1>2, <2>1 DEF ResolvedBy, ResolvedIn
  <2>6. \A entry \in log' : ResolvedBy(entry.dispute, entry.by)'
    <3>1. ASSUME NEW entry \in log
          PROVE  /\ entry.dispute \in Disputes /\ entry.by \in Pages
                 /\ ResolvedBy(entry.dispute, entry.by)
      BY <1>1, <3>1 DEF DisputesInv, AuditNamesResolver, ResolvedBy, ResolvedIn
    <3>2. QED
      BY <1>1, <2>5, <3>1
  <2>7. QED
    BY <1>1, <2>3, <2>4, <2>5, <2>6, OneCallStep
<1>3. CASE dispute[d].state \notin {"Submitted", "UnderReview"}
  BY <1>1, <1>3, RefusedStep DEF UpdateDispute
<1>4. QED
  BY <1>2, <1>3

LEMMA WriteAuditStep == ASSUME DisputesInv, NEW c \in Calls, WriteAudit(c) PROVE DisputesInv'
<1> DEFINE entry == [dispute |-> call[c].dispute, by |-> call[c].user]
<1>1. /\ call[c].pc = "audit" /\ UNCHANGED <<dispute, page>> /\ call \in [Calls -> Call]
      /\ log' \in {log, log \cup {entry}} /\ Reply(c, "ok")
      /\ dispute' \in [Disputes -> Dispute] /\ log \subseteq [dispute : Disputes, by : Pages]
  BY DEF WriteAudit, DisputesInv, DisputeTypes
<1>2. /\ call[c].dispute \in Disputes /\ call[c].user \in Pages
      /\ ResolvedBy(call[c].dispute, call[c].user)
  BY <1>1 DEF DisputesInv, Told
<1>3. PICK next \in Call :
        /\ call' = [call EXCEPT ![c] = next] /\ next.pc = "answered" /\ next.reply = "ok"
        /\ next.page = call[c].page /\ next.user = call[c].user /\ next.dispute = call[c].dispute
  BY <1>1, ReplyOK
<1>4. \A e \in Disputes, p \in Pages : ResolvedBy(e, p) => ResolvedBy(e, p)'
  BY <1>1 DEF ResolvedBy, ResolvedIn
<1>5. log' \subseteq [dispute : Disputes, by : Pages]
  BY <1>1, <1>2
<1>6. \A e \in log' : ResolvedBy(e.dispute, e.by)'
  BY <1>1, <1>2 DEF DisputesInv, AuditNamesResolver, ResolvedBy, ResolvedIn
<1>7. QED
  BY <1>1, <1>2, <1>3, <1>4, <1>5, <1>6, OneCallStep

LEMMA DisputesStep == ASSUME DisputesInv, [DisputesNext]_disputeVars PROVE DisputesInv'
<1>1. ASSUME NEW p \in Pages, LoadPage(p) PROVE DisputesInv'
  <2>1. Listed(p) \in SUBSET Disputes
    BY DEF Listed
  <2>2. QED
    BY <1>1, <2>1, ForgetStep DEF LoadPage
<1>2. ASSUME NEW p \in Pages, Back(p) PROVE DisputesInv'
  <2>1. page[p].list \in SUBSET Disputes
    BY DEF DisputesInv, DisputeTypes, DisputePage
  <2>2. QED
    BY <1>2, <2>1, ForgetStep DEF Back
<1>3. ASSUME NEW c \in Calls, HandlerFails(c) PROVE DisputesInv'
  BY <1>3, RefusedStep DEF HandlerFails
<1>4. ASSUME NEW p \in Pages,
             \/ LoadPage(p) \/ Back(p)
             \/ \E d \in Disputes : SelectDispute(p, d)
             \/ \E c \in Calls, e \in Exceptions \cup {None} : Resolve(p, c, e)
      PROVE  DisputesInv'
  BY <1>1, <1>2, <1>4, SelectDisputeStep, ResolveStep
<1>6. ASSUME NEW c \in Calls,
             \/ Answer(c) \/ LoseAnswer(c)
             \/ CheckDispute(c) \/ UpdateDispute(c) \/ WriteAudit(c) \/ HandlerFails(c)
      PROVE  DisputesInv'
  BY <1>3, <1>6, AnswerStep, LoseAnswerStep, CheckDisputeStep, UpdateDisputeStep, WriteAuditStep
<1>7. ASSUME NEW d \in Disputes, CreateDispute(d) PROVE DisputesInv'
  BY <1>7, CreateDisputeStep
<1>5. CASE UNCHANGED disputeVars
  <2>1. UNCHANGED <<dispute, log, page, call>>
    BY <1>5 DEF disputeVars
  <2>2. DisputeTypes'
    BY <2>1 DEF DisputesInv, DisputeTypes
  <2>3. \A c \in Calls : Told(c)'
    BY <2>1 DEF DisputesInv, Told, ResolvedBy, ResolvedIn
  <2>4. OneAnswer'
    BY <2>1 DEF DisputesInv, OneAnswer, Awaits
  <2>5. Confirmed' /\ AuditNamesResolver'
    BY <2>1 DEF DisputesInv, Confirmed, ResolvedBy, ResolvedIn, AuditNamesResolver
  <2>6. QED
    BY <2>2, <2>3, <2>4, <2>5 DEF DisputesInv
<1>8. DisputesNext \/ UNCHANGED disputeVars
  OBVIOUS
<1>9. CASE DisputesNext
  BY <1>4, <1>6, <1>7, <1>9 DEF DisputesNext
<1>10. QED
  BY <1>5, <1>8, <1>9

-----------------------------------------------------------------------------
(* Adjustments.  A ledger only grows, so that what two posts have read of   *)
(* it nests, whatever was inserted between.                                 *)

LedgerTypes ==
  /\ posting \in [Posts -> Posting]
  /\ priors \in [Posts -> SUBSET Posts]
  /\ ledger \in [Records -> Seq(Posts)]

Inserted(r) == {a \in Posts : posting[a].record = r /\ posting[a].pc \in {"audit", "done"}}

LedgerRows ==
  \A r \in Records : /\ InLedger(r) = Inserted(r) /\ IsFiniteSet(InLedger(r))
                     /\ Len(ledger[r]) = Cardinality(InLedger(r))

ReadsNest ==
  /\ \A a \in Posts : priors[a] # {} => posting[a].pc = "done" /\ priors[a] = posting[a].read
  /\ \A a \in Posts, r \in Records : posting[a].record = r => posting[a].read \subseteq InLedger(r)
  /\ \A a, b \in Posts : posting[a].record = posting[b].record =>
       posting[a].read \subseteq posting[b].read \/ posting[b].read \subseteq posting[a].read

LedgerInv == LedgerTypes /\ LedgerRows /\ ReadsNest

LEMMA LedgerStart == LedgerInit => LedgerInv
<1>1. SUFFICES ASSUME LedgerInit PROVE LedgerInv
  OBVIOUS
<1>2. \A r \in Records : [pc |-> "new", record |-> r, read |-> {}] \in Posting
  BY DEF Posting
<1>a. posting \in [Posts -> {[pc |-> "new", record |-> r, read |-> {}] : r \in Records}]
  BY <1>1 DEF LedgerInit
<1>b. \A a \in Posts : \E r \in Records : posting[a] = [pc |-> "new", record |-> r, read |-> {}]
  BY <1>a
<1>3. posting \in [Posts -> Posting] /\ \A a \in Posts : posting[a].pc = "new" /\ posting[a].read = {}
  BY <1>a, <1>b, <1>2
<1>4. \A r \in Records : ledger[r] = <<>> /\ InLedger(r) = {}
  <2>1. \A r \in Records : ledger[r] = <<>> /\ DOMAIN ledger[r] = 1 .. 0
    BY <1>1 DEF LedgerInit
  <2>2. QED
    BY <2>1 DEF InLedger
<1>5. LedgerRows
  <2>1. IsFiniteSet({}) /\ Cardinality({}) = 0
    BY FS_EmptySet
  <2>2. \A r \in Records : Inserted(r) = {}
    BY <1>3 DEF Inserted
  <2>3. \A r \in Records : Len(ledger[r]) = 0
    BY <1>4
  <2>4. QED
    BY <1>4, <2>1, <2>2, <2>3 DEF LedgerRows
<1>6. LedgerTypes /\ ReadsNest
  BY <1>1, <1>3 DEF LedgerInit, LedgerTypes, ReadsNest
<1>7. QED
  BY <1>5, <1>6 DEF LedgerInv

(* A step of one post a, to the contents `next', that inserts nothing and   *)
(* reads nothing.                                                           *)
LEMMA OnePostStep ==
  ASSUME LedgerInv, NEW a \in Posts, NEW next \in Posting,
         posting' = [posting EXCEPT ![a] = next], ledger' = ledger,
         posting[a].pc # "done",
         priors' = priors \/ (priors' = [priors EXCEPT ![a] = next.read] /\ next.pc = "done"),
         next.record = posting[a].record, next.read = posting[a].read,
         next.pc \in {"audit", "done"} <=> posting[a].pc \in {"audit", "done"}
  PROVE  LedgerInv'
<1>1. posting \in [Posts -> Posting] /\ priors \in [Posts -> SUBSET Posts]
      /\ next.read \in SUBSET Posts /\ ledger \in [Records -> Seq(Posts)]
  BY DEF LedgerInv, LedgerTypes, Posting
<1>2. \A b \in Posts : /\ posting'[b].record = posting[b].record
                       /\ posting'[b].read = posting[b].read
                       /\ posting'[b].pc \in {"audit", "done"} <=> posting[b].pc \in {"audit", "done"}
  BY <1>1
<1>3. \A r \in Records : InLedger(r)' = InLedger(r)
  BY DEF InLedger
<1>4. \A r \in Records : Inserted(r)' = Inserted(r)
  BY <1>2 DEF Inserted
<1>5. LedgerTypes'
  BY <1>1 DEF LedgerTypes
<1>6. LedgerRows'
  BY <1>3, <1>4 DEF LedgerInv, LedgerRows
<1>7. ReadsNest'
  <2>1. \A b \in Posts : priors'[b] # {} => posting'[b].pc = "done" /\ priors'[b] = posting'[b].read
    BY <1>1, <1>2 DEF LedgerInv, ReadsNest
  <2>2. \A b \in Posts, r \in Records :
          posting'[b].record = r => posting'[b].read \subseteq InLedger(r)'
    BY <1>2, <1>3 DEF LedgerInv, ReadsNest
  <2>3. QED
    BY <1>2, <2>1, <2>2 DEF LedgerInv, ReadsNest
<1>8. QED
  BY <1>5, <1>6, <1>7 DEF LedgerInv

LEMMA ReadPriorsStep == ASSUME LedgerInv, NEW a \in Posts, ReadPriors(a) PROVE LedgerInv'
<1> DEFINE r == posting[a].record
           next == [posting[a] EXCEPT !.pc = "insert", !.read = InLedger(r)]
<1>1. /\ posting \in [Posts -> Posting] /\ priors \in [Posts -> SUBSET Posts]
      /\ ledger \in [Records -> Seq(Posts)] /\ UNCHANGED <<ledger, priors>>
      /\ posting[a].pc = "read" /\ r \in Records
  BY DEF LedgerInv, LedgerTypes, Posting, ReadPriors, PostingAt
<1>a. posting[a] \in Posting
  BY <1>1
<1>2. InLedger(r) \in SUBSET Posts
  BY <1>1 DEF LedgerInv, LedgerRows, Inserted
<1> DEFINE made(set) == [posting[a] EXCEPT !.pc = "insert", !.read = set]
<1>b. ASSUME NEW set \in SUBSET Posts
      PROVE  made(set) \in Posting /\ made(set).record = r /\ made(set).pc = "insert"
  BY <1>a DEF Posting
<1>3. next \in Posting /\ next.record = r /\ next.pc = "insert"
  BY <1>2, <1>b
<1>4. next.read = InLedger(r)
  BY <1>1 DEF Posting
<1> HIDE DEF next
<1>5. posting' = [posting EXCEPT ![a] = next]
  BY DEF ReadPriors, next
<1>6. posting'[a] = next /\ \A b \in Posts \ {a} : posting'[b] = posting[b]
  BY <1>1, <1>5
<1>7. \A s \in Records : InLedger(s)' = InLedger(s) /\ Inserted(s)' = Inserted(s)
  BY <1>1, <1>3, <1>6 DEF InLedger, Inserted
<1>8. LedgerTypes' /\ LedgerRows'
  BY <1>1, <1>3, <1>5, <1>7 DEF LedgerInv, LedgerTypes, LedgerRows
<1>9. ReadsNest'
  <2>1. \A b \in Posts : priors'[b] # {} => posting'[b].pc = "done" /\ priors'[b] = posting'[b].read
    BY <1>1, <1>6 DEF LedgerInv, ReadsNest
  <2>2. \A b \in Posts, s \in Records : posting'[b].record = s => posting'[b].read \subseteq InLedger(s)'
    BY <1>1, <1>3, <1>4, <1>6, <1>7 DEF LedgerInv, ReadsNest
  <2>3. \A b \in Posts \ {a} : posting[b].record = r => posting[b].read \subseteq next.read
    BY <1>1, <1>4 DEF LedgerInv, ReadsNest
  <2>4. QED
    BY <1>3, <1>6, <2>1, <2>2, <2>3 DEF LedgerInv, ReadsNest
<1>10. QED
  BY <1>8, <1>9 DEF LedgerInv

LEMMA InsertStep == ASSUME LedgerInv, NEW a \in Posts, InsertAdjustment(a) PROVE LedgerInv'
<1>0. PICK r \in Records : r = posting[a].record
  BY DEF LedgerInv, LedgerTypes, Posting
<1> DEFINE next == [posting[a] EXCEPT !.pc = "audit"]
<1>1. /\ posting \in [Posts -> Posting] /\ priors \in [Posts -> SUBSET Posts]
      /\ ledger \in [Records -> Seq(Posts)] /\ UNCHANGED priors
      /\ posting[a].pc = "insert"
      /\ ledger' = [ledger EXCEPT ![r] = Append(ledger[r], a)]
  BY <1>0 DEF LedgerInv, LedgerTypes, Posting, InsertAdjustment, PostingAt
<1>2. next \in Posting /\ next.record = r /\ next.pc = "audit" /\ next.read = posting[a].read
  <2>1. posting[a] \in Posting
    BY <1>1
  <2>2. next \in Posting
    BY <2>1 DEF Posting
  <2>3. next.pc = "audit" /\ next.record = posting[a].record /\ next.read = posting[a].read
    BY <2>1 DEF Posting
  <2> HIDE DEF next
  <2>4. QED
    BY <1>0, <2>2, <2>3
<1> HIDE DEF next
<1>3. posting' = [posting EXCEPT ![a] = next]
  BY DEF InsertAdjustment, next
<1>4. posting'[a] = next /\ \A b \in Posts \ {a} : posting'[b] = posting[b]
  BY <1>1, <1>3
<1>5. /\ ledger'[r] = Append(ledger[r], a) /\ ledger[r] \in Seq(Posts)
      /\ \A s \in Records \ {r} : ledger'[s] = ledger[s]
  BY <1>1
<1>6. ledger' \in [Records -> Seq(Posts)] /\ Len(ledger'[r]) = Len(ledger[r]) + 1
  BY <1>1, <1>5
<1>7. ASSUME NEW s \in Records \ {r} PROVE InLedger(s)' = InLedger(s) /\ Inserted(s)' = Inserted(s)
  <2>1. InLedger(s)' = InLedger(s)
    BY <1>5 DEF InLedger
  <2>2. \A b \in Posts : posting[b].record = s \/ posting'[b].record = s => posting'[b] = posting[b]
    BY <1>0, <1>2, <1>4
  <2>3. Inserted(s)' = Inserted(s)
    BY <2>2 DEF Inserted
  <2>4. QED
    BY <2>1, <2>3
<1>8. InLedger(r)' = InLedger(r) \cup {a}
  <2>1. ledger[r] \in Seq(Posts)
    BY <1>5
  <2>2. \A s \in Seq(Posts) : {Append(s, a)[i] : i \in DOMAIN Append(s, a)}
                              = {s[i] : i \in DOMAIN s} \cup {a}
    <3>1. SUFFICES ASSUME NEW s \in Seq(Posts)
                   PROVE  {Append(s, a)[i] : i \in 1 .. Len(s) + 1} = {s[i] : i \in 1 .. Len(s)} \cup {a}
      <4>1. \A t \in Seq(Posts) : DOMAIN t = 1 .. Len(t) /\ DOMAIN Append(t, a) = 1 .. Len(t) + 1
        OBVIOUS
      <4>2. QED
        BY <4>1
    <3>2. Len(s) \in Nat /\ Append(s, a)[Len(s) + 1] = a
          /\ \A i \in 1 .. Len(s) : Append(s, a)[i] = s[i]
      OBVIOUS
    <3>3. \A i \in 1 .. Len(s) + 1 : i = Len(s) + 1 \/ i \in 1 .. Len(s)
      BY <3>2
    <3>4. Len(s) + 1 \in 1 .. Len(s) + 1 /\ \A i \in 1 .. Len(s) : i \in 1 .. Len(s) + 1
      BY <3>2
    <3>5. QED
      BY <3>2, <3>3, <3>4
  <2>3. QED
    BY <1>5, <2>1, <2>2 DEF InLedger
<1>9. Inserted(r)' = Inserted(r) \cup {a} /\ a \notin Inserted(r)
  BY <1>1, <1>2, <1>4 DEF Inserted
<1>10. LedgerRows'
  <2>1. /\ IsFiniteSet(InLedger(r)) /\ a \notin InLedger(r) /\ InLedger(r) = Inserted(r)
        /\ Len(ledger[r]) = Cardinality(InLedger(r))
    BY <1>1, <1>9 DEF LedgerInv, LedgerRows
  <2>2. /\ IsFiniteSet(InLedger(r) \cup {a})
        /\ Cardinality(InLedger(r) \cup {a}) = Cardinality(InLedger(r)) + 1
    BY <2>1, FS_AddElement
  <2>3. /\ InLedger(r)' = Inserted(r)' /\ IsFiniteSet(InLedger(r)')
        /\ Len(ledger'[r]) = Cardinality(InLedger(r)')
    BY <1>6, <1>8, <1>9, <2>1, <2>2
  <2>4. ASSUME NEW s \in Records, s # r
        PROVE  /\ InLedger(s)' = Inserted(s)' /\ IsFiniteSet(InLedger(s)')
               /\ Len(ledger'[s]) = Cardinality(InLedger(s)')
    BY <1>5, <1>7, <2>4 DEF LedgerInv, LedgerRows
  <2>5. ASSUME NEW s \in Records
        PROVE  /\ InLedger(s)' = Inserted(s)' /\ IsFiniteSet(InLedger(s)')
               /\ Len(ledger'[s]) = Cardinality(InLedger(s)')
    BY <2>3, <2>4
  <2>6. QED
    BY <2>5 DEF LedgerRows
<1>11. LedgerTypes'
  BY <1>1, <1>2, <1>3, <1>6 DEF LedgerTypes
<1>12. ReadsNest'
  <2>1. ASSUME NEW s \in Records PROVE InLedger(s) \subseteq InLedger(s)'
    <3>1. CASE s = r
      BY <1>8, <3>1
    <3>2. CASE s # r
      BY <1>7, <3>2
    <3>3. QED
      BY <3>1, <3>2
  <2>2. \A b \in Posts : posting'[b].record = posting[b].record /\ posting'[b].read = posting[b].read
    BY <1>0, <1>2, <1>4
  <2>3. \A b \in Posts, s \in Records : posting'[b].record = s => posting'[b].read \subseteq InLedger(s)'
    BY <2>1, <2>2 DEF LedgerInv, ReadsNest
  <2>4. \A b \in Posts : priors'[b] # {} => posting'[b].pc = "done" /\ priors'[b] = posting'[b].read
    BY <1>1, <1>4, <2>2 DEF LedgerInv, ReadsNest
  <2>5. QED
    BY <2>2, <2>3, <2>4 DEF LedgerInv, ReadsNest
<1>13. QED
  BY <1>10, <1>11, <1>12 DEF LedgerInv

(* A post goes on to another statement, or fails.                           *)
LEMMA PostGoesOn ==
  ASSUME LedgerInv, NEW a \in Posts, NEW pc \in {"read", "done", "failed"},
         posting' = [posting EXCEPT ![a].pc = pc], ledger' = ledger,
         pc = "done" <=> posting[a].pc = "audit", posting[a].pc # "done",
         priors' = priors \/ (priors' = [priors EXCEPT ![a] = posting[a].read] /\ pc = "done")
  PROVE  LedgerInv'
<1> DEFINE next == [posting[a] EXCEPT !.pc = pc]
<1>1. posting[a] \in Posting
  BY DEF LedgerInv, LedgerTypes
<1>2. next \in Posting /\ next.record = posting[a].record /\ next.read = posting[a].read
      /\ next.pc = pc
  BY <1>1 DEF Posting
<1> HIDE DEF next
<1>3. posting' = [posting EXCEPT ![a] = next]
  BY DEF next
<1>4. next.pc \in {"audit", "done"} <=> posting[a].pc \in {"audit", "done"}
  BY <1>2
<1>5. QED
  BY <1>2, <1>3, <1>4, OnePostStep

LEMMA LedgerStep == ASSUME LedgerInv, [LedgerNext]_ledgerVars PROVE LedgerInv'
<1>1. ASSUME NEW a \in Posts, PostAdjustment(a) PROVE LedgerInv'
  BY <1>1, PostGoesOn DEF PostAdjustment, PostingAt
<1>2. ASSUME NEW a \in Posts, WriteAdjustmentAudit(a) PROVE LedgerInv'
  BY <1>2, PostGoesOn DEF WriteAdjustmentAudit, PostingAt
<1>3. ASSUME NEW a \in Posts, PostFails(a) PROVE LedgerInv'
  BY <1>3, PostGoesOn DEF PostFails
<1>4. CASE LedgerNext
  BY <1>1, <1>2, <1>3, <1>4, ReadPriorsStep, InsertStep DEF LedgerNext
<1>5. CASE UNCHANGED ledgerVars
  <2>1. UNCHANGED <<ledger, priors, posting>>
    BY <1>5 DEF ledgerVars
  <2>2. \A r \in Records : InLedger(r)' = InLedger(r) /\ Inserted(r)' = Inserted(r)
    BY <2>1 DEF InLedger, Inserted
  <2>3. QED
    BY <2>1, <2>2 DEF LedgerInv, LedgerTypes, LedgerRows, ReadsNest
<1>6. QED
  BY <1>4, <1>5

LEMMA LedgerTells == LedgerInv => PriorsNest /\ LedgerTypeOK
BY DEF LedgerInv, LedgerTypes, LedgerRows, ReadsNest, Inserted, PriorsNest, LedgerTypeOK

-----------------------------------------------------------------------------
(* Clawbacks.  The UPDATE of the guarantee period serialises the            *)
(* transactions: one that has passed it holds the lock of the row until it  *)
(* ends, and while it does the period is Active and nothing is charged.     *)

Typed ==
  /\ period \in {"Active", "Triggered", "ExpiredClean"}
  /\ locked \subseteq Claims
  /\ standing \in [Entitled -> {"absent", "open", "Approved", "ClawbackInitiated"}]
  /\ events \subseteq Claims /\ entries \subseteq Claims
  /\ charges \subseteq Claims \X Entitled
  /\ schedules \subseteq Claims \X Entitled \X Nat
  /\ claim \in [Claims -> Claim]

(* The transaction of q has updated the period and has not ended. *)
Holds(q) == claim[q].pc \in {"hold", "list", "post"}

Exclusive ==
  /\ \A q \in Claims : Holds(q) <=> q \in locked
  /\ \A q, r \in locked : q = r
  /\ locked # {} => period = "Active"

(* Until a transaction commits nothing of it shows. *)
Quiet ==
  period # "Triggered" =>
    /\ events = {} /\ charges = {} /\ schedules = {}
    /\ \A w \in Entitled : standing[w] # "ClawbackInitiated"

(* What a request has taken over exists, and is listed under the rules that *)
(* charge; what it has posted it has listed.                                *)
Covers ==
  \A q \in Claims :
    /\ \A w \in claim[q].taken : standing[w] # "absent"
    /\ claim[q].rule \in Charging /\ claim[q].pc = "post" => claim[q].taken \subseteq claim[q].listed
    /\ claim[q].pc \in {"audit", "done"} => q \in events

(* A schedule has its charge, and its amount is that of the request. *)
Scheduled ==
  \A s \in schedules :
    /\ <<s[1], s[2]>> \in charges
    /\ s[3] = InstallmentAmount(ChargedAmount, claim[s[1]].count)

ClawbackInv == Typed /\ Exclusive /\ Quiet /\ Covers /\ Scheduled /\ TakenIsCharged /\ AuditAfterCommit

-----------------------------------------------------------------------------
LEMMA CountType == ASSUME NEW n \in Counts PROVE n \in Nat \ {0}
BY CountsAssumption

LEMMA AmountType ==
  ASSUME NEW n \in Nat \ {0}
  PROVE  InstallmentAmount(ChargedAmount, n) \in Nat
<1>1. 2 * ChargedAmount + n \in Nat /\ 2 * n \in Nat \ {0}
  BY DEF ChargedAmount
<1>2. \A a \in Nat, b \in Nat \ {0} : a \div b \in Nat
  OBVIOUS
<1>3. QED
  BY <1>1, <1>2 DEF InstallmentAmount

LEMMA ClawbackStart == ClawbackInit => ClawbackInv
<1>1. SUFFICES ASSUME ClawbackInit PROVE ClawbackInv
  OBVIOUS
<1>2. /\ period = "Active" /\ locked = {} /\ standing = [w \in Entitled |-> "absent"]
      /\ events = {} /\ charges = {} /\ schedules = {} /\ entries = {}
  BY <1>1 DEF ClawbackInit, ClawbackBegin
<1>3. \A q \in Claims : \E rule \in Rules, count \in Counts : claim[q] = NewClaim(rule, count)
  BY <1>1 DEF ClawbackInit
<1>4. \A rule \in Rules, count \in Counts :
        /\ NewClaim(rule, count) \in Claim
        /\ NewClaim(rule, count).pc = "new" /\ NewClaim(rule, count).taken = {}
  BY DEF NewClaim, Claim
<1>5. claim \in [Claims -> Claim]
  BY <1>1, <1>4 DEF ClawbackInit
<1>6. \A q \in Claims : claim[q].pc = "new" /\ claim[q].taken = {}
  BY <1>3, <1>4
<1>7. QED
  BY <1>2, <1>5, <1>6
  DEF ClawbackInv, Typed, Exclusive, Holds, Quiet, Covers, Scheduled, TakenIsCharged, AuditAfterCommit

-----------------------------------------------------------------------------
(* The types. *)
LEMMA ClawbackTypes == ClawbackInv /\ [ClawbackNext]_clawbackVars => Typed'
<1>1. SUFFICES ASSUME ClawbackInv, [ClawbackNext]_clawbackVars PROVE Typed'
  OBVIOUS
<1>2. Typed
  BY <1>1 DEF ClawbackInv
<1>3. ASSUME NEW q \in Claims,
             NEW pc \in {"new", "insertEvent", "trigger", "hold", "list", "post", "audit",
                         "done", "refused"},
             Proceed(q, pc)
      PROVE  claim' \in [Claims -> Claim]
  BY <1>2, <1>3 DEF Typed, Proceed, Claim
<1>4. ASSUME NEW w \in Entitled, Calculate(w) \/ ApproveRecord(w) PROVE Typed'
  BY <1>2, <1>4 DEF Typed, Calculate, ApproveRecord
<1>5. CASE ExpireClean
  BY <1>2, <1>5 DEF Typed, ExpireClean
<1>6. ASSUME NEW q \in Claims,
             \/ TriggerClawback(q) \/ InsertClawbackEvent(q) \/ TriggerGuaranteePeriod(q)
             \/ WriteClawbackAudit(q)
      PROVE  Typed'
  <2>1. claim' \in [Claims -> Claim]
    BY <1>3, <1>6
    DEF TriggerClawback, InsertClawbackEvent, TriggerGuaranteePeriod, WriteClawbackAudit
  <2>2. QED
    BY <1>2, <1>6, <2>1
    DEF Typed, TriggerClawback, InsertClawbackEvent, TriggerGuaranteePeriod,
        WriteClawbackAudit, committed
<1>7. ASSUME NEW q \in Claims,
             HoldRecords(q) \/ ListRecordIds(q) \/ \E w \in Entitled : PostCharge(q, w)
      PROVE  Typed'
  <2>1. claim' \in [Claims -> Claim]
    BY <1>2, <1>7 DEF Typed, HoldRecords, ListRecordIds, PostCharge, Claim
  <2>2. QED
    BY <1>2, <1>7, <2>1 DEF Typed, HoldRecords, ListRecordIds, PostCharge, committed
<1>8. ASSUME NEW q \in Claims, Commit(q) PROVE Typed'
  <2>1. claim' \in [Claims -> Claim]
    BY <1>3, <1>8 DEF Commit
  <2>2. claim[q].posted \subseteq Entitled /\ claim[q].taken \subseteq Entitled
        /\ InstallmentAmount(ChargedAmount, claim[q].count) \in Nat
    BY <1>2, CountType, AmountType DEF Typed, Claim
  <2>3. schedules' \subseteq Claims \X Entitled \X Nat
    BY <1>2, <1>8, <2>2 DEF Typed, Commit
  <2>4. standing' \in [Entitled -> {"absent", "open", "Approved", "ClawbackInitiated"}]
    BY <1>2, <1>8, <2>2 DEF Typed, Commit
  <2>5. QED
    BY <1>2, <1>8, <2>1, <2>2, <2>3, <2>4 DEF Typed, Commit
<1>9. ASSUME NEW q \in Claims, Rollback(q) PROVE Typed'
  <2>1. [claim[q] EXCEPT !.pc = "refused", !.taken = {}] \in Claim
    BY <1>2 DEF Typed, Claim
  <2>2. claim' = [claim EXCEPT ![q] = [claim[q] EXCEPT !.pc = "refused", !.taken = {}]]
    BY <1>2, <1>9 DEF Typed, Rollback, Claim
  <2>3. claim' \in [Claims -> Claim]
    BY <1>2, <2>1, <2>2 DEF Typed
  <2>4. QED
    BY <1>2, <1>9, <2>3 DEF Typed, Rollback, committed
<1>10. CASE UNCHANGED clawbackVars
  BY <1>2, <1>10 DEF Typed, clawbackVars
<1>11. QED
  BY <1>1, <1>4, <1>5, <1>6, <1>7, <1>8, <1>9, <1>10 DEF ClawbackNext

(* Who has updated the period holds its lock, alone, and the period stays   *)
(* Active until then.                                                       *)
LEMMA ExclusiveStep == ClawbackInv /\ [ClawbackNext]_clawbackVars => Exclusive'
<1>1. SUFFICES ASSUME ClawbackInv, [ClawbackNext]_clawbackVars PROVE Exclusive'
  OBVIOUS
<1>2. /\ Exclusive /\ locked \subseteq Claims /\ claim \in [Claims -> Claim]
      /\ \A q \in Claims : claim[q] \in Claim
  BY <1>1 DEF ClawbackInv, Typed
<1>3. ASSUME NEW w \in Entitled, Calculate(w) \/ ApproveRecord(w) PROVE Exclusive'
  BY <1>2, <1>3 DEF Exclusive, Holds, Calculate, ApproveRecord
<1>4. CASE ExpireClean
  BY <1>2, <1>4 DEF Exclusive, Holds, ExpireClean
<1>5. ASSUME NEW q \in Claims,
             TriggerClawback(q) \/ InsertClawbackEvent(q) \/ WriteClawbackAudit(q)
      PROVE  Exclusive'
  BY <1>2, <1>5
  DEF Exclusive, Holds, TriggerClawback, InsertClawbackEvent, WriteClawbackAudit, Proceed,
      Stage, committed, Claim
<1>6. ASSUME NEW q \in Claims, TriggerGuaranteePeriod(q) PROVE Exclusive'
  BY <1>2, <1>6 DEF Exclusive, Holds, TriggerGuaranteePeriod, Proceed, Stage, committed, Claim
<1>7. ASSUME NEW q \in Claims,
             HoldRecords(q) \/ ListRecordIds(q) \/ \E w \in Entitled : PostCharge(q, w)
      PROVE  Exclusive'
  BY <1>2, <1>7
  DEF Exclusive, Holds, HoldRecords, ListRecordIds, PostCharge, Stage, committed, Claim
<1>8. ASSUME NEW q \in Claims, Commit(q) PROVE Exclusive'
  BY <1>2, <1>8 DEF Exclusive, Holds, Commit, Proceed, Stage, Claim
<1>9. ASSUME NEW q \in Claims, Rollback(q) PROVE Exclusive'
  BY <1>2, <1>9 DEF Exclusive, Holds, Rollback, committed, Claim
<1>10. CASE UNCHANGED clawbackVars
  BY <1>2, <1>10 DEF Exclusive, Holds, clawbackVars
<1>11. QED
  BY <1>1, <1>3, <1>4, <1>5, <1>6, <1>7, <1>8, <1>9, <1>10 DEF ClawbackNext

(* A transaction that commits finds the period Active and nothing charged.  *)
LEMMA AtCommit ==
  ASSUME ClawbackInv, NEW q \in Claims, Commit(q)
  PROVE  /\ period = "Active" /\ events = {} /\ charges = {} /\ schedules = {}
         /\ \A w \in Entitled : standing[w] # "ClawbackInitiated"
         /\ claim'[q].pc = "audit" /\ claim'[q].rule = claim[q].rule
         /\ claim'[q].count = claim[q].count /\ claim'[q].taken = claim[q].taken
         /\ \A r \in Claims \ {q} : claim'[r] = claim[r]
<1>1. Holds(q)
  BY DEF Commit, Stage, Holds
<1>2. period = "Active"
  BY <1>1 DEF ClawbackInv, Exclusive
<1>3. QED
  BY <1>2 DEF ClawbackInv, Quiet, Commit, Proceed, Typed, Claim

(* Every other step leaves what is committed alone, but for what others do  *)
(* to the records and to the period, and keeps what a request asks for.     *)
LEMMA OtherSteps ==
  ASSUME ClawbackInv, [ClawbackNext]_clawbackVars, \A q \in Claims : ~Commit(q)
  PROVE  /\ events' = events /\ charges' = charges /\ schedules' = schedules
         /\ period' = "Triggered" <=> period = "Triggered"
         /\ \A w \in Entitled :
              /\ standing'[w] = "ClawbackInitiated" => standing[w] = "ClawbackInitiated"
              /\ standing[w] # "absent" => standing'[w] # "absent"
         /\ \A q \in Claims : claim'[q].rule = claim[q].rule /\ claim'[q].count = claim[q].count
<1> DEFINE Same == /\ events' = events /\ charges' = charges /\ schedules' = schedules
                   /\ period' = "Triggered" <=> period = "Triggered"
           Standing == \A w \in Entitled :
              /\ standing'[w] = "ClawbackInitiated" => standing[w] = "ClawbackInitiated"
              /\ standing[w] # "absent" => standing'[w] # "absent"
           Asked == \A q \in Claims : claim'[q].rule = claim[q].rule
                                       /\ claim'[q].count = claim[q].count
<1>1. /\ standing \in [Entitled -> {"absent", "open", "Approved", "ClawbackInitiated"}]
      /\ claim \in [Claims -> Claim] /\ \A q \in Claims : claim[q] \in Claim
  BY DEF ClawbackInv, Typed
<1>2. ASSUME NEW w \in Entitled, Calculate(w) \/ ApproveRecord(w) PROVE Same /\ Standing /\ Asked
  BY <1>1, <1>2 DEF Calculate, ApproveRecord
<1>3. CASE ExpireClean
  BY <1>1, <1>3 DEF ExpireClean
<1>4. ASSUME NEW q \in Claims,
             \/ TriggerClawback(q) \/ InsertClawbackEvent(q) \/ TriggerGuaranteePeriod(q)
             \/ WriteClawbackAudit(q) \/ Rollback(q)
      PROVE  Same /\ Standing /\ Asked
  BY <1>1, <1>4
  DEF TriggerClawback, InsertClawbackEvent, TriggerGuaranteePeriod, WriteClawbackAudit, Rollback,
      Proceed, committed, Claim
<1>5. ASSUME NEW q \in Claims,
             HoldRecords(q) \/ ListRecordIds(q) \/ \E w \in Entitled : PostCharge(q, w)
      PROVE  Same /\ Standing /\ Asked
  BY <1>1, <1>5 DEF HoldRecords, ListRecordIds, PostCharge, committed, Claim
<1>6. CASE UNCHANGED clawbackVars
  BY <1>1, <1>6 DEF clawbackVars
<1>7. QED
  BY <1>2, <1>3, <1>4, <1>5, <1>6 DEF ClawbackNext

LEMMA QuietStep == ClawbackInv /\ [ClawbackNext]_clawbackVars => Quiet'
<1>1. SUFFICES ASSUME ClawbackInv, [ClawbackNext]_clawbackVars PROVE Quiet'
  OBVIOUS
<1>2. CASE \E q \in Claims : Commit(q)
  BY <1>2 DEF Quiet, Commit
<1>3. CASE \A q \in Claims : ~Commit(q)
  BY <1>1, <1>3, OtherSteps DEF ClawbackInv, Quiet
<1>4. QED
  BY <1>2, <1>3

(* Records taken over keep existing, and the list, which is made while      *)
(* nobody can approve them, has them all.                                   *)
LEMMA CoversStep == ClawbackInv /\ [ClawbackNext]_clawbackVars => Covers'
<1>1. SUFFICES ASSUME ClawbackInv, [ClawbackNext]_clawbackVars PROVE Covers'
  OBVIOUS
<1>2. /\ Covers /\ claim \in [Claims -> Claim] /\ \A q \in Claims : claim[q] \in Claim
      /\ standing \in [Entitled -> {"absent", "open", "Approved", "ClawbackInitiated"}]
  BY <1>1 DEF ClawbackInv, Typed
<1>3. ASSUME NEW q \in Claims, Commit(q) PROVE Covers'
  <2>1. \A w \in Entitled : standing[w] # "absent" => standing'[w] # "absent"
    BY <1>2, <1>3 DEF Commit
  <2>2. events' = events \cup {q}
    BY <1>3 DEF Commit
  <2>3. \A r \in Claims : claim[r].taken \subseteq Entitled
    BY <1>2 DEF Claim
  <2>4. QED
    BY <1>1, <1>2, <1>3, <2>1, <2>2, <2>3, AtCommit DEF Covers
<1>4. ASSUME \A q \in Claims : ~Commit(q) PROVE Covers'
  <2>1. /\ events' = events
        /\ \A w \in Entitled : standing[w] # "absent" => standing'[w] # "absent"
        /\ \A q \in Claims : claim'[q].rule = claim[q].rule /\ claim[q].taken \subseteq Entitled
    BY <1>1, <1>2, <1>4, OtherSteps DEF Claim
  <2>2. CASE UNCHANGED claim
    BY <1>2, <2>1, <2>2 DEF Covers
  <2>3. ASSUME NEW q \in Claims,
               \/ TriggerClawback(q) \/ InsertClawbackEvent(q) \/ TriggerGuaranteePeriod(q)
               \/ WriteClawbackAudit(q) \/ Rollback(q)
        PROVE  Covers'
    BY <1>2, <2>1, <2>3
    DEF Covers, TriggerClawback, InsertClawbackEvent, TriggerGuaranteePeriod,
        WriteClawbackAudit, Rollback, Proceed, Stage, Claim
  <2>4. ASSUME NEW q \in Claims, HoldRecords(q) PROVE Covers'
    <3>1. /\ claim'[q].taken = {w \in Entitled : standing[w] = "open"}
          /\ claim'[q].pc = IF claim[q].rule \in Charging THEN "list" ELSE "post"
          /\ \A r \in Claims \ {q} : claim'[r] = claim[r]
      BY <1>2, <2>4 DEF HoldRecords, Claim
    <3>2. QED
      BY <1>2, <2>1, <3>1 DEF Covers
  <2>5. ASSUME NEW q \in Claims, ListRecordIds(q) PROVE Covers'
    <3>1. /\ claim'[q].taken = claim[q].taken /\ claim'[q].pc = "post"
          /\ claim'[q].listed = {w \in Entitled : standing[w] # "absent"}
          /\ \A r \in Claims \ {q} : claim'[r] = claim[r]
      BY <1>2, <2>5 DEF ListRecordIds, Claim
    <3>2. QED
      BY <1>2, <2>1, <3>1 DEF Covers
  <2>6. ASSUME NEW q \in Claims, NEW w \in Entitled, PostCharge(q, w) PROVE Covers'
    <3>1. /\ claim'[q].taken = claim[q].taken /\ claim'[q].pc = claim[q].pc
          /\ claim'[q].listed = claim[q].listed
          /\ \A r \in Claims \ {q} : claim'[r] = claim[r]
      BY <1>2, <2>6 DEF PostCharge, Claim
    <3>2. QED
      BY <1>2, <2>1, <3>1 DEF Covers
  <2>7. QED
    BY <1>1, <1>4, <2>2, <2>3, <2>4, <2>5, <2>6
    DEF ClawbackNext, clawbackVars, Calculate, ApproveRecord, ExpireClean
<1>5. QED
  BY <1>3, <1>4

(* What commits is charged and scheduled in the one step.                   *)
LEMMA CommitStep ==
  ASSUME ClawbackInv, NEW q \in Claims, Commit(q)
  PROVE  Scheduled' /\ TakenIsCharged' /\ AuditAfterCommit'
<1>1. /\ claim \in [Claims -> Claim] /\ claim[q].posted \subseteq Entitled
      /\ entries \subseteq events
      /\ standing \in [Entitled -> {"absent", "open", "Approved", "ClawbackInitiated"}]
  BY DEF ClawbackInv, Typed, Claim, AuditAfterCommit
<1>2. /\ events' = {q} /\ charges' = {<<q, w>> : w \in claim[q].posted}
      /\ claim'[q].rule = claim[q].rule /\ claim'[q].count = claim[q].count
  BY AtCommit DEF Commit
<1>3. Scheduled'
  <2>1. ASSUME NEW s \in schedules'
        PROVE  \E w \in claim[q].posted :
                 s = <<q, w, InstallmentAmount(ChargedAmount, claim[q].count)>>
    BY AtCommit DEF Commit
  <2>2. QED
    BY <1>2, <2>1 DEF Scheduled
<1>4. TakenIsCharged'
  <2>1. SUFFICES ASSUME NEW w \in Entitled, claim[q].rule \in Charging,
                        standing'[w] = "ClawbackInitiated"
                 PROVE  <<q, w>> \in charges'
    BY <1>2 DEF TakenIsCharged
  <2>2. w \in claim[q].taken
    BY <1>1, <2>1, AtCommit DEF Commit
  <2>3. claim[q].taken \subseteq claim[q].listed /\ claim[q].posted = claim[q].listed
    BY <2>1 DEF ClawbackInv, Covers, Commit, Stage
  <2>4. QED
    BY <1>2, <2>2, <2>3
<1>5. AuditAfterCommit'
  BY <1>1 DEF AuditAfterCommit, Commit
<1>6. QED
  BY <1>3, <1>4, <1>5

LEMMA OthersKeep ==
  ASSUME ClawbackInv, [ClawbackNext]_clawbackVars, \A q \in Claims : ~Commit(q)
  PROVE  Scheduled' /\ TakenIsCharged' /\ AuditAfterCommit'
<1>1. Scheduled /\ TakenIsCharged /\ AuditAfterCommit /\ Typed /\ Covers
  BY DEF ClawbackInv
<1>2. Scheduled'
  <2>1. \A s \in schedules : s[1] \in Claims
    BY <1>1 DEF Typed
  <2>2. QED
    BY <1>1, <2>1, OtherSteps DEF Scheduled
<1>3. TakenIsCharged'
  BY <1>1, OtherSteps DEF TakenIsCharged, Typed
<1>4. entries' \subseteq entries \cup events
  BY <1>1
  DEF ClawbackNext, clawbackVars, Calculate, ApproveRecord, ExpireClean, TriggerClawback,
      InsertClawbackEvent, TriggerGuaranteePeriod, HoldRecords, ListRecordIds, PostCharge,
      Rollback, WriteClawbackAudit, Covers, Stage
<1>5. QED
  BY <1>1, <1>2, <1>3, <1>4, OtherSteps DEF AuditAfterCommit

LEMMA ClawbackInvariance == ClawbackSpec => []ClawbackInv
<1>1. ClawbackInv /\ [ClawbackNext]_clawbackVars => ClawbackInv'
  BY ClawbackTypes, ExclusiveStep, QuietStep, CoversStep, CommitStep, OthersKeep DEF ClawbackInv
<1>2. QED
  BY ClawbackStart, <1>1, PTL DEF ClawbackSpec

-----------------------------------------------------------------------------
(* The states of the transaction are typed, and at most one transaction has *)
(* updated the guarantee period at any time (the row lock of                *)
(* triggerGuaranteePeriod).                                                 *)
THEOREM ClawbackTyped == ClawbackSpec => []ClawbackTypeOK
<1>1. ClawbackInv => ClawbackTypeOK
  <2>1. SUFFICES ASSUME ClawbackInv PROVE Cardinality(locked) <= 1
    BY DEF ClawbackInv, Typed, ClawbackTypeOK
  <2>2. CASE locked = {}
    BY <2>2, FS_EmptySet
  <2>3. ASSUME NEW q \in locked PROVE Cardinality(locked) <= 1
    <3>1. \A p \in locked, r \in locked : p = r
      BY <2>1 DEF ClawbackInv, Exclusive
    <3>2. locked = {q}
      BY <2>3, <3>1
    <3>3. Cardinality(locked) = 1
      BY <3>2, FS_Singleton, Zenon
    <3>4. QED
      BY <3>3
  <2>4. QED
    BY <2>2, <2>3
<1>2. QED
  BY <1>1, ClawbackInvariance, PTL

(* Whatever is taken over under a rule that charges is charged, although    *)
(* commission may be calculated between the two statements.                 *)
THEOREM TakenRecordsAreCharged == ClawbackSpec => []TakenIsCharged
<1>1. ClawbackInv => TakenIsCharged
  BY DEF ClawbackInv
<1>2. QED
  BY <1>1, ClawbackInvariance, PTL

(* The audit log never tells of a clawback that was rolled back.            *)
THEOREM AuditFollowsCommit == ClawbackSpec => []AuditAfterCommit
<1>1. ClawbackInv => AuditAfterCommit
  BY DEF ClawbackInv
<1>2. QED
  BY <1>1, ClawbackInvariance, PTL

-----------------------------------------------------------------------------
(* Charges and schedules are counted: each schedule has a charge of its own. *)
LEMMA SchedulesCounted ==
  ASSUME ClawbackInv
  PROVE  /\ Cardinality(charges) \in Nat /\ Cardinality(schedules) \in Nat
         /\ Cardinality(schedules) <= Cardinality(charges)
<1>1. IsFiniteSet(charges)
  <2>1. IsFiniteSet(Claims \X Entitled)
    BY FiniteAssumption, FS_Product
  <2>2. QED
    BY <2>1, FS_Subset DEF ClawbackInv, Typed
<1> DEFINE chargeOf == [s \in schedules |-> <<s[1], s[2]>>]
<1>2. chargeOf \in [schedules -> charges]
  BY DEF ClawbackInv, Scheduled
<1>3. ASSUME NEW s \in schedules, NEW z \in schedules, chargeOf[s] = chargeOf[z]
      PROVE  s = z
  <2>1. s[1] = z[1] /\ s[2] = z[2]
    BY <1>3
  <2>2. /\ s[3] = InstallmentAmount(ChargedAmount, claim[s[1]].count)
        /\ z[3] = InstallmentAmount(ChargedAmount, claim[z[1]].count)
    BY DEF ClawbackInv, Scheduled
  <2>3. s = <<s[1], s[2], s[3]>> /\ z = <<z[1], z[2], z[3]>>
    BY DEF ClawbackInv, Typed
  <2>4. QED
    BY <2>1, <2>2, <2>3
<1>4. chargeOf \in Injection(schedules, charges)
  <2>1. \A s, z \in DOMAIN chargeOf : chargeOf[s] = chargeOf[z] => s = z
    BY <1>3
  <2>2. IsInjective(chargeOf)
    BY <2>1, Zenon DEF IsInjective
  <2>3. QED
    BY <1>2, <2>2, Zenon DEF Injection
<1>5. QED
  BY <1>1, <1>4, FS_Injection, FS_CardinalityType, SMT

(* What the recovery schedules of a producer add up to is never more than   *)
(* the exposure that is shown next to them.                                 *)
THEOREM SchedulesAreOwed == ClawbackSpec => []ScheduledIsOwed
<1>1. ClawbackInv => ScheduledIsOwed
  <2>1. \A m \in Nat, n \in Nat : m <= n => 100 * m <= -(-100 * n)
    OBVIOUS
  <2>2. QED
    BY SchedulesCounted, <2>1 DEF ScheduledIsOwed, Exposure, ChargedAmount
<1>2. QED
  BY <1>1, ClawbackInvariance, PTL

-----------------------------------------------------------------------------
(* Each step is one of the guarantee period or changes nothing of it.       *)
LEMMA LifeStep ==
  ASSUME ClawbackInv, [ClawbackNext]_clawbackVars
  PROVE  [Life!Trigger \/ Life!Expire]_<<period, charges>>
<1>1. ASSUME NEW q \in Claims, Commit(q) PROVE Life!Trigger
  <2>1. claim[q].posted \subseteq Entitled
    BY DEF ClawbackInv, Typed, Claim
  <2>2. charges = {} /\ charges' = charges \cup {<<q, w>> : w \in claim[q].posted}
    BY <1>1, AtCommit DEF Commit
  <2>3. charges' \in SUBSET (Claims \X Entitled)
    BY <2>1, <2>2
  <2>4. QED
    BY <1>1, <2>3, AtCommit DEF Life!Trigger, Commit
<1>2. CASE ExpireClean
  BY <1>2 DEF ExpireClean, Life!Expire
<1>3. ASSUME ~ExpireClean, \A q \in Claims : ~Commit(q)
      PROVE  UNCHANGED <<period, charges>>
  BY <1>3
  DEF ClawbackNext, clawbackVars, Calculate, ApproveRecord, TriggerClawback,
      InsertClawbackEvent, TriggerGuaranteePeriod, HoldRecords, ListRecordIds, PostCharge,
      Rollback, WriteClawbackAudit, committed
<1>4. QED
  BY <1>1, <1>2, <1>3

(* However requests and the expiry overlap, the period ends at most once    *)
(* and everything it charges is charged in that step.                       *)
THEOREM ClawbackImplementsLife == ClawbackSpec => ImplementsLife
<1>1. ClawbackInit => Life!Init
  BY DEF ClawbackInit, ClawbackBegin, Life!Init
<1>2. QED
  BY <1>1, ClawbackInvariance, LifeStep, PTL DEF ClawbackSpec, ImplementsLife, Life!Spec

(* The books agree on each clawback: taken and charged, charged and         *)
(* scheduled, committed and audited (handleTriggerClawback).                *)
THEOREM ClawbackIsSound == ClawbackSpec => []ClawbackSound
BY TakenRecordsAreCharged, AuditFollowsCommit, SchedulesAreOwed, PTL DEF ClawbackSound

-----------------------------------------------------------------------------
(* The four side by side: a step of MCSpec is one of each, or leaves it     *)
(* alone.                                                                   *)

LEMMA DisputesLeaveRest == DisputesNext => UNCHANGED vars
BY DEF DisputesNext, CreateDispute, LoadPage, Back, SelectDispute, Resolve, Answer, LoseAnswer,
   CheckDispute, UpdateDispute, WriteAudit, HandlerFails, vars

LEMMA EachStep ==
  [MCNext]_<<vars, disputeVars, ledgerVars, clawbackVars, desk>> =>
    /\ [Next]_vars /\ [DisputesNext]_disputeVars
    /\ [LedgerNext]_ledgerVars /\ [ClawbackNext]_clawbackVars
<1>1. SUFFICES ASSUME [MCNext]_<<vars, disputeVars, ledgerVars, clawbackVars, desk>>
               PROVE  /\ [Next]_vars /\ [DisputesNext]_disputeVars
                      /\ [LedgerNext]_ledgerVars /\ [ClawbackNext]_clawbackVars
  OBVIOUS
<1>2. ((e3 \in Exceptions /\ CreateException(e3)) \/ \E r \in Records : Close(r)) => Next
  BY DEF Next
<1>3. CASE UNCHANGED <<vars, disputeVars, ledgerVars, clawbackVars, desk>>
  BY <1>3
<1>4. CASE MCNext /\ desk = "clawback"
  BY <1>4 DEF MCNext
<1>5. CASE MCNext /\ desk # "clawback"
  BY <1>2, <1>5, DisputesLeaveRest DEF MCNext, Others
<1>6. QED
  BY <1>1, <1>3, <1>4, <1>5

LEMMA EachInit == MCInit => Init /\ ClawbackInit /\ DisputesInv /\ LedgerInv
<1>1. SUFFICES ASSUME MCInit PROVE Init /\ ClawbackInit /\ DisputesInv /\ LedgerInv
  OBVIOUS
<1>2. Init /\ LedgerInv
  BY <1>1, LedgerStart DEF MCInit
<1>3. ClawbackInit
  <2>1. CASE desk = "clawback"
    BY <1>1, <2>1 DEF MCInit
  <2>2. CASE desk # "clawback"
    <3>1. PICK n \in Counts : n = CHOOSE m \in Counts : TRUE
      BY CountsAssumption
    <3> DEFINE first == NewClaim("clawback", n)
               fresh == {NewClaim(rule, count) : rule \in Rules, count \in Counts}
    <3>2. first \in fresh
      <4>1. "clawback" \in Rules /\ n \in Counts
        BY DEF Rules
      <4>2. \E rule \in Rules, count \in Counts : NewClaim("clawback", n) = NewClaim(rule, count)
        BY <4>1
      <4>3. QED
        BY <4>2
    <3>3. ClawbackBegin /\ claim = [q \in Claims |-> first]
      BY <1>1, <2>2, <3>1 DEF MCInit
    <3>4. ClawbackInit <=> ClawbackBegin /\ claim \in [Claims -> fresh]
      BY DEF ClawbackInit
    <3> HIDE DEF first, fresh
    <3>5. [q \in Claims |-> first] \in [Claims -> fresh]
      BY <3>2
    <3>6. QED
      BY <3>3, <3>4, <3>5
  <2>3. QED
    BY <2>1, <2>2
<1>4. DisputesInv
  <2> DEFINE state0 == [d \in Disputes |-> IF d = d1 THEN "UnderReview" ELSE "absent"]
  <2>1. state0 \in [Disputes -> {"absent", "UnderReview"}] /\ DisputesInit(state0)
    BY <1>1 DEF MCInit
  <2> HIDE DEF state0
  <2>2. QED
    BY <2>1, DisputesStart
<1>5. QED
  BY <1>2, <1>3, <1>4

(* Every behaviour of the four together is one of the exceptions, and one   *)
(* of the clawbacks: what is proved of either by itself holds here too.     *)
LEMMA EachByItself == MCSpec => Spec /\ ClawbackSpec
BY EachInit, EachStep, PTL DEF MCSpec, Spec, ClawbackSpec

LEMMA DisputesInvariance == MCSpec => [](DisputesInv /\ LedgerInv)
<1>1. MCInit => DisputesInv /\ LedgerInv
  BY EachInit
<1>2. /\ DisputesInv /\ LedgerInv
      /\ [MCNext]_<<vars, disputeVars, ledgerVars, clawbackVars, desk>>
      => (DisputesInv /\ LedgerInv)'
  BY EachStep, DisputesStep, LedgerStep
<1>3. QED
  BY <1>1, <1>2, PTL DEF MCSpec

(* Every table, page and request is typed, a page waits for an answer       *)
(* exactly while its button is disabled, and the ledger of a record holds   *)
(* the posts that were not refused, each once (postAdjustment, the pages).  *)
THEOREM AllTyped == MCSpec => []MCTypeOK
<1>1. DisputesInv => DisputesTypeOK
  <2>1. SUFFICES ASSUME DisputesInv, NEW p \in Pages
                 PROVE  page[p].saving = \E c \in Calls : call[c].page = p
    BY DEF DisputesInv, DisputeTypes, DisputesTypeOK
  <2>2. page[p].saving <=> \E c \in Calls : call[c].page = p
    BY <2>1 DEF DisputesInv, OneAnswer, Awaits
  <2>3. page[p].saving \in BOOLEAN
    BY <2>1 DEF DisputesInv, DisputeTypes, DisputePage
  <2>4. QED
    BY <2>2, <2>3, Zenon
<1>2. LedgerInv => LedgerTypeOK
  BY LedgerTells
<1>3. QED
  BY <1>1, <1>2, EachByItself, DisputesInvariance, TypeCorrect, ClawbackTyped, PTL DEF MCTypeOK

(* Whoever is told that their decision resolved a dispute is who the table  *)
(* names, each audit entry names who resolved, and what the audit entries   *)
(* of a record name of its ledger nests (handleResolveDispute,              *)
(* handlePostAdjustment).                                                   *)
THEOREM TrailsAreTrue == MCSpec => []TrailsTellTruth
<1>1. DisputesInv => ConfirmedByResolver /\ AuditNamesResolver
  BY DEF DisputesInv, Confirmed, ConfirmedByResolver, ResolvedBy, ResolvedIn
<1>2. LedgerInv => PriorsNest
  BY LedgerTells
<1>3. QED
  BY <1>1, <1>2, DisputesInvariance, PTL DEF TrailsTellTruth
=============================================================================
