------------------------- MODULE CommissionRunsProofs -------------------------
(***************************************************************************)
(* Proofs about CommissionRuns, for every set of records, runs and request *)
(* slots, and about the month end: the runs beside the reconciliation.     *)
(*                                                                         *)
(* The argument has two layers.  Shape says what a request holds at each   *)
(* of its steps; it is inductive by itself and gives the type invariant    *)
(* and what exports return.  Closed adds what the approval rests on: a run *)
(* whose reviews were read complete once its records were linked is Firm,  *)
(* and stays so until the approval is written, because only the request    *)
(* that creates a run adds records to it and nothing takes a review back.  *)
(* A run whose approver was faster than that is in hasty, for good.        *)
(*                                                                         *)
(* The month end adds two invariants of its own.  MonthInv says what a     *)
(* report that runs alone still has to insert; with Shape it gives that a  *)
(* blocked run stands while differences are open.  PageInv says how far    *)
(* the page of the report lags behind the server.                          *)
(***************************************************************************)
EXTENDS MCMonthEnd, FiniteSetTheorems, TLAPS

(* The steps of a request that has found, or inserted, its run. *)
OnRun == Steps \ {"idle", "listRecords", "insertRun"}

Exporting == {"readLinks", "storeArtifact", "readArtifact", "replied"}

(* What a request holds, by the step it is at. *)
WellFormed(x) ==
  /\ x.run # None <=> x.pc \in OnRun
  /\ x.pc \in {"markReviewed", "promoteRecord"} => x.rec # None
  /\ x.pc \in OnRun => runs[x.run].status # None
  /\ x.pc \in Exporting \cup {"settleRecords"} => runs[x.run].status = "Approved"
  /\ x.pc \in {"readArtifact", "replied"} => artifact[x.run] # None
  /\ x.pc = "replied" => x.seen = artifact[x.run]

Shape == TypeOK /\ \A q \in Requests : WellFormed(req[q])

(* A run that nobody approves in haste is complete, and reviewed.           *)
Firm(n) == n \notin hasty => ~BeingLinked(n) /\ AllReviewed(n)

(* What a request has read is still true when it writes. *)
Knows(x) ==
  /\ x.pc = "approveRun" => Firm(x.run)
  /\ x.pc = "storeArtifact" => /\ x.seen \subseteq runs[x.run].linked
                               /\ x.run \in hasty \/ x.seen = runs[x.run].linked

Closed == /\ \A q \in Requests : Knows(req[q])
          /\ ApprovedAsReviewed
          /\ ApprovedRecordBacked
          /\ ExportedWhole

-----------------------------------------------------------------------------
(* The statements keep the table well typed. *)

LEMMA SetStatusType ==
  ASSUME RecordsTypeOK, NEW S, NEW st \in Statuses, NEW h \in HoldReasons
  PROVE  /\ SetStatus(S, st, h) \in [Records -> RecordRow]
         /\ Advance(S, st) \in [Records -> RecordRow]
  BY DEF SetStatus, Advance, RecordsTypeOK, RecordRow

LEMMA StatementTypes ==
  ASSUME RecordsTypeOK
  PROVE  /\ \A r \in Records : PromoteIfAccrued(r) \in [Records -> RecordRow]
         /\ \A S : ApprovePending(S) \in [Records -> RecordRow]
         /\ \A p \in Placements :
              /\ releaseCollectionGate(p) \in [Records -> RecordRow]
              /\ releaseHeldCommissionRecordsForPlacement(p) \in [Records -> RecordRow]
              /\ holdCommissionRecordsForClawback(p) \in [Records -> RecordRow]
  BY SetStatusType DEF PromoteIfAccrued, ApprovePending, releaseCollectionGate,
     releaseHeldCommissionRecordsForPlacement, holdCommissionRecordsForClawback,
     Statuses, HoldReasons

LEMMA InitShape == Init => Shape
  BY NoneAssumption
  DEF Init, RecordsInit, RunsInit, Shape, TypeOK, RecordsTypeOK, RunsTypeOK, RecordRow,
      RunRow, HoldReasons, Request, Steps, Idle, OnRun, Exporting, WellFormed

(* Runs and artifacts only move forward: no step takes back what a waiting  *)
(* request knows of its run.                                                *)
Forward ==
  \A n \in Runs : /\ runs[n].status # None => runs'[n].status # None
                  /\ runs[n].status = "Approved" => runs'[n].status = "Approved"
                  /\ artifact[n] # None => artifact'[n] = artifact[n]

TablesOK == /\ RecordsTypeOK
            /\ runs \in [Runs -> RunRow]
            /\ artifact \in [Runs -> (SUBSET Records) \cup {None}]
            /\ discrepant \subseteq Runs
            /\ hasty \subseteq Runs

LEMMA RequestStep ==
  ASSUME Shape, TablesOK', Forward, NEW q \in Requests, NEW x \in Request,
         req' = [req EXCEPT ![q] = x], WellFormed(x)'
  PROVE  Shape'
<1>1. TypeOK'
  BY DEF Shape, TypeOK, RunsTypeOK, TablesOK
<1>2. ASSUME NEW o \in Requests, o # q PROVE WellFormed(req[o])'
  <2>1. req'[o] = req[o] /\ req[o] \in Request /\ WellFormed(req[o])
    BY <1>2 DEF Shape, TypeOK, RunsTypeOK
  <2>2. req[o].run \in Runs \/ req[o].run = None
    BY <2>1 DEF Request
  <2>3. req[o].run \in Runs => WellFormed(req[o])'
    BY <2>1 DEF WellFormed, Forward, Exporting, OnRun, Steps
  <2>4. req[o].run = None => WellFormed(req[o])'
    BY <2>1 DEF WellFormed, Exporting, OnRun, Steps
  <2>5. QED
    BY <2>2, <2>3, <2>4
<1>3. WellFormed(req[q])'
  BY DEF Shape, TypeOK, RunsTypeOK
<1>4. QED
  BY <1>1, <1>2, <1>3 DEF Shape

(* Steps that write no table. *)
LEMMA QuietStep ==
  ASSUME Shape, UNCHANGED <<recs, runs, artifact, discrepant>>, hasty' \subseteq Runs
  PROVE  TablesOK' /\ Forward
  BY DEF Shape, TypeOK, RunsTypeOK, TablesOK, Forward, RecordsTypeOK

LEMMA ReturnStep ==
  ASSUME Shape, TablesOK', Forward, NEW q \in Requests, Return(q)
  PROVE  Shape'
<1>1. Idle \in Request /\ WellFormed(Idle)'
  BY NoneAssumption DEF Idle, Request, Steps, WellFormed, OnRun, Exporting
<1>2. QED
  BY <1>1, RequestStep DEF Return

(* Only a request that reads the reviews of its run writes the history. *)
LEMMA HasteTyped ==
  ASSUME Shape, [Next]_vars
  PROVE  hasty' \subseteq Runs
<1>1. ASSUME NEW q \in Requests, ReadReviews(q) PROVE hasty' \subseteq Runs
  <2>1. req[q].run \in Runs
    BY <1>1 DEF Shape, TypeOK, RunsTypeOK, WellFormed, OnRun, Steps, ReadReviews, At, Request
  <2>2. QED
    BY <1>1, <2>1 DEF Shape, TypeOK, RunsTypeOK, ReadReviews
<1>2. CASE UNCHANGED hasty
  BY <1>2 DEF Shape, TypeOK, RunsTypeOK
<1>3. QED
  BY <1>1, <1>2
  DEF Next, RunsNext, Create, Review, Approve, Export, HoldSide, Reconciliation, vars,
      runVars, CreateRunRequest, ListRecords, InsertRun, LinkRecord, Created,
      ApproveRecordRequest, MarkReviewed, PromoteRecord, ApproveRunRequest,
      FinalizeRequest, CountDiscrepancies, ApproveRun, SettleRecords, ExportRequest,
      ReadLinks, StoreArtifact, ReadArtifact, ReceiveReply, Fail

LEMMA NextShape == Shape /\ [Next]_vars => Shape'
<1> SUFFICES ASSUME Shape, [Next]_vars PROVE Shape'
  OBVIOUS
<1>0. /\ RunsTypeOK /\ TablesOK /\ RecordsTypeOK
      /\ \A q \in Requests : req[q] \in Request /\ WellFormed(req[q])
      /\ Idle \in Request
  BY DEF Shape, TypeOK, RunsTypeOK, TablesOK, Idle, Request, Steps
<1>h. hasty' \subseteq Runs
  BY HasteTyped
<1> USE NoneAssumption, <1>h
<1>1. ASSUME NEW q \in Requests, NEW P \in SUBSET Placements, CreateRunRequest(q, P) PROVE Shape'
  <2>1. PICK x \in Request : x = [Idle EXCEPT !.pc = "listRecords", !.todo = P]
    BY <1>0 DEF Request, Steps
  <2>2. req' = [req EXCEPT ![q] = x] /\ UNCHANGED <<recs, runs, artifact, discrepant>>
    BY <1>1, <2>1 DEF CreateRunRequest, Receive
  <2>3. WellFormed(x)'
    BY <1>1, <1>0, <2>1, <2>2 DEF CreateRunRequest, Finds, TablesOK, RunRow, Idle, WellFormed, OnRun, Exporting, Steps
  <2>4. QED
    BY <2>2, <2>3, QuietStep, RequestStep
<1>2. ASSUME NEW q \in Requests, ListRecords(q) PROVE Shape'
  <2>1. PICK p \in req[q].todo :
          req' = [req EXCEPT ![q].todo = @ \ {p},
                             ![q].seen = @ \cup RecordsOf(p),
                             ![q].pc = IF req[q].todo = {p} THEN "insertRun" ELSE @]
    BY <1>2 DEF ListRecords
  <2>2. PICK x \in Request :
          x = [req[q] EXCEPT !.todo = @ \ {p}, !.seen = @ \cup RecordsOf(p),
                             !.pc = IF req[q].todo = {p} THEN "insertRun" ELSE @]
    BY <1>0 DEF Request, Steps, RecordsOf
  <2>3. req' = [req EXCEPT ![q] = x]
    BY <1>0, <2>1, <2>2 DEF RunsTypeOK, Request
  <2>4. UNCHANGED <<recs, runs, artifact, discrepant>>
    BY <1>2 DEF ListRecords
  <2>5. x.run = None /\ x.pc \in {"listRecords", "insertRun"}
    <3>1. req[q].pc = "listRecords" /\ req[q].run = None
      BY <1>2, <1>0 DEF ListRecords, At, WellFormed, OnRun, Steps
    <3>2. x.run = req[q].run /\ x.pc \in {"insertRun", req[q].pc}
      BY <1>0, <2>2 DEF Request
    <3>3. QED
      BY <3>1, <3>2
  <2>6. WellFormed(x)'
    BY <2>5 DEF WellFormed, OnRun, Exporting, Steps
  <2>7. QED
    BY <2>3, <2>4, <2>6, QuietStep, RequestStep
<1>3. ASSUME NEW q \in Requests, NEW n \in Runs, InsertRun(q, n) PROVE Shape'
  <2>1. PICK x \in Request : x = [req[q] EXCEPT !.run = n, !.pc = "linkRecords"]
    BY <1>0 DEF Request, Steps
  <2>2. req' = [req EXCEPT ![q] = x]
    BY <1>3, <1>0, <2>1 DEF InsertRun, RunsTypeOK, Request
  <2>3. TablesOK' /\ Forward
    BY <1>3, <1>0 DEF InsertRun, TablesOK, Forward, RecordsTypeOK, RunRow
  <2>4. x.run = n /\ x.pc = "linkRecords" /\ runs'[n].status # None
    BY <1>3, <1>0, <2>1 DEF InsertRun, TablesOK, RunRow, Request
  <2>5. WellFormed(x)'
    BY <2>4 DEF WellFormed, OnRun, Exporting, Steps
  <2>6. QED
    BY <2>2, <2>3, <2>5, RequestStep
<1>4. ASSUME NEW q \in Requests, LinkRecord(q) PROVE Shape'
  <2>1. PICK r \in req[q].seen :
          /\ runs' = [runs EXCEPT ![req[q].run].linked = @ \cup {r}]
          /\ req' = [req EXCEPT ![q].seen = @ \ {r}]
    BY <1>4 DEF LinkRecord
  <2>2. /\ r \in Records /\ req[q].run \in Runs /\ req[q].pc = "linkRecords"
        /\ runs[req[q].run].status # None
    BY <1>4, <1>0 DEF LinkRecord, At, Request, WellFormed, OnRun, Steps
  <2>3. PICK x \in Request : x = [req[q] EXCEPT !.seen = @ \ {r}]
    BY <1>0 DEF Request, Steps
  <2>4. req' = [req EXCEPT ![q] = x]
    BY <2>1, <2>3
  <2>5. TablesOK' /\ Forward
    BY <1>4, <1>0, <2>1, <2>2 DEF LinkRecord, TablesOK, Forward, RunRow, RecordsTypeOK
  <2>6. x.run = req[q].run /\ x.pc = "linkRecords"
    BY <1>0, <2>2, <2>3 DEF Request
  <2>7. WellFormed(x)'
    BY <2>2, <2>5, <2>6 DEF Forward, WellFormed, OnRun, Exporting, Steps
  <2>8. QED
    BY <2>4, <2>5, <2>7, RequestStep
<1>5. ASSUME NEW q \in Requests, Created(q) PROVE Shape'
  BY <1>5, QuietStep, ReturnStep DEF Created
<1>6. ASSUME NEW q \in Requests, NEW n \in Runs, NEW r \in Records, ApproveRecordRequest(q, n, r) PROVE Shape'
  <2>1. PICK x \in Request : x = [Idle EXCEPT !.pc = "markReviewed", !.run = n, !.rec = r]
    BY <1>0 DEF Request, Steps
  <2>2. req' = [req EXCEPT ![q] = x] /\ UNCHANGED <<recs, runs, artifact, discrepant>>
    BY <1>6, <2>1 DEF ApproveRecordRequest, Receive
  <2>3. WellFormed(x)'
    BY <1>6, <1>0, <2>1, <2>2 DEF ApproveRecordRequest, Finds, TablesOK, RunRow, Idle, WellFormed, OnRun, Exporting, Steps
  <2>4. QED
    BY <2>2, <2>3, QuietStep, RequestStep
<1>7. ASSUME NEW q \in Requests, MarkReviewed(q) PROVE Shape'
  <2>1. /\ req[q].run \in Runs /\ req[q].pc = "markReviewed"
        /\ WellFormed(req[q])
    BY <1>7, <1>0 DEF MarkReviewed, At, Request, WellFormed, OnRun, Exporting, Steps
  <2>2. TablesOK' /\ Forward
    <3>1. UNCHANGED <<recs, artifact, discrepant>>
      BY <1>7 DEF MarkReviewed
    <3>2. CASE runs' = [runs EXCEPT ![req[q].run].reviewed = @ \cup {req[q].rec}]
               /\ req[q].rec \in runs[req[q].run].linked
      BY <1>0, <2>1, <3>1, <3>2 DEF TablesOK, Forward, RunRow, RecordsTypeOK
    <3>3. CASE UNCHANGED runs
      BY <1>0, <3>1, <3>3 DEF TablesOK, Forward, RecordsTypeOK
    <3>4. QED
      BY <1>7, <3>2, <3>3 DEF MarkReviewed
  <2>3. CASE Return(q)
    BY <2>2, <2>3, ReturnStep
  <2>4. CASE Goto(q, "promoteRecord")
    <3>1. PICK x \in Request : x = [req[q] EXCEPT !.pc = "promoteRecord"]
      BY <1>0 DEF Request, Steps
    <3>2. x.pc = "promoteRecord" /\ x.run = req[q].run /\ x.rec = req[q].rec
      BY <1>0, <3>1 DEF Request
    <3>3. WellFormed(x)'
      BY <2>1, <2>2, <3>2 DEF WellFormed, Forward, OnRun, Exporting, Steps
    <3>4. QED
      BY <2>2, <2>4, <3>1, <3>3, RequestStep DEF Goto
  <2>5. QED
    BY <1>7, <2>3, <2>4 DEF MarkReviewed
<1>8. ASSUME NEW q \in Requests, PromoteRecord(q) PROVE Shape'
  <2>1. /\ req[q].run \in Runs /\ req[q].pc = "promoteRecord"
        /\ WellFormed(req[q])
    BY <1>8, <1>0 DEF PromoteRecord, At, Request, WellFormed, OnRun, Exporting, Steps
  <2>2. TablesOK' /\ Forward
    BY <1>8, <1>0, <2>1, StatementTypes
    DEF PromoteRecord, TablesOK, Forward, RecordsTypeOK, WellFormed, Request
  <2>3. QED
    BY <1>8, <2>2, ReturnStep DEF PromoteRecord
<1>9. ASSUME NEW q \in Requests, NEW n \in Runs, ApproveRunRequest(q, n) PROVE Shape'
  <2>1. PICK x \in Request : x = [Idle EXCEPT !.pc = "readReviews", !.run = n]
    BY <1>0 DEF Request, Steps
  <2>2. req' = [req EXCEPT ![q] = x] /\ UNCHANGED <<recs, runs, artifact, discrepant>>
    BY <1>9, <2>1 DEF ApproveRunRequest, Receive
  <2>3. WellFormed(x)'
    BY <1>9, <1>0, <2>1, <2>2 DEF ApproveRunRequest, Finds, TablesOK, RunRow, Idle, WellFormed, OnRun, Exporting, Steps
  <2>4. QED
    BY <2>2, <2>3, QuietStep, RequestStep
<1>10. ASSUME NEW q \in Requests, NEW n \in Runs, NEW b \in BOOLEAN, FinalizeRequest(q, n, b) PROVE Shape'
  <2>1. PICK x \in Request : x = [Idle EXCEPT !.pc = "countDiscrepancies", !.run = n,
                                       !.overridden = b]
    BY <1>0 DEF Request, Steps
  <2>2. req' = [req EXCEPT ![q] = x] /\ UNCHANGED <<recs, runs, artifact, discrepant>>
    BY <1>10, <2>1 DEF FinalizeRequest, Receive
  <2>3. WellFormed(x)'
    BY <1>10, <1>0, <2>1, <2>2 DEF FinalizeRequest, Finds, TablesOK, RunRow, Idle, WellFormed, OnRun, Exporting, Steps
  <2>4. QED
    BY <2>2, <2>3, QuietStep, RequestStep
<1>11. ASSUME NEW q \in Requests, CountDiscrepancies(q) PROVE Shape'
  <2>1. /\ req[q].run \in Runs /\ req[q].pc = "countDiscrepancies"
        /\ WellFormed(req[q])
    BY <1>11, <1>0 DEF CountDiscrepancies, At, Request, WellFormed, OnRun, Exporting, Steps
  <2>2. TablesOK' /\ Forward
    BY <1>11, QuietStep DEF CountDiscrepancies
  <2>3. CASE Return(q)
    BY <2>2, <2>3, ReturnStep
  <2>4. CASE Goto(q, "readReviews")
    <3>1. PICK x \in Request : x = [req[q] EXCEPT !.pc = "readReviews"]
      BY <1>0 DEF Request, Steps
    <3>2. x.pc = "readReviews" /\ x.run = req[q].run /\ x.rec = req[q].rec
      BY <1>0, <3>1 DEF Request
    <3>3. WellFormed(x)'
      BY <2>1, <2>2, <3>2 DEF WellFormed, Forward, OnRun, Exporting, Steps
    <3>4. QED
      BY <2>2, <2>4, <3>1, <3>3, RequestStep DEF Goto
  <2>5. QED
    BY <1>11, <2>3, <2>4 DEF CountDiscrepancies
<1>12. ASSUME NEW q \in Requests, ReadReviews(q) PROVE Shape'
  <2>1. /\ req[q].run \in Runs /\ req[q].pc = "readReviews"
        /\ WellFormed(req[q])
    BY <1>12, <1>0 DEF ReadReviews, At, Request, WellFormed, OnRun, Exporting, Steps
  <2>2. TablesOK' /\ Forward
    BY <1>12, QuietStep DEF ReadReviews
  <2>3. CASE Return(q)
    BY <2>2, <2>3, ReturnStep
  <2>4. CASE Goto(q, "approveRun")
    <3>1. PICK x \in Request : x = [req[q] EXCEPT !.pc = "approveRun"]
      BY <1>0 DEF Request, Steps
    <3>2. x.pc = "approveRun" /\ x.run = req[q].run /\ x.rec = req[q].rec
      BY <1>0, <3>1 DEF Request
    <3>3. WellFormed(x)'
      BY <2>1, <2>2, <3>2 DEF WellFormed, Forward, OnRun, Exporting, Steps
    <3>4. QED
      BY <2>2, <2>4, <3>1, <3>3, RequestStep DEF Goto
  <2>5. QED
    BY <1>12, <2>3, <2>4 DEF ReadReviews
<1>13. ASSUME NEW q \in Requests, ApproveRun(q) PROVE Shape'
  <2>1. /\ req[q].run \in Runs /\ req[q].pc = "approveRun"
        /\ WellFormed(req[q])
    BY <1>13, <1>0 DEF ApproveRun, At, Request, WellFormed, OnRun, Exporting, Steps
  <2>2. TablesOK' /\ Forward
    BY <1>13, <1>0, <2>1 DEF ApproveRun, TablesOK, Forward, RunRow, RecordsTypeOK
  <2>3. CASE Return(q)
    BY <2>2, <2>3, ReturnStep
  <2>4. CASE /\ runs' = [runs EXCEPT ![req[q].run].status = "Approved"]
             /\ Goto(q, "settleRecords")
    <3>0. runs'[req[q].run].status = "Approved"
      BY <1>0, <2>1, <2>4 DEF TablesOK, RunRow
    <3>1. PICK x \in Request : x = [req[q] EXCEPT !.pc = "settleRecords"]
      BY <1>0 DEF Request, Steps
    <3>2. x.pc = "settleRecords" /\ x.run = req[q].run /\ x.rec = req[q].rec
      BY <1>0, <3>1 DEF Request
    <3>3. WellFormed(x)'
      BY <2>1, <2>2, <3>0, <3>2 DEF WellFormed, Forward, OnRun, Exporting, Steps
    <3>4. QED
      BY <2>2, <2>4, <3>1, <3>3, RequestStep DEF Goto
  <2>5. QED
    BY <1>13, <2>3, <2>4 DEF ApproveRun
<1>14. ASSUME NEW q \in Requests, SettleRecords(q) PROVE Shape'
  <2>1. TablesOK' /\ Forward
    BY <1>14, <1>0, StatementTypes DEF SettleRecords, TablesOK, Forward, RecordsTypeOK
  <2>2. QED
    BY <1>14, <2>1, ReturnStep DEF SettleRecords
<1>15. ASSUME NEW q \in Requests, NEW n \in Runs, ExportRequest(q, n) PROVE Shape'
  <2>1. PICK x \in Request : x = [Idle EXCEPT !.pc = "readLinks", !.run = n]
    BY <1>0 DEF Request, Steps
  <2>2. req' = [req EXCEPT ![q] = x] /\ UNCHANGED <<recs, runs, artifact, discrepant>>
    BY <1>15, <2>1 DEF ExportRequest, Receive
  <2>3. WellFormed(x)'
    BY <1>15, <1>0, <2>1, <2>2 DEF ExportRequest, Finds, TablesOK, RunRow, Idle, WellFormed, OnRun, Exporting, Steps
  <2>4. QED
    BY <2>2, <2>3, QuietStep, RequestStep
<1>16. ASSUME NEW q \in Requests, ReadLinks(q) PROVE Shape'
  <2>1. /\ req[q].run \in Runs /\ req[q].pc = "readLinks"
        /\ WellFormed(req[q])
    BY <1>16, <1>0 DEF ReadLinks, At, Request, WellFormed, OnRun, Exporting, Steps
  <2>2. PICK x \in Request : x = [req[q] EXCEPT !.seen = runs[req[q].run].linked,
                                               !.pc = "storeArtifact"]
    BY <1>0, <2>1 DEF TablesOK, RunRow, Request, Steps
  <2>3. req' = [req EXCEPT ![q] = x]
    BY <1>16, <1>0, <2>2 DEF ReadLinks, RunsTypeOK, Request
  <2>4. x.pc = "storeArtifact" /\ x.run = req[q].run
    BY <1>0, <2>2 DEF Request
  <2>5. TablesOK' /\ Forward
    BY <1>16, QuietStep DEF ReadLinks
  <2>6. WellFormed(x)'
    BY <2>1, <2>4, <2>5 DEF WellFormed, Forward, OnRun, Exporting, Steps
  <2>7. QED
    BY <2>3, <2>5, <2>6, RequestStep
<1>17. ASSUME NEW q \in Requests, StoreArtifact(q) PROVE Shape'
  <2>1. /\ req[q].run \in Runs /\ req[q].pc = "storeArtifact"
        /\ WellFormed(req[q])
    BY <1>17, <1>0 DEF StoreArtifact, At, Request, WellFormed, OnRun, Exporting, Steps
  <2>2. TablesOK' /\ Forward
    BY <1>17, <1>0, <2>1 DEF StoreArtifact, TablesOK, Forward, RecordsTypeOK, Request
  <2>3. artifact'[req[q].run] # None
    BY <1>17, <1>0, <2>1 DEF StoreArtifact, TablesOK, Request
  <2>4. PICK x \in Request : x = [req[q] EXCEPT !.pc = "readArtifact"]
    BY <1>0 DEF Request, Steps
  <2>5. x.pc = "readArtifact" /\ x.run = req[q].run /\ x.rec = req[q].rec
    BY <1>0, <2>4 DEF Request
  <2>6. WellFormed(x)'
    BY <2>1, <2>2, <2>3, <2>5 DEF WellFormed, Forward, OnRun, Exporting, Steps
  <2>7. QED
    BY <1>17, <2>2, <2>4, <2>6, RequestStep DEF StoreArtifact, Goto
<1>18. ASSUME NEW q \in Requests, ReadArtifact(q) PROVE Shape'
  <2>1. /\ req[q].run \in Runs /\ req[q].pc = "readArtifact"
        /\ WellFormed(req[q])
    BY <1>18, <1>0 DEF ReadArtifact, At, Request, WellFormed, OnRun, Exporting, Steps
  <2>2. PICK x \in Request : x = [req[q] EXCEPT !.seen = artifact[req[q].run],
                                               !.pc = "replied"]
    <3>1. artifact[req[q].run] \in SUBSET Records
      BY <1>0, <2>1 DEF TablesOK, WellFormed
    <3>2. QED
      BY <1>0, <3>1 DEF Request, Steps
  <2>3. req' = [req EXCEPT ![q] = x]
    BY <1>18, <1>0, <2>2 DEF ReadArtifact, RunsTypeOK, Request
  <2>4. x.pc = "replied" /\ x.run = req[q].run /\ x.seen = artifact[req[q].run]
    BY <1>0, <2>2 DEF Request
  <2>5. TablesOK' /\ Forward /\ UNCHANGED artifact
    BY <1>18, QuietStep DEF ReadArtifact
  <2>6. WellFormed(x)'
    BY <2>1, <2>4, <2>5 DEF WellFormed, Forward, OnRun, Exporting, Steps
  <2>7. QED
    BY <2>3, <2>5, <2>6, RequestStep
<1>19. ASSUME NEW q \in Requests, ReceiveReply(q) PROVE Shape'
  BY <1>19, QuietStep, ReturnStep DEF ReceiveReply
<1>20. ASSUME NEW q \in Requests, Fail(q) PROVE Shape'
  BY <1>20, QuietStep, ReturnStep DEF Fail
<1>21. ASSUME HoldSide PROVE Shape'
  <2>1. CASE \E r \in Records : Calculate(r)
    BY <1>0, <1>21, <2>1 DEF HoldSide, runVars, Calculate, createCommissionRecord,
       RecordsTypeOK, RecordRow, Statuses, HoldReasons, Shape, TypeOK, RunsTypeOK, WellFormed
  <2>2. CASE \E p \in Placements :
               \/ recs' = releaseCollectionGate(p)
               \/ recs' = releaseHeldCommissionRecordsForPlacement(p)
               \/ recs' = holdCommissionRecordsForClawback(p)
    BY <1>0, <1>21, <2>2, StatementTypes
    DEF HoldSide, runVars, RecordsTypeOK, Shape, TypeOK, RunsTypeOK, WellFormed
  <2>3. QED
    BY <1>21, <2>1, <2>2 DEF HoldSide
<1>22. ASSUME Reconciliation PROVE Shape'
  BY <1>0, <1>22 DEF Reconciliation, Shape, TypeOK, RunsTypeOK, RecordsTypeOK, WellFormed
<1>23. ASSUME UNCHANGED vars PROVE Shape'
  BY <1>0, <1>23 DEF vars, Shape, TypeOK, RunsTypeOK, RecordsTypeOK, WellFormed
<1>24. QED
  BY <1>1, <1>2, <1>3, <1>4, <1>5, <1>6, <1>7, <1>8, <1>9, <1>10, <1>11, <1>12,
     <1>13, <1>14, <1>15, <1>16, <1>17, <1>18, <1>19, <1>20, <1>21, <1>22, <1>23
  DEF Next, RunsNext, Create, Review, Approve, Export

-----------------------------------------------------------------------------
(* What a run holds once its reviews were read. *)

Serves(q) == Create(q) \/ Review(q) \/ Approve(q) \/ Export(q) \/ Fail(q)

(* The steps at which a request knows something of the records of its run.  *)
Knowing == {"linkRecords", "approveRun", "storeArtifact"}

(* A request moves alone, and gets to know something in one of four ways.   *)
LEMMA Moves ==
  ASSUME Shape, NEW q \in Requests, Serves(q)
  PROVE  /\ \A o \in Requests \ {q} : req'[o] = req[o]
         /\ \/ req'[q].pc \notin Knowing
            \/ \E n \in Runs : InsertRun(q, n)
            \/ LinkRecord(q) \/ ReadReviews(q) \/ ReadLinks(q)
<1>0. req \in [Requests -> Request]
  BY DEF Shape, TypeOK, RunsTypeOK
<1>1. ASSUME NEW x, req' = [req EXCEPT ![q] = x], x.pc \notin Knowing
      PROVE  (\A o \in Requests \ {q} : req'[o] = req[o]) /\ req'[q].pc \notin Knowing
  BY <1>0, <1>1
<1>2. CASE Return(q)
  BY <1>0, <1>2 DEF Return, Idle, Knowing
<1>3. ASSUME NEW pc \in Steps \ Knowing, Goto(q, pc)
      PROVE  (\A o \in Requests \ {q} : req'[o] = req[o]) /\ req'[q].pc \notin Knowing
  BY <1>0, <1>3 DEF Goto, Request
<1>4. ASSUME NEW x, Receive(q, x), x.pc \notin Knowing
      PROVE  (\A o \in Requests \ {q} : req'[o] = req[o]) /\ req'[q].pc \notin Knowing
  BY <1>1, <1>4 DEF Receive
<1>5. CASE Create(q)
  <2>1. ASSUME NEW P, CreateRunRequest(q, P)
        PROVE  (\A o \in Requests \ {q} : req'[o] = req[o]) /\ req'[q].pc \notin Knowing
    BY <1>4, <2>1 DEF CreateRunRequest, Idle, Knowing
  <2>2. CASE ListRecords(q)
    BY <1>0, <2>2 DEF ListRecords, At, Request, Knowing
  <2>3. ASSUME NEW n \in Runs, InsertRun(q, n) PROVE \A o \in Requests \ {q} : req'[o] = req[o]
    BY <1>0, <2>3 DEF InsertRun
  <2>4. CASE LinkRecord(q)
    BY <1>0, <2>4 DEF LinkRecord
  <2>5. CASE Created(q)
    BY <1>2, <2>5 DEF Created
  <2>6. QED
    BY <1>5, <2>1, <2>2, <2>3, <2>4, <2>5 DEF Create
<1>6. CASE Review(q)
  <2>1. ASSUME NEW n, NEW r, ApproveRecordRequest(q, n, r)
        PROVE  (\A o \in Requests \ {q} : req'[o] = req[o]) /\ req'[q].pc \notin Knowing
    BY <1>4, <2>1 DEF ApproveRecordRequest, Idle, Knowing
  <2>2. CASE MarkReviewed(q) \/ PromoteRecord(q)
    BY <1>2, <1>3, <2>2 DEF MarkReviewed, PromoteRecord, Steps, Knowing
  <2>3. QED
    BY <1>6, <2>1, <2>2 DEF Review
<1>7. CASE Approve(q)
  <2>1. ASSUME NEW n, ApproveRunRequest(q, n)
        PROVE  (\A o \in Requests \ {q} : req'[o] = req[o]) /\ req'[q].pc \notin Knowing
    BY <1>4, <2>1 DEF ApproveRunRequest, Idle, Knowing
  <2>2. ASSUME NEW n, NEW b, FinalizeRequest(q, n, b)
        PROVE  (\A o \in Requests \ {q} : req'[o] = req[o]) /\ req'[q].pc \notin Knowing
    BY <1>4, <2>2 DEF FinalizeRequest, Idle, Knowing
  <2>3. CASE CountDiscrepancies(q) \/ ApproveRun(q) \/ SettleRecords(q)
    BY <1>2, <1>3, <2>3 DEF CountDiscrepancies, ApproveRun, SettleRecords, Steps, Knowing
  <2>4. CASE ReadReviews(q)
    BY <1>0, <2>4 DEF ReadReviews, Return, Goto
  <2>5. QED
    BY <1>7, <2>1, <2>2, <2>3, <2>4 DEF Approve
<1>8. CASE Export(q)
  <2>1. ASSUME NEW n, ExportRequest(q, n)
        PROVE  (\A o \in Requests \ {q} : req'[o] = req[o]) /\ req'[q].pc \notin Knowing
    BY <1>4, <2>1 DEF ExportRequest, Idle, Knowing
  <2>2. CASE StoreArtifact(q) \/ ReceiveReply(q)
    BY <1>2, <1>3, <2>2 DEF StoreArtifact, ReceiveReply, Steps, Knowing
  <2>3. CASE ReadLinks(q)
    BY <1>0, <2>3 DEF ReadLinks
  <2>4. CASE ReadArtifact(q)
    BY <1>0, <2>4 DEF ReadArtifact, Request, Knowing
  <2>5. QED
    BY <1>8, <2>1, <2>2, <2>3, <2>4 DEF Export
<1>9. CASE Fail(q)
  BY <1>2, <1>9 DEF Fail
<1>10. QED
  BY <1>5, <1>6, <1>7, <1>8, <1>9 DEF Serves

(* Only three statements write the records and reviews of a run, and one    *)
(* its approval.                                                            *)
LEMMA RunWrites ==
  ASSUME NEW q \in Requests, Serves(q)
  PROVE  \/ runs' = runs
         \/ \E n \in Runs : InsertRun(q, n)
         \/ LinkRecord(q) \/ MarkReviewed(q) \/ ApproveRun(q)
BY DEF Serves, Create, Review, Approve, Export, CreateRunRequest, ListRecords, Created,
       ApproveRecordRequest, PromoteRecord, ApproveRunRequest, FinalizeRequest,
       CountDiscrepancies, ReadReviews, SettleRecords, ExportRequest, ReadLinks,
       StoreArtifact, ReadArtifact, ReceiveReply, Fail

(* What a step does to the row of one run.                                  *)
LEMMA RowMoves ==
  ASSUME Shape, NEW q \in Requests, Serves(q), NEW n \in Runs
  PROVE  \/ runs'[n] = runs[n]
         \/ /\ runs[n].status = None /\ runs'[n].status = "Open"
            /\ runs'[n].linked = runs[n].linked /\ runs'[n].reviewed = runs[n].reviewed
         \/ /\ LinkRecord(q) /\ req[q].run = n /\ req[q].pc = "linkRecords" /\ req[q].seen # {}
            /\ runs'[n].status = runs[n].status /\ runs'[n].reviewed = runs[n].reviewed
            /\ runs[n].linked \subseteq runs'[n].linked
         \/ /\ runs'[n].status = runs[n].status /\ runs'[n].linked = runs[n].linked
            /\ runs[n].reviewed \subseteq runs'[n].reviewed
         \/ /\ At(q, "approveRun") /\ req[q].run = n
            /\ runs[n].status = "Open" /\ runs'[n].status = "Approved"
            /\ runs'[n].linked = runs[n].linked /\ runs'[n].reviewed = runs[n].reviewed
<1>0. runs \in [Runs -> RunRow]
  BY DEF Shape, TypeOK, RunsTypeOK
<1>1. ASSUME NEW m \in Runs, InsertRun(q, m)
      PROVE  \/ runs'[n] = runs[n]
             \/ /\ runs[n].status = None /\ runs'[n].status = "Open"
                /\ runs'[n].linked = runs[n].linked /\ runs'[n].reviewed = runs[n].reviewed
  BY <1>0, <1>1 DEF InsertRun, RunRow
<1>2. CASE LinkRecord(q)
  <2>1. PICK r \in req[q].seen : runs' = [runs EXCEPT ![req[q].run].linked = @ \cup {r}]
    BY <1>2 DEF LinkRecord
  <2>2. req[q].pc = "linkRecords" /\ req[q].seen # {}
    BY <1>2, <2>1 DEF LinkRecord, At
  <2>3. CASE req[q].run = n
    BY <1>0, <1>2, <2>1, <2>2, <2>3 DEF RunRow
  <2>4. CASE req[q].run # n
    BY <1>0, <2>1, <2>4
  <2>5. QED
    BY <2>3, <2>4
<1>3. CASE MarkReviewed(q)
  <2>1. CASE runs' = [runs EXCEPT ![req[q].run].reviewed = @ \cup {req[q].rec}]
    BY <1>0, <2>1 DEF RunRow
  <2>2. CASE runs' = runs
    BY <2>2
  <2>3. QED
    BY <1>3, <2>1, <2>2 DEF MarkReviewed
<1>4. CASE ApproveRun(q)
  <2>1. CASE /\ runs[req[q].run].status = "Open"
             /\ runs' = [runs EXCEPT ![req[q].run].status = "Approved"]
    BY <1>0, <1>4, <2>1 DEF RunRow, ApproveRun
  <2>2. CASE runs' = runs
    BY <2>2
  <2>3. QED
    BY <1>4, <2>1, <2>2 DEF ApproveRun
<1>5. QED
  BY <1>1, <1>2, <1>3, <1>4, RunWrites

(* Records and reviews are only added to a run, and records only by the     *)
(* request that creates it.                                                 *)
Steady ==
  \A n \in Runs :
    /\ runs[n].linked \subseteq runs'[n].linked
    /\ runs[n].reviewed \subseteq runs'[n].reviewed
    /\ runs[n].status # None /\ ~BeingLinked(n) =>
         runs'[n].linked = runs[n].linked /\ ~BeingLinked(n)'

LEMMA ServesSteadily ==
  ASSUME Shape, NEW q \in Requests, Serves(q)
  PROVE  Steady
<1>0. /\ runs \in [Runs -> RunRow] /\ req \in [Requests -> Request]
      /\ \A o \in Requests : WellFormed(req[o])
      /\ \A o \in Requests \ {q} : req'[o] = req[o]
  BY Moves DEF Shape, TypeOK, RunsTypeOK
<1>1. ASSUME NEW n \in Runs
      PROVE  runs[n].linked \subseteq runs'[n].linked /\ runs[n].reviewed \subseteq runs'[n].reviewed
  BY RowMoves
<1>2. ASSUME NEW n \in Runs, runs[n].status # None, ~BeingLinked(n)
      PROVE  runs'[n].linked = runs[n].linked
  BY <1>2, RowMoves DEF BeingLinked, At
<1>3. ASSUME NEW n \in Runs, runs[n].status # None, BeingLinked(n)'
      PROVE  BeingLinked(n)
  <2>1. PICK o \in Requests : req'[o].pc = "linkRecords" /\ req'[o].run = n /\ req'[o].seen # {}
    BY <1>3 DEF BeingLinked, At
  <2>2. CASE o # q
    BY <1>0, <2>1, <2>2 DEF BeingLinked, At
  <2>3. CASE o = q
    <3>1. ASSUME NEW m \in Runs, InsertRun(q, m) PROVE FALSE
      <4>1. req'[q].run = m /\ runs[m].status = None
        BY <1>0, <3>1 DEF InsertRun, Request
      <4>2. QED
        BY <1>3, <2>1, <2>3, <4>1
    <3>2. CASE LinkRecord(q)
      <4>1. At(q, "linkRecords") /\ req[q].seen # {} /\ req'[q].run = req[q].run
        BY <1>0, <3>2 DEF LinkRecord, Request
      <4>2. QED
        BY <2>1, <2>3, <4>1 DEF BeingLinked
    <3>3. CASE ReadReviews(q) \/ ReadLinks(q)
      BY <1>0, <2>1, <2>3, <3>3 DEF ReadReviews, ReadLinks, Goto, Return, Idle, Request
    <3>4. QED
      BY <2>1, <2>3, <3>1, <3>2, <3>3, Moves DEF Knowing
  <2>4. QED
    BY <2>2, <2>3
<1>4. QED
  BY <1>1, <1>2, <1>3 DEF Steady

(* Haste is never forgotten. *)
LEMMA HasteStays ==
  ASSUME Shape, NEW q \in Requests, Serves(q)
  PROVE  hasty \subseteq hasty' /\ hasty' \subseteq Runs
<1>1. CASE ReadReviews(q)
  <2>1. req[q].run \in Runs
    BY <1>1 DEF Shape, TypeOK, RunsTypeOK, WellFormed, OnRun, Steps, ReadReviews, At, Request
  <2>2. QED
    BY <1>1, <2>1 DEF Shape, TypeOK, RunsTypeOK, ReadReviews
<1>2. CASE UNCHANGED hasty
  BY <1>2 DEF Shape, TypeOK, RunsTypeOK
<1>3. QED
  BY <1>1, <1>2
  DEF Serves, Create, Review, Approve, Export, CreateRunRequest, ListRecords, InsertRun,
      LinkRecord, Created, ApproveRecordRequest, MarkReviewed, PromoteRecord,
      ApproveRunRequest, FinalizeRequest, CountDiscrepancies, ApproveRun, SettleRecords,
      ExportRequest, ReadLinks, StoreArtifact, ReadArtifact, ReceiveReply, Fail

(* What is firm of a run that exists stays so. *)
LEMMA FirmStays ==
  ASSUME Steady, hasty \subseteq hasty', NEW n \in Runs, runs[n].status # None, Firm(n)
  PROVE  Firm(n)'
BY DEF Steady, Firm, AllReviewed

LEMMA ServesForward ==
  ASSUME Shape, NEW q \in Requests, Serves(q)
  PROVE  /\ Forward
         /\ \A n \in Runs : runs'[n].status = "Approved" =>
              runs[n].status = "Approved" \/ (At(q, "approveRun") /\ req[q].run = n)
<1>0. /\ runs \in [Runs -> RunRow] /\ req \in [Requests -> Request]
      /\ artifact \in [Runs -> (SUBSET Records) \cup {None}]
      /\ \A o \in Requests : WellFormed(req[o])
  BY DEF Shape, TypeOK, RunsTypeOK
<1>1. ASSUME NEW n \in Runs
      PROVE  /\ runs[n].status # None => runs'[n].status # None
             /\ runs[n].status = "Approved" => runs'[n].status = "Approved"
             /\ runs'[n].status = "Approved" =>
                  runs[n].status = "Approved" \/ (At(q, "approveRun") /\ req[q].run = n)
  BY RowMoves, NoneAssumption
<1>2. ASSUME NEW n \in Runs, artifact[n] # None PROVE artifact'[n] = artifact[n]
  <2>1. CASE StoreArtifact(q)
    BY <1>0, <1>2, <2>1 DEF StoreArtifact
  <2>2. CASE UNCHANGED artifact
    BY <2>2
  <2>3. QED
    BY <2>1, <2>2
    DEF Serves, Create, Review, Approve, Export, CreateRunRequest, ListRecords, InsertRun,
        LinkRecord, Created, ApproveRecordRequest, MarkReviewed, PromoteRecord,
        ApproveRunRequest, FinalizeRequest, CountDiscrepancies, ReadReviews, ApproveRun,
        SettleRecords, ExportRequest, ReadLinks, ReadArtifact, ReceiveReply, Fail
<1>3. QED
  BY <1>1, <1>2 DEF Forward

(* What a request knows still holds when it writes. *)
LEMMA KnowledgeLasts ==
  ASSUME Shape, Closed, NEW q \in Requests, Serves(q), NEW o \in Requests
  PROVE  Knows(req[o])'
<1>0. /\ runs \in [Runs -> RunRow] /\ req \in [Requests -> Request]
      /\ WellFormed(req[o]) /\ Steady /\ hasty \subseteq hasty'
  BY ServesSteadily, HasteStays DEF Shape, TypeOK, RunsTypeOK
<1>1. CASE req'[o] = req[o]
  <2>1. CASE req[o].pc = "approveRun"
    <3>1. PICK n \in Runs : n = req[o].run
      BY <1>0, <2>1 DEF WellFormed, OnRun, Steps, Request
    <3>2. runs[n].status # None /\ Firm(n)
      BY <1>0, <2>1, <3>1 DEF WellFormed, OnRun, Steps, Closed, Knows
    <3>3. Firm(n)'
      BY <1>0, <3>2, FirmStays
    <3>4. req'[o].run = n /\ req'[o].pc = "approveRun"
      BY <1>1, <2>1, <3>1
    <3>5. QED
      BY <3>3, <3>4 DEF Knows, Firm, AllReviewed, BeingLinked, At
  <2>2. CASE req[o].pc = "storeArtifact"
    <3>1. PICK n \in Runs : n = req[o].run
      BY <1>0, <2>2 DEF WellFormed, OnRun, Steps, Request
    <3>2. runs[n].status = "Approved" /\ runs[n].status # None
      BY <1>0, <2>2, <3>1 DEF WellFormed, Exporting, OnRun, Steps
    <3>3. req[o].seen \subseteq runs[n].linked /\ (n \in hasty \/ req[o].seen = runs[n].linked)
      BY <2>2, <3>1 DEF Closed, Knows
    <3>4. n \notin hasty => ~BeingLinked(n)
      BY <3>2 DEF Closed, ApprovedAsReviewed
    <3>5. req[o].seen \subseteq runs'[n].linked /\ (n \in hasty' \/ req[o].seen = runs'[n].linked)
      BY <1>0, <3>2, <3>3, <3>4 DEF Steady
    <3>6. QED
      BY <1>1, <2>2, <3>1, <3>5 DEF Knows
  <2>3. CASE req[o].pc \notin {"approveRun", "storeArtifact"}
    BY <1>1, <2>3 DEF Knows
  <2>4. QED
    BY <2>1, <2>2, <2>3
<1>2. CASE o = q
  <2>1. CASE ReadReviews(q)
    <3>1. PICK n \in Runs : n = req[q].run
      BY <1>0, <1>2, <2>1 DEF ReadReviews, At, WellFormed, OnRun, Steps, Request
    <3>2. CASE Return(q)
      BY <1>0, <1>2, <3>2 DEF Return, Idle, Knows
    <3>3. CASE /\ Goto(q, "approveRun") /\ AllReviewed(n)
               /\ hasty' = IF BeingLinked(n) THEN hasty \cup {n} ELSE hasty
      <4>1. req'[q].pc = "approveRun" /\ req'[q].run = n /\ runs' = runs
        BY <1>0, <2>1, <3>1, <3>3 DEF Goto, Request, ReadReviews
      <4>2. n \notin hasty' => ~BeingLinked(n)
        BY <3>3
      <4>3. \A p \in Requests : req'[p].pc = "linkRecords" => req'[p] = req[p]
        BY <1>0, <3>3, <4>1 DEF Goto
      <4>4. n \notin hasty' => ~BeingLinked(n)'
        BY <4>2, <4>3 DEF BeingLinked, At
      <4>5. AllReviewed(n)'
        BY <3>3, <4>1 DEF AllReviewed
      <4>6. Firm(n)'
        BY <4>4, <4>5 DEF Firm
      <4>7. QED
        BY <1>2, <4>1, <4>6 DEF Knows, Firm, AllReviewed, BeingLinked, At
    <3>4. QED
      BY <2>1, <3>1, <3>2, <3>3 DEF ReadReviews
  <2>2. CASE ReadLinks(q)
    <3>1. /\ req'[q].pc = "storeArtifact" /\ req'[q].run = req[q].run /\ runs' = runs
          /\ req'[q].seen = runs[req[q].run].linked
      BY <1>0, <2>2 DEF ReadLinks, Request
    <3>2. QED
      BY <1>2, <3>1 DEF Knows
  <2>3. CASE LinkRecord(q) \/ \E n \in Runs : InsertRun(q, n)
    <3>1. ASSUME NEW n \in Runs, InsertRun(q, n) PROVE req'[q].pc = "linkRecords"
      <4>1. req' = [req EXCEPT ![q] = [req[q] EXCEPT !.run = n, !.pc = "linkRecords"]]
        BY <1>0, <3>1 DEF InsertRun
      <4>2. req'[q] = [req[q] EXCEPT !.run = n, !.pc = "linkRecords"]
        BY <1>0, <4>1
      <4>3. req[q] \in Request
        BY <1>0
      <4>4. QED
        BY <4>2, <4>3 DEF Request
    <3>2. ASSUME LinkRecord(q) PROVE req'[q].pc = "linkRecords"
      <4>1. PICK r \in req[q].seen : req' = [req EXCEPT ![q].seen = @ \ {r}]
        BY <3>2 DEF LinkRecord
      <4>2. req[q].pc = "linkRecords"
        BY <3>2 DEF LinkRecord, At
      <4>3. req[q] \in Request
        BY <1>0
      <4>4. QED
        BY <1>0, <4>1, <4>2, <4>3 DEF Request
    <3>3. req'[q].pc = "linkRecords"
      BY <2>3, <3>1, <3>2
    <3>4. QED
      BY <1>2, <3>3 DEF Knows
  <2>4. CASE req'[q].pc \notin Knowing
    BY <1>2, <2>4 DEF Knows, Knowing
  <2>5. QED
    BY <2>1, <2>2, <2>3, <2>4, Moves
<1>3. QED
  BY <1>1, <1>2, Moves

(* The records that become Approved are those of a run that is.             *)
LEMMA ApprovedBySettling ==
  ASSUME Shape, NEW q \in Requests, Serves(q), NEW r \in Records, recs'[r].status = "Approved"
  PROVE  \/ recs[r].status = "Approved"
         \/ /\ req[q].run \in Runs /\ runs[req[q].run].status = "Approved"
            /\ r \in runs[req[q].run].linked
<1>0. recs \in [Records -> RecordRow] /\ req[q] \in Request /\ WellFormed(req[q])
  BY DEF Shape, TypeOK, RunsTypeOK, RecordsTypeOK
<1>1. CASE PromoteRecord(q)
  BY <1>0, <1>1 DEF PromoteRecord, PromoteIfAccrued, Advance, RecordRow
<1>2. CASE SettleRecords(q)
  <2>1. req[q].run \in Runs /\ runs[req[q].run].status = "Approved"
    BY <1>0, <1>2 DEF SettleRecords, At, Request, WellFormed, OnRun, Exporting, Steps
  <2>2. recs[r].status = "Approved" \/ r \in runs[req[q].run].linked
    BY <1>0, <1>2 DEF SettleRecords, ApprovePending, Advance, RecordRow
  <2>3. QED
    BY <2>1, <2>2
<1>3. CASE UNCHANGED recs
  BY <1>3
<1>4. QED
  BY <1>1, <1>2, <1>3
  DEF Serves, Create, Review, Approve, Export, CreateRunRequest, ListRecords, InsertRun,
      LinkRecord, Created, ApproveRecordRequest, MarkReviewed, ApproveRunRequest,
      FinalizeRequest, CountDiscrepancies, ReadReviews, ApproveRun, ExportRequest, ReadLinks,
      StoreArtifact, ReadArtifact, ReceiveReply, Fail

LEMMA ServesClosed ==
  ASSUME Shape, Closed, NEW q \in Requests, Serves(q)
  PROVE  Closed'
<1>0. /\ Steady /\ Forward /\ hasty \subseteq hasty'
      /\ \A o \in Requests : req[o] \in Request /\ WellFormed(req[o])
      /\ artifact \in [Runs -> (SUBSET Records) \cup {None}]
  BY ServesSteadily, ServesForward, HasteStays DEF Shape, TypeOK, RunsTypeOK
<1> USE NoneAssumption
<1>1. ASSUME NEW n \in Runs, runs'[n].status = "Approved" PROVE Firm(n)'
  <2>1. runs[n].status # None /\ Firm(n)
    <3>1. CASE runs[n].status = "Approved"
      BY <3>1 DEF Closed, ApprovedAsReviewed, Firm
    <3>2. CASE At(q, "approveRun") /\ req[q].run = n
      BY <1>0, <3>2 DEF Closed, Knows, At, WellFormed, OnRun, Steps
    <3>3. QED
      BY <1>1, <3>1, <3>2, ServesForward
  <2>2. QED
    BY <1>0, <2>1, FirmStays
<1>2. ApprovedAsReviewed'
  BY <1>1 DEF ApprovedAsReviewed, Firm
<1>3. ApprovedRecordBacked'
  <2>1. SUFFICES ASSUME NEW r \in Records, recs'[r].status = "Approved"
                 PROVE  \E n \in Runs : /\ runs'[n].status = "Approved"
                                        /\ r \in runs'[n].linked
                                        /\ r \in runs'[n].reviewed \/ n \in hasty'
    BY DEF ApprovedRecordBacked
  <2>2. PICK n \in Runs : /\ runs[n].status = "Approved" /\ r \in runs[n].linked
                          /\ r \in runs[n].reviewed \/ n \in hasty
    <3>1. CASE recs[r].status = "Approved"
      BY <3>1 DEF Closed, ApprovedRecordBacked
    <3>2. CASE /\ req[q].run \in Runs /\ runs[req[q].run].status = "Approved"
               /\ r \in runs[req[q].run].linked
      BY <3>2 DEF Closed, ApprovedAsReviewed, AllReviewed
    <3>3. QED
      BY <2>1, <3>1, <3>2, ApprovedBySettling
  <2>3. QED
    BY <1>0, <2>2 DEF Steady, Forward
<1>4. ExportedWhole'
  <2>1. SUFFICES ASSUME NEW n \in Runs, artifact'[n] # None
                 PROVE  /\ runs'[n].status = "Approved" /\ artifact'[n] \subseteq runs'[n].linked
                        /\ n \in hasty' \/ artifact'[n] = runs'[n].linked
    BY DEF ExportedWhole
  <2>2. /\ runs[n].status = "Approved" /\ artifact'[n] \subseteq runs[n].linked
        /\ n \in hasty \/ artifact'[n] = runs[n].linked
    <3>1. CASE artifact[n] # None
      BY <1>0, <3>1 DEF Closed, ExportedWhole, Forward
    <3>2. CASE artifact[n] = None
      <4>1. StoreArtifact(q)
        BY <2>1, <3>2
        DEF Serves, Create, Review, Approve, Export, CreateRunRequest, ListRecords, InsertRun,
            LinkRecord, Created, ApproveRecordRequest, MarkReviewed, PromoteRecord,
            ApproveRunRequest, FinalizeRequest, CountDiscrepancies, ReadReviews, ApproveRun,
            SettleRecords, ExportRequest, ReadLinks, ReadArtifact, ReceiveReply, Fail
      <4>2. At(q, "storeArtifact") /\ req[q].run = n /\ artifact'[n] = req[q].seen
        BY <1>0, <2>1, <3>2, <4>1 DEF StoreArtifact
      <4>3. QED
        BY <1>0, <4>2 DEF Closed, Knows, At, WellFormed, Exporting, OnRun, Steps
    <3>3. QED
      BY <3>1, <3>2
  <2>3. n \notin hasty => ~BeingLinked(n)
    BY <2>2 DEF Closed, ApprovedAsReviewed
  <2>4. QED
    BY <1>0, <2>2, <2>3 DEF Steady, Forward
<1>5. \A o \in Requests : Knows(req[o])'
  BY KnowledgeLasts
<1>6. QED
  BY <1>2, <1>3, <1>4, <1>5 DEF Closed

LEMMA NextClosed ==
  ASSUME Shape, Closed, [Next]_vars
  PROVE  Closed'
<1>1. ASSUME NEW q \in Requests, Serves(q) PROVE Closed'
  BY <1>1, ServesClosed
<1>2. CASE HoldSide
  <2>1. UNCHANGED <<runs, artifact, discrepant, req, hasty>> /\ recs \in [Records -> RecordRow]
    BY <1>2 DEF HoldSide, runVars, Shape, TypeOK, RecordsTypeOK
  <2>2. \A r \in Records : recs'[r].status = "Approved" => recs[r].status = "Approved"
    <3>1. ASSUME NEW r \in Records, Calculate(r)
          PROVE  \A o \in Records : recs'[o].status = "Approved" => recs[o].status = "Approved"
      BY <2>1, <3>1 DEF Calculate, createCommissionRecord, RecordRow
    <3>2. ASSUME NEW S, NEW st \in {"Payable", "ClawbackInitiated"}, NEW h,
                 recs' = SetStatus(S, st, h)
          PROVE  \A o \in Records : recs'[o].status = "Approved" => recs[o].status = "Approved"
      BY <2>1, <3>2 DEF SetStatus, RecordRow
    <3>3. QED
      BY <1>2, <3>1, <3>2
      DEF HoldSide, releaseCollectionGate, releaseHeldCommissionRecordsForPlacement,
          holdCommissionRecordsForClawback
  <2>3. QED
    BY <2>1, <2>2 DEF Closed, Knows, Firm, ApprovedAsReviewed, ApprovedRecordBacked,
       ExportedWhole, AllReviewed, BeingLinked, At
<1>3. CASE Reconciliation \/ UNCHANGED vars
  BY <1>3 DEF Reconciliation, vars, Closed, Knows, Firm, ApprovedAsReviewed,
     ApprovedRecordBacked, ExportedWhole, AllReviewed, BeingLinked, At
<1>4. QED
  BY <1>1, <1>2, <1>3 DEF Next, RunsNext, Serves

(* What a request holds and what it knows, together. *)
RunsInv == Shape /\ Closed

LEMMA ClosedBeside ==
  ASSUME Closed, UNCHANGED <<recs, runs, artifact, req, hasty>>
  PROVE  Closed'
BY DEF Closed, Knows, Firm, ApprovedAsReviewed, ApprovedRecordBacked, ExportedWhole,
   AllReviewed, BeingLinked, At

-----------------------------------------------------------------------------
(* The theorems. *)

(* Every table and every waiting request has its type, however the requests *)
(* interleave or fail.                                                      *)
THEOREM TypeCorrect == Spec => []TypeOK
<1>1. Init => Shape
  BY InitShape
<1>2. Shape /\ [Next]_vars => Shape'
  BY NextShape
<1>3. Shape => TypeOK
  BY DEF Shape
<1>4. QED
  BY <1>1, <1>2, <1>3, PTL DEF Spec

(* Every answered export request holds the stored artifact of its run       *)
(* (createOrGetPayrollExport), also when the run was still being created.   *)
THEOREM RepliesAgree == Spec => []ReplyIsArtifact
<1>1. Init => Shape
  BY InitShape
<1>2. Shape /\ [Next]_vars => Shape'
  BY NextShape
<1>3. Shape => ReplyIsArtifact
  BY DEF Shape, WellFormed, ReplyIsArtifact, At
<1>4. QED
  BY <1>1, <1>2, <1>3, PTL DEF Spec

LEMMA ArtifactStep ==
  ASSUME Shape, [Next]_vars, NEW n \in Runs, artifact[n] # None
  PROVE  artifact'[n] = artifact[n]
<1>1. ASSUME NEW q \in Requests, StoreArtifact(q) PROVE artifact'[n] = artifact[n]
  BY <1>1 DEF StoreArtifact, Shape, TypeOK, RunsTypeOK
<1>2. ASSUME UNCHANGED artifact PROVE artifact'[n] = artifact[n]
  BY <1>2
<1>3. QED
  BY <1>1, <1>2
  DEF Next, RunsNext, Create, Review, Approve, Export, HoldSide, Reconciliation, vars,
      runVars, CreateRunRequest, ListRecords, InsertRun, LinkRecord, Created,
      ApproveRecordRequest, MarkReviewed, PromoteRecord, ApproveRunRequest,
      FinalizeRequest, CountDiscrepancies, ReadReviews, ApproveRun, SettleRecords,
      ExportRequest, ReadLinks, ReadArtifact, ReceiveReply, Fail

(* No statement of a run looks at a record that a clawback has taken.       *)
LEMMA ClawbackStep ==
  ASSUME Shape, [Next]_vars, NEW r \in Records, recs[r].status = "ClawbackInitiated"
  PROVE  recs'[r].status = "ClawbackInitiated"
<1>1. recs \in [Records -> RecordRow]
  BY DEF Shape, TypeOK, RecordsTypeOK
<1>2. ASSUME NEW S, NEW status, \A s \in S : recs[s].status # "ClawbackInitiated"
      PROVE  Advance(S, status)[r] = recs[r]
  BY <1>2 DEF Advance
<1>3. ASSUME NEW S, NEW status, NEW hold, \A s \in S : recs[s].status # "ClawbackInitiated"
      PROVE  SetStatus(S, status, hold)[r] = recs[r]
  BY <1>3 DEF SetStatus
<1>4. ASSUME NEW q \in Requests, PromoteRecord(q) \/ SettleRecords(q)
      PROVE  recs'[r] = recs[r]
  BY <1>2, <1>4 DEF PromoteRecord, SettleRecords, PromoteIfAccrued, ApprovePending
<1>5. ASSUME HoldSide PROVE recs'[r].status = "ClawbackInitiated"
  <2>1. ASSUME NEW s \in Records, Calculate(s) PROVE recs'[r] = recs[r]
    BY <1>1, <2>1 DEF Calculate, createCommissionRecord, Exists
  <2>2. ASSUME NEW p, recs' = holdCommissionRecordsForClawback(p)
        PROVE  recs'[r] = recs[r]
    BY <1>3, <2>2 DEF holdCommissionRecordsForClawback, ClawbackReach
  <2>3. ASSUME NEW p, \/ recs' = releaseCollectionGate(p)
                     \/ recs' = releaseHeldCommissionRecordsForPlacement(p)
        PROVE  recs'[r] = recs[r]
    <3>1. \A hold : \A s \in HeldFor(RecordsOf(p), hold) :
                      recs[s].status # "ClawbackInitiated"
      BY DEF HeldFor
    <3>2. QED
      BY <1>3, <2>3, <3>1
      DEF releaseCollectionGate, releaseHeldCommissionRecordsForPlacement
  <2>4. QED
    BY <1>5, <2>1, <2>2, <2>3 DEF HoldSide
<1>6. ASSUME UNCHANGED recs PROVE recs'[r] = recs[r]
  BY <1>6
<1>7. QED
  BY <1>4, <1>5, <1>6
  DEF Next, RunsNext, Create, Review, Approve, Export, Reconciliation, vars,
      runVars, CreateRunRequest, ListRecords, InsertRun, LinkRecord, Created,
      ApproveRecordRequest, MarkReviewed, ApproveRunRequest,
      FinalizeRequest, CountDiscrepancies, ReadReviews, ApproveRun, StoreArtifact,
      ExportRequest, ReadLinks, ReadArtifact, ReceiveReply, Fail

(* A payroll artifact, once stored, is never changed, and no approval takes *)
(* a record back from a clawback (createOrGetPayrollExport,                 *)
(* approveRunRecord, approveCommissionRun).                                 *)
THEOREM NothingIsUndone == Spec => Irrevocable
<1>1. Init => Shape
  BY InitShape
<1>2. Shape /\ [Next]_vars => Shape'
  BY NextShape
<1>3. Shape /\ [Next]_vars =>
        [/\ \A n \in Runs : artifact[n] # None => artifact'[n] = artifact[n]
         /\ \A r \in Records : recs[r].status = "ClawbackInitiated" =>
                                recs'[r].status = "ClawbackInitiated"]_vars
  BY ArtifactStep, ClawbackStep
<1>4. QED
  BY <1>1, <1>2, <1>3, PTL DEF Spec, Irrevocable

LEMMA InitClosed == Init => Closed
BY NoneAssumption
DEF Init, RecordsInit, RunsInit, Idle, Closed, Knows, ApprovedAsReviewed,
    ApprovedRecordBacked, ExportedWhole

LEMMA RunsInvariance == Spec => []RunsInv
<1>1. Init => RunsInv
  BY InitShape, InitClosed DEF RunsInv
<1>2. RunsInv /\ [Next]_vars => RunsInv'
  BY NextShape, NextClosed DEF RunsInv
<1>3. QED
  BY <1>1, <1>2, PTL DEF Spec

(* No run is approved with a record that nobody approved in it, unless an   *)
(* approver was faster than the run's creation, and no record is Approved   *)
(* that an Approved run does not hold (handleApproveCommissionRun).         *)
THEOREM ApprovalIsSound == Spec => []ApprovalSound
<1>1. RunsInv => ApprovalSound
  BY DEF RunsInv, Closed, ApprovalSound
<1>2. QED
  BY <1>1, RunsInvariance, PTL

(* What went to payroll for a run is the run as it was approved, with the   *)
(* same exception, and all who ask for it get that file                     *)
(* (handleCreatePayrollExport).                                             *)
THEOREM ExportIsSound == Spec => []ExportSound
<1>1. RunsInv => ExportSound
  BY DEF RunsInv, Shape, WellFormed, Closed, ExportSound, ReplyIsArtifact, At
<1>2. QED
  BY <1>1, RunsInvariance, PTL

-----------------------------------------------------------------------------
(* The reconciliation of the month.  Of a report that runs alone all that   *)
(* it has not inserted yet is still to do; a report that knows of another   *)
(* promises nothing.                                                        *)

Present == {d.finding : d \in rows}

Missing(x) == Differences(x.ledger, x.ar) \ Present

(* IsReport speaks of the fields only. *)
Formed(x) == /\ x = [pc |-> x.pc, alone |-> x.alone, ledger |-> x.ledger, ar |-> x.ar,
                     todo |-> x.todo]
             /\ IsReport(x)

RowsTyped ==
  /\ IsTable(ledger) /\ IsTable(ar)
  /\ rows \subseteq Row
  /\ \A d, e \in rows : d.id = e.id => d = e
  /\ DOMAIN report = Reports /\ \A g \in Reports : Formed(report[g])
  /\ visit \in [Visits -> Visit]
  /\ \E scene \in Scenes : desk = scene.operations
  /\ compared.known \in BOOLEAN
  /\ IsTable(compared.ledger) /\ IsTable(compared.ar)
  /\ noted \subseteq Findings

Alone ==
  \A g, h \in Reports : report[g].pc # "idle" /\ report[g].alone /\ h # g =>
    report[h].pc = "idle"

Inserting ==
  \A g \in Reports : report[g].pc = "insert" /\ report[g].alone =>
    Missing(report[g]) \subseteq report[g].todo

(* What was acknowledged, or is being, was acknowledged for its finding. *)
Noting ==
  /\ \A d \in rows : d.acknowledged => d.finding \in noted
  /\ \A v \in Visits, d \in rows :
       visit[v].pc = "update" /\ d.id = visit[v].id => d.finding \in noted

MonthInv ==
  /\ RowsTyped /\ Alone /\ Inserting /\ Noting
  /\ compared.known => Missing(compared) = {}
  /\ discrepant = Blocked(rows)

LEMMA DifferencesTyped ==
  ASSUME NEW L, NEW A, IsTable(L), IsTable(A)
  PROVE  Differences(L, A) \subseteq Findings
BY DEF Differences, Findings, Kinds, IsTable

LEMMA WithTyped ==
  ASSUME NEW t, IsTable(t), NEW n \in Numbers, NEW entry \in Entry
  PROVE  IsTable(With(t, n, entry))
BY DEF IsTable, With

LEMMA OfPeriodTyped ==
  ASSUME NEW t, IsTable(t) PROVE IsTable(OfPeriod(t))
BY DEF IsTable, OfPeriod

LEMMA NothingKnown ==
  /\ IsTable(NoEntries) /\ Formed(NoReport) /\ NoVisit \in Visit
  /\ ~Unknown.known /\ Unknown.known \in BOOLEAN /\ IsTable(Unknown.ledger) /\ IsTable(Unknown.ar)
<1>1. IsTable(NoEntries)
  BY DEF IsTable, NoEntries
<1>2. QED
  BY <1>1 DEF Formed, IsReport, NoReport, NoVisit, Visit, Unknown

LEMMA ReconStart ==
  ASSUME NEW scene \in Scenes, ReconInit(scene), discrepant = {}
  PROVE  MonthInv
<1>1. RowsTyped
  BY NothingKnown, ScenesAssumption DEF ReconInit, RowsTyped
<1>2. Alone /\ Inserting
  BY DEF ReconInit, Alone, Inserting, NoReport
<1>3. Noting /\ Blocked(rows) = {}
  BY DEF ReconInit, Noting, Blocked
<1>4. ~compared.known
  BY NothingKnown DEF ReconInit
<1>5. QED
  BY <1>1, <1>2, <1>3, <1>4 DEF MonthInv

(* A report takes its next step: the others keep theirs, but may learn that *)
(* they are not alone.                                                      *)
LEMMA ReportSteps ==
  ASSUME MonthInv, NEW g \in Reports, NEW next, Formed(next),
         report' = [report EXCEPT ![g] = next],
         report[g].pc # "idle", next.pc = "idle" \/ next.alone = report[g].alone
  PROVE  /\ DOMAIN report' = Reports /\ \A h \in Reports : Formed(report'[h])
         /\ Alone'
         /\ report'[g] = next /\ \A h \in Reports \ {g} : report'[h] = report[h]
<1>1. DOMAIN report = Reports /\ \A h \in Reports : Formed(report[h])
  BY DEF MonthInv, RowsTyped
<1>2. report'[g] = next /\ \A h \in Reports \ {g} : report'[h] = report[h]
  BY <1>1
<1>3. Alone'
  BY <1>2 DEF MonthInv, Alone
<1>4. QED
  BY <1>1, <1>2, <1>3

LEMMA TablesStep ==
  ASSUME MonthInv, NEW n \in Numbers, NEW entry \in Entry,
         IssueInvoice(n, entry) \/ upsertArIngestedRecord(n, entry), discrepant' = Blocked(rows')
  PROVE  MonthInv'
<1>0. IsTable(ledger) /\ IsTable(ar)
  BY DEF MonthInv, RowsTyped
<1>1. IsTable(ledger') /\ IsTable(ar')
  <2>1. CASE IssueInvoice(n, entry)
    <3>1. PICK issued : issued = IF n \in DOMAIN ledger
                                   THEN [ledger[n] EXCEPT !.amount = entry.amount] ELSE entry
      OBVIOUS
    <3>2. issued \in Entry
      BY <1>0, <3>1 DEF IsTable, Entry
    <3>3. ledger' = With(ledger, n, issued) /\ ar' = ar
      BY <2>1, <3>1 DEF IssueInvoice
    <3>4. QED
      BY <1>0, <3>2, <3>3, WithTyped
  <2>2. CASE upsertArIngestedRecord(n, entry)
    BY <1>0, <2>2, WithTyped DEF upsertArIngestedRecord
  <2>3. QED
    BY <2>1, <2>2
<1>2. UNCHANGED <<rows, report, visit, desk, compared, noted>>
  BY DEF IssueInvoice, upsertArIngestedRecord
<1>3. RowsTyped' /\ Alone' /\ Inserting' /\ Noting'
  BY <1>1, <1>2 DEF MonthInv, RowsTyped, Alone, Inserting, Noting, Missing, Present
<1>4. QED
  BY <1>2, <1>3 DEF MonthInv, Missing, Present

LEMMA ReadLedgerStep ==
  ASSUME MonthInv, NEW g \in Reports, ReadLedger(g), discrepant' = Blocked(rows')
  PROVE  MonthInv'
<1>1. PICK alone \in BOOLEAN : alone = \A h \in Reports : report[h].pc = "idle"
  OBVIOUS
<1>2. PICK first : first = [NoReport EXCEPT !.pc = "readAr", !.alone = alone, !.ledger = OfPeriod(ledger)]
  OBVIOUS
<1>3. /\ report' = [h \in Reports |-> IF h = g THEN first
                      ELSE IF report[h].pc = "idle" THEN report[h]
                      ELSE [report[h] EXCEPT !.alone = FALSE]]
      /\ report[g].pc = "idle" /\ UNCHANGED <<reconTables, visit, desk, compared, noted>>
  BY <1>1, <1>2 DEF ReadLedger
<1>4. Formed(first) /\ first.pc = "readAr" /\ first.alone = alone
  <2>1. IsTable(OfPeriod(ledger))
    BY OfPeriodTyped DEF MonthInv, RowsTyped
  <2>2. first = [pc |-> "readAr", alone |-> alone, ledger |-> OfPeriod(ledger), ar |-> NoEntries,
                 todo |-> {}]
    BY <1>2 DEF NoReport
  <2>3. QED
    BY <2>1, <2>2, NothingKnown DEF Formed, IsReport
<1>5. ASSUME NEW h \in Reports
      PROVE  Formed(report'[h]) /\ (h # g => report'[h].pc = report[h].pc /\ report'[h].todo = report[h].todo
             /\ (report'[h].pc # "idle" => ~report'[h].alone))
  <2>1. CASE h = g
    BY <1>3, <1>4, <2>1
  <2>2. CASE h # g /\ report[h].pc = "idle"
    BY <1>3, <2>2 DEF MonthInv, RowsTyped
  <2>3. CASE h # g /\ report[h].pc # "idle"
    <3>1. PICK other : other = [report[h] EXCEPT !.alone = FALSE]
      OBVIOUS
    <3>2. Formed(report[h]) /\ report'[h] = other
      BY <1>3, <2>3, <3>1 DEF MonthInv, RowsTyped
    <3>3. other = [pc |-> report[h].pc, alone |-> FALSE, ledger |-> report[h].ledger,
                   ar |-> report[h].ar, todo |-> report[h].todo]
      BY <3>1, <3>2 DEF Formed
    <3>4. Formed(other) /\ other.pc = report[h].pc /\ ~other.alone /\ other.todo = report[h].todo
      BY <3>2, <3>3 DEF Formed, IsReport
    <3>5. QED
      BY <2>3, <3>2, <3>4
  <2>4. QED
    BY <2>1, <2>2, <2>3
<1>6. report'[g] = first /\ DOMAIN report' = Reports
  BY <1>3
<1>7. RowsTyped'
  BY <1>3, <1>5, <1>6 DEF MonthInv, RowsTyped, reconTables
<1>8. Alone'
  BY <1>1, <1>4, <1>5, <1>6 DEF Alone
<1>9. Inserting'
  BY <1>4, <1>5, <1>6 DEF Inserting
<1>10. Noting' /\ rows' = rows /\ compared' = compared
  BY <1>3 DEF MonthInv, Noting, reconTables
<1>11. QED
  BY <1>7, <1>8, <1>9, <1>10 DEF MonthInv, Missing, Present

LEMMA ReadArStep ==
  ASSUME MonthInv, NEW g \in Reports, ReadAr(g), discrepant' = Blocked(rows')
  PROVE  MonthInv'
<1>1. PICK next : next = [report[g] EXCEPT !.ar = OfPeriod(ar), !.pc = "clear"]
  OBVIOUS
<1>2. /\ report' = [report EXCEPT ![g] = next] /\ report[g].pc = "readAr"
      /\ UNCHANGED <<reconTables, visit, desk, compared, noted>>
  BY <1>1 DEF ReadAr
<1>3. Formed(report[g]) /\ IsTable(OfPeriod(ar))
  BY OfPeriodTyped DEF MonthInv, RowsTyped
<1>4. next = [pc |-> "clear", alone |-> report[g].alone, ledger |-> report[g].ledger,
              ar |-> OfPeriod(ar), todo |-> report[g].todo]
  BY <1>1, <1>3 DEF Formed
<1>5. Formed(next) /\ next.pc = "clear" /\ next.alone = report[g].alone
  BY <1>3, <1>4 DEF Formed, IsReport
<1>6. /\ DOMAIN report' = Reports /\ \A h \in Reports : Formed(report'[h])
      /\ Alone'
      /\ report'[g] = next /\ \A h \in Reports \ {g} : report'[h] = report[h]
  BY <1>2, <1>5, ReportSteps
<1>7. RowsTyped'
  BY <1>2, <1>6 DEF MonthInv, RowsTyped, reconTables
<1>8. Inserting' /\ Noting' /\ rows' = rows /\ compared' = compared
  BY <1>2, <1>5, <1>6 DEF MonthInv, Inserting, Noting, Missing, Present, reconTables
<1>9. QED
  BY <1>6, <1>7, <1>8 DEF MonthInv, Missing, Present

LEMMA ClearStep ==
  ASSUME MonthInv, NEW g \in Reports, ClearUnacknowledged(g), discrepant' = Blocked(rows')
  PROVE  MonthInv'
<1>1. PICK todo : todo = Differences(report[g].ledger, report[g].ar)
  OBVIOUS
<1>2. PICK next : next = [report[g] EXCEPT !.pc = "insert", !.todo = todo]
  OBVIOUS
<1>3. /\ report' = [report EXCEPT ![g] = next] /\ report[g].pc = "clear"
      /\ rows' = {d \in rows : d.acknowledged} /\ compared' = Unknown
      /\ UNCHANGED <<ledger, ar, visit, desk, noted>>
  BY <1>1, <1>2 DEF ClearUnacknowledged, Compare
<1>4. Formed(report[g]) /\ todo \subseteq Findings
  BY <1>1, DifferencesTyped DEF MonthInv, RowsTyped, Formed, IsReport
<1>5. next = [pc |-> "insert", alone |-> report[g].alone, ledger |-> report[g].ledger,
              ar |-> report[g].ar, todo |-> todo]
  BY <1>2, <1>4 DEF Formed
<1>6. /\ Formed(next) /\ next.pc = "insert" /\ next.alone = report[g].alone
      /\ Differences(next.ledger, next.ar) = next.todo
  BY <1>1, <1>4, <1>5 DEF Formed, IsReport
<1>7. /\ DOMAIN report' = Reports /\ \A h \in Reports : Formed(report'[h])
      /\ Alone'
      /\ report'[g] = next /\ \A h \in Reports \ {g} : report'[h] = report[h]
  BY <1>3, <1>6, ReportSteps
<1>8. RowsTyped'
  BY <1>3, <1>7, NothingKnown DEF MonthInv, RowsTyped
<1>9. Inserting'
  <2>1. ASSUME NEW h \in Reports, report'[h].pc = "insert", report'[h].alone PROVE h = g
    BY <1>6, <1>7, <2>1 DEF Alone
  <2>2. Missing(next)' \subseteq next.todo
    BY <1>6 DEF Missing
  <2>3. QED
    BY <1>7, <2>1, <2>2 DEF Inserting, Missing
<1>10. Noting' /\ ~compared'.known
  BY <1>3, NothingKnown DEF MonthInv, Noting
<1>11. QED
  BY <1>7, <1>8, <1>9, <1>10 DEF MonthInv

LEMMA CreateStep ==
  ASSUME MonthInv, NEW g \in Reports, NEW id \in Rows, CreateDiscrepancy(g, id),
         discrepant' = Blocked(rows')
  PROVE  MonthInv'
<1>1. PICK f \in report[g].todo :
        /\ rows' = rows \cup {[id |-> id, finding |-> f, acknowledged |-> FALSE]}
        /\ report' = [report EXCEPT ![g].todo = @ \ {f}]
  BY DEF CreateDiscrepancy
<1>2. PICK next : next = [report[g] EXCEPT !.todo = @ \ {f}]
  OBVIOUS
<1>3. /\ report' = [report EXCEPT ![g] = next] /\ report[g].pc = "insert"
      /\ Unused(id) /\ UNCHANGED <<ledger, ar, visit, desk, compared, noted>>
  BY <1>1, <1>2 DEF CreateDiscrepancy
<1>4. Formed(report[g]) /\ f \in Findings
  BY DEF MonthInv, RowsTyped, Formed, IsReport
<1>5. next = [pc |-> "insert", alone |-> report[g].alone, ledger |-> report[g].ledger,
              ar |-> report[g].ar, todo |-> report[g].todo \ {f}]
  BY <1>2, <1>3, <1>4 DEF Formed
<1>6. /\ Formed(next) /\ next.pc = "insert" /\ next.alone = report[g].alone
      /\ next.ledger = report[g].ledger /\ next.ar = report[g].ar
      /\ next.todo = report[g].todo \ {f}
  BY <1>4, <1>5 DEF Formed, IsReport
<1>7. /\ DOMAIN report' = Reports /\ \A h \in Reports : Formed(report'[h])
      /\ Alone'
      /\ report'[g] = next /\ \A h \in Reports \ {g} : report'[h] = report[h]
  BY <1>3, <1>6, ReportSteps
<1>8. PICK new : new = [id |-> id, finding |-> f, acknowledged |-> FALSE]
  OBVIOUS
<1>9. /\ rows' = rows \cup {new} /\ new.id = id /\ new.finding = f /\ ~new.acknowledged
      /\ new \in Row
  BY <1>1, <1>4, <1>8 DEF Row
<1>10. RowsTyped'
  <2>1. \A d, e \in rows' : d.id = e.id => d = e
    BY <1>3, <1>9 DEF MonthInv, RowsTyped, Unused
  <2>2. rows' \subseteq Row
    BY <1>9 DEF MonthInv, RowsTyped
  <2>3. QED
    BY <1>3, <1>7, <2>1, <2>2 DEF MonthInv, RowsTyped
<1>11. Present' = Present \cup {f}
  BY <1>9 DEF Present
<1>12. Inserting' /\ (compared'.known => Missing(compared)' = {})
  BY <1>3, <1>6, <1>7, <1>11 DEF MonthInv, Inserting, Missing
<1>13. Noting'
  <2>1. \A v \in Visits, d \in rows' :
          visit[v].pc = "update" /\ d.id = visit[v].id => d.finding \in noted
    BY <1>3, <1>9 DEF MonthInv, Noting, Unused
  <2>2. QED
    BY <1>3, <1>9, <2>1 DEF MonthInv, Noting
<1>14. QED
  BY <1>7, <1>10, <1>12, <1>13 DEF MonthInv

LEMMA EndStep ==
  ASSUME MonthInv, NEW g \in Reports, ListDiscrepancies(g) \/ ReportFails(g),
         discrepant' = Blocked(rows')
  PROVE  MonthInv'
<1>1. /\ report' = [report EXCEPT ![g] = NoReport] /\ report[g].pc # "idle"
      /\ UNCHANGED <<reconTables, visit, desk, noted>>
  BY DEF ListDiscrepancies, ReportFails
<1>2. NoReport.pc = "idle" /\ Formed(NoReport)
  BY NothingKnown DEF NoReport
<1>3. /\ DOMAIN report' = Reports /\ \A h \in Reports : Formed(report'[h])
      /\ Alone'
      /\ report'[g] = NoReport /\ \A h \in Reports \ {g} : report'[h] = report[h]
  BY <1>1, <1>2, ReportSteps
<1>4. /\ IsTable(compared'.ledger) /\ IsTable(compared'.ar) /\ compared'.known \in BOOLEAN
      /\ compared'.known => Missing(compared)' = {}
  <2>1. CASE compared' = compared
    BY <1>1, <2>1 DEF MonthInv, RowsTyped, Missing, Present, reconTables
  <2>2. CASE compared' # compared
    <3>1. /\ report[g].pc = "insert" /\ report[g].todo = {} /\ report[g].alone
          /\ compared' = [known |-> TRUE, ledger |-> report[g].ledger, ar |-> report[g].ar]
      BY <2>2 DEF ListDiscrepancies, ReportFails
    <3>2. IsReport(report[g]) /\ Missing(report[g]) = {}
      BY <3>1 DEF MonthInv, RowsTyped, Formed, Inserting
    <3>3. compared'.ledger = report[g].ledger /\ compared'.ar = report[g].ar /\ compared'.known = TRUE
      BY <3>1
    <3>4. QED
      BY <1>1, <3>2, <3>3 DEF IsReport, Missing, Present, reconTables
  <2>3. QED
    BY <2>1, <2>2
<1>5. RowsTyped'
  BY <1>1, <1>3, <1>4 DEF MonthInv, RowsTyped, reconTables
<1>6. Inserting' /\ Noting'
  BY <1>1, <1>2, <1>3 DEF MonthInv, Inserting, Noting, Missing, Present, reconTables
<1>7. QED
  BY <1>3, <1>4, <1>5, <1>6 DEF MonthInv

LEMMA AskStep ==
  ASSUME MonthInv, NEW v \in Visits, NEW d \in rows, AcknowledgeRequest(v, d),
         discrepant' = Blocked(rows')
  PROVE  MonthInv'
<1>1. /\ visit' = [visit EXCEPT ![v] = [pc |-> "update", id |-> d.id]]
      /\ noted' = noted \cup {d.finding}
      /\ UNCHANGED <<reconTables, report, desk, compared>>
  BY DEF AcknowledgeRequest
<1>2. d \in Row /\ visit \in [Visits -> Visit] /\ noted \subseteq Findings
  BY DEF MonthInv, RowsTyped
<1>3. d.id \in Rows /\ d.finding \in Findings
  BY <1>2 DEF Row
<1>4. visit' \in [Visits -> Visit] /\ noted' \subseteq Findings
  BY <1>1, <1>2, <1>3 DEF Visit
<1>5. RowsTyped'
  BY <1>1, <1>4 DEF MonthInv, RowsTyped, reconTables
<1>6. Noting'
  <2>1. ASSUME NEW w \in Visits, NEW e \in rows, visit'[w].pc = "update", e.id = visit'[w].id
        PROVE  e.finding \in noted'
    <3>1. CASE w = v
      BY <1>1, <1>2, <2>1, <3>1 DEF MonthInv, RowsTyped
    <3>2. CASE w # v
      BY <1>1, <1>2, <2>1, <3>2 DEF MonthInv, Noting
    <3>3. QED
      BY <3>1, <3>2
  <2>2. QED
    BY <1>1, <2>1 DEF MonthInv, Noting, reconTables
<1>7. Alone' /\ Inserting' /\ (compared'.known => Missing(compared)' = {})
  BY <1>1 DEF MonthInv, Alone, Inserting, Missing, Present, reconTables
<1>8. QED
  BY <1>5, <1>6, <1>7 DEF MonthInv

(* Every row of the new table was there before, acknowledged or not. *)
LEMMA AcknowledgedRows ==
  ASSUME MonthInv, NEW v \in Visits, AcknowledgeDiscrepancy(v)
  PROVE  /\ visit[v].pc = "update" /\ rows' \subseteq Row
         /\ \A e \in rows' : \E d \in rows :
              /\ e.id = d.id /\ e.finding = d.finding
              /\ e = [id |-> d.id, finding |-> d.finding,
                       acknowledged |-> (d.acknowledged \/ d.id = visit[v].id)]
         /\ \A d \in rows : \E e \in rows' : e.finding = d.finding
         /\ \A d \in rows : d.acknowledged => d \in rows'
<1> DEFINE Marked(d) == [d EXCEPT !.acknowledged = d.acknowledged \/ d.id = visit[v].id]
<1>1. rows' = {Marked(d) : d \in rows} /\ visit[v].pc = "update" /\ rows \subseteq Row
  BY DEF AcknowledgeDiscrepancy, MonthInv, RowsTyped
<1>2. ASSUME NEW d \in rows
      PROVE  /\ Marked(d) \in Row /\ Marked(d).id = d.id /\ Marked(d).finding = d.finding
             /\ Marked(d) = [id |-> d.id, finding |-> d.finding,
                             acknowledged |-> (d.acknowledged \/ d.id = visit[v].id)]
             /\ d.acknowledged => Marked(d) = d
  <2>1. PICK flag \in BOOLEAN : flag <=> (d.acknowledged \/ d.id = visit[v].id)
    OBVIOUS
  <2>2. PICK e : e = [d EXCEPT !.acknowledged = flag]
    OBVIOUS
  <2>3. d \in Row /\ d = [id |-> d.id, finding |-> d.finding, acknowledged |-> d.acknowledged]
    BY <1>1 DEF Row
  <2>4. e = [id |-> d.id, finding |-> d.finding, acknowledged |-> flag]
    BY <2>2, <2>3
  <2>5. e \in Row /\ e.id = d.id /\ e.finding = d.finding
    BY <2>3, <2>4 DEF Row
  <2>6. ASSUME d.acknowledged PROVE e = d
    BY <2>1, <2>3, <2>4, <2>6 DEF Row
  <2>7. (d.acknowledged \/ d.id = visit[v].id) = flag
    BY <2>1
  <2>8. Marked(d) = e
    BY <2>2, <2>7
  <2>9. QED
    BY <2>4, <2>5, <2>6, <2>7, <2>8
<1> HIDE DEF Marked
<1>3. QED
  BY <1>1, <1>2

LEMMA AcknowledgeStep ==
  ASSUME MonthInv, NEW v \in Visits, AcknowledgeDiscrepancy(v), discrepant' = Blocked(rows')
  PROVE  MonthInv'
<1>1. /\ visit[v].pc = "update" /\ rows' \subseteq Row
      /\ \A e \in rows' : \E d \in rows :
           /\ e.id = d.id /\ e.finding = d.finding
           /\ e = [id |-> d.id, finding |-> d.finding,
                    acknowledged |-> (d.acknowledged \/ d.id = visit[v].id)]
      /\ \A d \in rows : \E e \in rows' : e.finding = d.finding
  BY AcknowledgedRows
<1>2. /\ visit' = [visit EXCEPT ![v] = NoVisit] /\ NoVisit \in Visit /\ NoVisit.pc = "idle"
      /\ UNCHANGED <<ledger, ar, report, desk, compared, noted>>
  BY NothingKnown DEF AcknowledgeDiscrepancy, NoVisit
<1>3. \A d, e \in rows' : d.id = e.id => d = e
  <2>1. SUFFICES ASSUME NEW d \in rows', NEW e \in rows', d.id = e.id PROVE d = e
    OBVIOUS
  <2>2. PICK d0 \in rows : /\ d.id = d0.id
                           /\ d = [id |-> d0.id, finding |-> d0.finding,
                                   acknowledged |-> (d0.acknowledged \/ d0.id = visit[v].id)]
    BY <1>1
  <2>3. PICK e0 \in rows : /\ e.id = e0.id
                           /\ e = [id |-> e0.id, finding |-> e0.finding,
                                   acknowledged |-> (e0.acknowledged \/ e0.id = visit[v].id)]
    BY <1>1
  <2>4. d0 = e0
    BY <2>1, <2>2, <2>3 DEF MonthInv, RowsTyped
  <2>5. QED
    BY <2>2, <2>3, <2>4, Zenon
<1>4. visit' \in [Visits -> Visit] /\ \A w \in Visits : visit'[w] = visit[w] \/ visit'[w].pc = "idle"
  BY <1>2 DEF MonthInv, RowsTyped
<1>5. RowsTyped'
  BY <1>1, <1>2, <1>3, <1>4 DEF MonthInv, RowsTyped
<1>6. Noting'
  <2>1. ASSUME NEW e \in rows', e.acknowledged PROVE e.finding \in noted
    <3>1. PICK d \in rows : /\ e.id = d.id /\ e.finding = d.finding
                            /\ e = [id |-> d.id, finding |-> d.finding,
                                    acknowledged |-> (d.acknowledged \/ d.id = visit[v].id)]
      BY <1>1
    <3>2. d.acknowledged \/ d.id = visit[v].id
      BY <2>1, <3>1
    <3>3. QED
      BY <1>1, <3>1, <3>2 DEF MonthInv, Noting
  <2>2. ASSUME NEW w \in Visits, NEW e \in rows', visit'[w].pc = "update", e.id = visit'[w].id
        PROVE  e.finding \in noted
    <3>1. PICK d \in rows : e.id = d.id /\ e.finding = d.finding
      BY <1>1
    <3>2. visit'[w] = visit[w]
      BY <1>4, <2>2
    <3>3. QED
      BY <2>2, <3>1, <3>2 DEF MonthInv, Noting
  <2>3. QED
    BY <1>2, <2>1, <2>2 DEF Noting
<1>7. Present \subseteq Present'
  BY <1>1 DEF Present
<1>8. Alone' /\ Inserting' /\ (compared'.known => Missing(compared)' = {})
  BY <1>2, <1>7 DEF MonthInv, Alone, Inserting, Missing
<1>9. QED
  BY <1>5, <1>6, <1>8 DEF MonthInv

LEMMA MonthStep ==
  ASSUME MonthInv, \/ ReconNext /\ discrepant' = Blocked(rows')
                   \/ UNCHANGED <<reconVars, discrepant>>
  PROVE  MonthInv'
<1>1. CASE UNCHANGED <<reconVars, discrepant>>
  BY <1>1 DEF MonthInv, RowsTyped, Alone, Inserting, Noting, Missing, Present, Blocked, reconVars
<1>2. ASSUME NEW issue \in Issues \cup Feeds PROVE issue[1] \in Numbers /\ issue[2] \in Entry
  BY EntriesAssumption
<1>3. CASE ReconNext /\ discrepant' = Blocked(rows')
  <2>1. ASSUME NEW issue \in Issues, IssueInvoice(issue[1], issue[2]) PROVE MonthInv'
    BY <1>2, <1>3, <2>1, TablesStep
  <2>2. ASSUME NEW feed \in Feeds, upsertArIngestedRecord(feed[1], feed[2]) PROVE MonthInv'
    BY <1>2, <1>3, <2>2, TablesStep
  <2>3. QED
    BY <1>3, <2>1, <2>2, ReadLedgerStep, ReadArStep, ClearStep, CreateStep, EndStep, AskStep,
       AcknowledgeStep DEF ReconNext
<1>4. QED
  BY <1>1, <1>3

(* An acknowledged row stays, whatever the next report finds. *)
LEMMA RowsStay ==
  ASSUME MonthInv, ReconNext \/ rows' = rows, NEW d \in rows, d.acknowledged
  PROVE  d \in rows' /\ d.finding \in noted
<1>1. d.finding \in noted
  BY DEF MonthInv, Noting
<1>2. ASSUME NEW v \in Visits, AcknowledgeDiscrepancy(v) PROVE d \in rows'
  BY <1>2, AcknowledgedRows
<1>3. ASSUME NEW g \in Reports, ClearUnacknowledged(g) PROVE d \in rows'
  BY <1>3 DEF ClearUnacknowledged
<1>4. ASSUME NEW g \in Reports, NEW id \in Rows, CreateDiscrepancy(g, id) PROVE d \in rows'
  BY <1>4 DEF CreateDiscrepancy
<1>5. ASSUME rows' = rows PROVE d \in rows'
  BY <1>5
<1>6. QED
  BY <1>1, <1>2, <1>3, <1>4, <1>5 DEF ReconNext, IssueInvoice, upsertArIngestedRecord, ReadLedger,
     ReadAr, ListDiscrepancies, ReportFails, AcknowledgeRequest, reconTables

(* The gate.  Nothing is open in the table when the count is zero, and all  *)
(* that the last report has found is in the table.                          *)
LEMMA GateStep ==
  ASSUME Shape, MonthInv, NEW q \in Requests, GetsPast(q), compared.known, CountDiscrepancies(q)
  PROVE  Differences(compared.ledger, compared.ar) \subseteq noted
<1>1. req[q] \in Request /\ WellFormed(req[q]) /\ req[q].pc = "countDiscrepancies"
  BY DEF Shape, TypeOK, RunsTypeOK, GetsPast, At
<1>2. req[q].run \in Runs
  BY <1>1 DEF WellFormed, OnRun, Steps, Request
<1>3. req[q].run \notin discrepant
  <2>1. SUFFICES ASSUME req[q].run \in discrepant PROVE FALSE
    OBVIOUS
  <2>2. req' = [req EXCEPT ![q] = Idle] /\ req \in [Requests -> Request]
    BY <2>1 DEF CountDiscrepancies, GetsPast, Return, Shape, TypeOK, RunsTypeOK
  <2>3. req'[q] = Idle
    BY <2>2
  <2>4. QED
    BY <2>3 DEF GetsPast, Idle
<1>4. \A d \in rows : d.finding \in noted
  BY <1>2, <1>3 DEF MonthInv, Blocked, Noting
<1>5. QED
  BY <1>4 DEF MonthInv, Missing, Present

LEMMA CountsAlone ==
  ASSUME Shape, NEW q \in Requests, GetsPast(q), RunsNext
  PROVE  CountDiscrepancies(q)
<1>1. /\ req \in [Requests -> Request] /\ req[q].pc = "countDiscrepancies" /\ req'[q] # req[q]
  BY DEF Shape, TypeOK, RunsTypeOK, GetsPast, At
<1>2. ASSUME NEW p \in Requests, p # q, Create(p) \/ Review(p) \/ Approve(p) \/ Export(p) \/ Fail(p)
      PROVE  req'[q] = req[q]
  BY <1>1, <1>2 DEF Create, Review, Approve, Export, CreateRunRequest, ListRecords, InsertRun,
     LinkRecord, Created, ApproveRecordRequest, MarkReviewed, PromoteRecord, ApproveRunRequest,
     FinalizeRequest, CountDiscrepancies, ReadReviews, ApproveRun, SettleRecords, ExportRequest,
     ReadLinks, StoreArtifact, ReadArtifact, ReceiveReply, Fail, Receive, Goto, Return
<1>3. ~Fail(q)
  BY <1>1 DEF Fail, Return, GetsPast, Idle
<1>4. Create(q) \/ Review(q) \/ Approve(q) \/ Export(q)
  BY <1>1, <1>2, <1>3 DEF RunsNext
<1>5. QED
  BY <1>1, <1>4 DEF Create, Review, Approve, Export, CreateRunRequest, ListRecords, InsertRun,
     LinkRecord, Created, ApproveRecordRequest, MarkReviewed, PromoteRecord, ApproveRunRequest,
     FinalizeRequest, ReadReviews, ApproveRun, SettleRecords, ExportRequest,
     ReadLinks, StoreArtifact, ReadArtifact, ReceiveReply, Receive, At

LEMMA ShapeBeside ==
  ASSUME Shape, UNCHANGED <<recs, runs, artifact, req, hasty>>, discrepant' \subseteq Runs
  PROVE  Shape'
<1>1. TypeOK'
  BY DEF Shape, TypeOK, RecordsTypeOK, RunsTypeOK
<1>2. ASSUME NEW q \in Requests PROVE WellFormed(req[q])'
  BY DEF Shape, WellFormed
<1>3. QED
  BY <1>1, <1>2 DEF Shape

LEMMA RunsKeepDiscrepant ==
  ASSUME RunsNext \/ HoldSide PROVE discrepant' = discrepant /\ [Next]_vars
BY DEF Next, HoldSide, runVars, RunsNext, Create, Review, Approve, Export, CreateRunRequest, ListRecords, InsertRun,
     LinkRecord, Created, ApproveRecordRequest, MarkReviewed, PromoteRecord, ApproveRunRequest,
     FinalizeRequest, CountDiscrepancies, ReadReviews, ApproveRun, SettleRecords, ExportRequest,
     ReadLinks, StoreArtifact, ReadArtifact, ReceiveReply, Fail

LEMMA MonthStart == MCInit => RunsInv /\ MonthInv
<1>1. Init => RunsInv /\ discrepant = {}
  BY InitShape, InitClosed DEF Init, RunsInit, RunsInv
<1>2. MonthInit => Shape /\ discrepant = {}
  BY NoneAssumption
  DEF MonthInit, Shape, TypeOK, RecordsTypeOK, RunsTypeOK, RecordRow, Statuses, 
      RunRow, HoldReasons, Request, Steps, Idle, OnRun, Exporting, WellFormed
<1>3. MonthInit => Closed
  BY NoneAssumption
  DEF MonthInit, Idle, Closed, Knows, ApprovedAsReviewed, ApprovedRecordBacked, ExportedWhole
<1>4. MonthInit => \E scene \in Scenes : ReconInit(scene)
  BY DEF MonthInit
<1>5. QED
  BY <1>1, <1>2, <1>3, <1>4, ReconStart, NoBooksAssumption DEF MCInit, RunsInv

-----------------------------------------------------------------------------
(* The page of the report.  Fetches exclude each other; while no report was *)
(* run beside an acknowledgment, and none of a row was recorded twice, each *)
(* row has one answer at most and the rows of the page are those that the   *)
(* acknowledgments are about.                                               *)

Few(open) == /\ open \subseteq Ids /\ IsFiniteSet(open)
             /\ Cardinality(open) \in 0..Cardinality(Gaps)

Page == [phase : {"loading", "data", "error"}, open : SUBSET Ids,
         acknowledged : SUBSET Ids, unacknowledgedCount : 0..Cardinality(Gaps),
         fetching : BOOLEAN, acknowledgingId : Ids \cup {NoId}]

Fetches(x) == x.pc # "idle" /\ x.kind = "report"
Acknowledges(x) == x.pc # "idle" /\ x.kind = "acknowledge"
Acknowledged(x) == x.pc = "done" /\ x.kind = "acknowledge"

PageTyped ==
  /\ serverRows \in [latest : 0..MaxReports, acknowledged : SUBSET Ids]
  /\ recPage \in Page /\ Few(recPage.open)
  /\ recCall \in [PageCalls -> PageCall]
  /\ \A c \in PageCalls : /\ Few(recCall[c].open)
                          /\ recCall[c].pc = "found" => recCall[c].kind = "acknowledge"

OneFetch ==
  /\ recPage.fetching <=> \E c \in PageCalls : Fetches(recCall[c])
  /\ \A c, d \in PageCalls : Fetches(recCall[c]) /\ Fetches(recCall[d]) => c = d
  /\ recPage.fetching => recPage.phase = "loading"

Recorded ==
  /\ recPage.acknowledged \subseteq serverRows.acknowledged
  /\ \A c \in PageCalls :
       /\ recCall[c].acknowledged \subseteq serverRows.acknowledged
       /\ Acknowledged(recCall[c]) => recCall[c].id \in serverRows.acknowledged
  /\ ~crossed => \A c, d \in PageCalls :
       Acknowledged(recCall[c]) /\ Acknowledged(recCall[d]) /\ recCall[c].id = recCall[d].id => c = d

Counted ==
  /\ recPage.phase = "data" =>
       /\ recPage.unacknowledgedCount <= Cardinality(recPage.open)
       /\ ~crossed => /\ recPage.unacknowledgedCount = Cardinality(recPage.open)
                      /\ \A c \in PageCalls :
                           /\ Acknowledged(recCall[c]) => recCall[c].id \in recPage.open
                           /\ Acknowledges(recCall[c]) =>
                                recCall[c].id \in recPage.open \cup serverRows.acknowledged
  /\ recPage.phase # "data" /\ ~crossed => \A c \in PageCalls : ~Acknowledges(recCall[c])

PageInv == PageTyped /\ OneFetch /\ Recorded /\ Counted

LEMMA GapsCounted == Cardinality(Gaps) \in Nat
BY GapsAssumption, FS_CardinalityType

LEMMA NoneIsFew == Few({})
BY GapsCounted, FS_EmptySet DEF Few

(* The open rows of one report are at most as many as there are gaps. *)
LEMMA OpenRowsFew == Few(OpenRows)
<1>1. PICK n : n = serverRows.latest
  OBVIOUS
<1>2. OpenRows \subseteq Ids /\ \A id \in OpenRows : id[2] = n
  BY <1>1 DEF OpenRows
<1>3. \A id \in OpenRows : id[1] \in Gaps /\ id = <<id[1], n>>
  BY <1>2 DEF Ids
<1> DEFINE f == [id \in OpenRows |-> id[1]]
<1>4. f \in Injection(OpenRows, Gaps)
  BY <1>3 DEF Injection, IsInjective
<1>5. IsFiniteSet(OpenRows) /\ Cardinality(OpenRows) <= Cardinality(Gaps)
  BY <1>4, GapsAssumption, FS_Injection
<1>6. Cardinality(OpenRows) \in Nat
  BY <1>5, FS_CardinalityType
<1>7. QED
  BY <1>2, <1>5, <1>6, GapsCounted DEF Few

LEMMA FewerIsFew ==
  ASSUME NEW open, Few(open), NEW id
  PROVE  /\ Few(open \ {id})
         /\ Cardinality(open \ {id}) = IF id \in open THEN Cardinality(open) - 1 ELSE Cardinality(open)
<1>1. IsFiniteSet(open) /\ open \subseteq Ids /\ Cardinality(open) \in 0..Cardinality(Gaps)
  BY DEF Few
<1>2. /\ IsFiniteSet(open \ {id})
      /\ Cardinality(open \ {id}) = IF id \in open THEN Cardinality(open) - 1 ELSE Cardinality(open)
  BY <1>1, FS_RemoveElement
<1>3. Cardinality(open \ {id}) \in Nat
  BY <1>2, FS_CardinalityType
<1>4. QED
  BY <1>1, <1>2, <1>3, GapsCounted DEF Few

LEMMA IdleCall == NoCall \in PageCall /\ NoCall.pc = "idle" /\ Few(NoCall.open) /\ NoCall.acknowledged = {}
BY NoneIsFew DEF NoCall, PageCall

LEMMA PageStart == RecPageInit \/ RecPageBegin => PageInv
<1>1. SUFFICES ASSUME RecPageInit \/ RecPageBegin PROVE PageInv
  OBVIOUS
<1>2. PICK asks : asks = [NoCall EXCEPT !.pc = "sent"]
  OBVIOUS
<1>3. /\ asks \in PageCall /\ asks.pc = "sent" /\ asks.kind = "report" /\ Few(asks.open)
      /\ asks.acknowledged = {}
  BY <1>2, IdleCall DEF NoCall, PageCall
<1>4. 0 \in 0..MaxReports /\ 0 \in 0..Cardinality(Gaps)
  BY GapsAssumption, GapsCounted
<1>5. CASE RecPageInit
  <2>1. PICK c \in PageCalls : recCall = [d \in PageCalls |-> IF d = c THEN asks ELSE NoCall]
    BY <1>2, <1>5 DEF RecPageInit
  <2>2. recPage = EmptyPage /\ serverRows = [latest |-> 0, acknowledged |-> {}]
    BY <1>5 DEF RecPageInit
  <2>3. /\ recPage \in Page /\ recPage.open = {} /\ recPage.acknowledged = {} /\ recPage.fetching
        /\ recPage.phase = "loading"
    BY <1>4, <2>2 DEF EmptyPage, Page
  <2>4. PageTyped
    BY <1>3, <1>4, <2>1, <2>2, <2>3, NoneIsFew, IdleCall DEF PageTyped
  <2>5. OneFetch
    BY <1>3, <2>1, <2>3, IdleCall DEF OneFetch, Fetches
  <2>6. Recorded /\ Counted
    BY <1>3, <2>1, <2>2, <2>3, IdleCall DEF Recorded, Counted, Acknowledges, Acknowledged
  <2>7. QED
    BY <2>4, <2>5, <2>6 DEF PageInv
<1>6. CASE RecPageBegin
  <2>1. /\ recCall = [d \in PageCalls |-> NoCall] /\ serverRows = [latest |-> 0, acknowledged |-> {}]
        /\ recPage = [EmptyPage EXCEPT !.fetching = FALSE]
    BY <1>6 DEF RecPageBegin
  <2>2. /\ recPage \in Page /\ recPage.open = {} /\ recPage.acknowledged = {} /\ ~recPage.fetching
        /\ recPage.phase = "loading"
    BY <1>4, <2>1 DEF EmptyPage, Page
  <2>3. PageTyped
    BY <1>4, <2>1, <2>2, NoneIsFew, IdleCall DEF PageTyped
  <2>4. OneFetch /\ Recorded /\ Counted
    BY <2>1, <2>2, IdleCall DEF OneFetch, Fetches, Recorded, Counted, Acknowledges, Acknowledged
  <2>5. QED
    BY <2>3, <2>4 DEF PageInv
<1>7. QED
  BY <1>1, <1>5, <1>6

Sent(kind, id) == [NoCall EXCEPT !.pc = "sent", !.kind = kind, !.id = id]

LEMMA SentCall ==
  ASSUME NEW kind \in {"report", "acknowledge"}, NEW id \in Ids \cup {NoId}
  PROVE  /\ Sent(kind, id) \in PageCall /\ Sent(kind, id).pc = "sent"
         /\ Sent(kind, id).kind = kind /\ Sent(kind, id).id = id
         /\ Sent(kind, id).acknowledged = {} /\ Few(Sent(kind, id).open)
<1>1. PICK call : call = Sent(kind, id)
  OBVIOUS
<1>2. call = [pc |-> "sent", kind |-> kind, id |-> id, open |-> {}, acknowledged |-> {}]
  BY <1>1 DEF Sent, NoCall
<1>3. call \in PageCall
  BY <1>2 DEF PageCall
<1>4. call.pc = "sent" /\ call.kind = kind /\ call.id = id /\ call.acknowledged = {} /\ call.open = {}
  BY <1>2
<1>5. QED
  BY <1>1, <1>3, <1>4, NoneIsFew

LEMMA PeriodFormStep ==
  ASSUME PageInv, NEW c \in PageCalls, PeriodForm(c) PROVE PageInv'
<1>1. PICK call : call = Sent("report", NoId)
  OBVIOUS
<1>2. PICK page : page = [recPage EXCEPT !.fetching = TRUE, !.phase = "loading"]
  OBVIOUS
<1>3. /\ recCall' = [recCall EXCEPT ![c] = call] /\ recPage' = page /\ UNCHANGED serverRows
      /\ recCall[c].pc = "idle" /\ ~recPage.fetching
      /\ crossed' = Acknowledging
  BY <1>1, <1>2 DEF PeriodForm, AskServer, Sent
<1>4. /\ call \in PageCall /\ call.pc = "sent" /\ call.kind = "report"
      /\ call.acknowledged = {} /\ Few(call.open)
  BY <1>1, SentCall
<1>5. recCall \in [PageCalls -> PageCall] /\ recPage \in Page
  BY DEF PageInv, PageTyped
<1>6. recCall'[c] = call /\ \A d \in PageCalls \ {c} : recCall'[d] = recCall[d]
  BY <1>3, <1>5
<1>7. /\ page \in Page /\ page.open = recPage.open /\ page.acknowledged = recPage.acknowledged
      /\ page.fetching /\ page.phase = "loading"
  BY <1>2, <1>5 DEF Page
<1>8. PageTyped'
  BY <1>3, <1>4, <1>5, <1>6, <1>7 DEF PageInv, PageTyped
<1>9. OneFetch'
  BY <1>3, <1>4, <1>6, <1>7 DEF PageInv, OneFetch, Fetches
<1>10. Recorded'
  BY <1>3, <1>4, <1>6, <1>7 DEF PageInv, Recorded, Acknowledged, Acknowledging
<1>11. Counted'
  BY <1>3, <1>4, <1>6, <1>7 DEF Counted, Acknowledges, Acknowledging
<1>12. QED
  BY <1>8, <1>9, <1>10, <1>11 DEF PageInv

LEMMA AcknowledgeFormStep ==
  ASSUME PageInv, NEW c \in PageCalls, NEW id \in Ids, AcknowledgeForm(c, id) PROVE PageInv'
<1>1. PICK call : call = Sent("acknowledge", id)
  OBVIOUS
<1>2. PICK page : page = [recPage EXCEPT !.acknowledgingId = id]
  OBVIOUS
<1>3. /\ recCall' = [recCall EXCEPT ![c] = call] /\ recPage' = page /\ UNCHANGED <<serverRows, crossed>>
      /\ recCall[c].pc = "idle" /\ recPage.phase = "data" /\ id \in recPage.open
  BY <1>1, <1>2 DEF AcknowledgeForm, AskServer, Sent
<1>4. /\ call \in PageCall /\ call.pc = "sent" /\ call.kind = "acknowledge"
      /\ call.id = id /\ call.acknowledged = {} /\ Few(call.open)
  BY <1>1, SentCall
<1>5. recCall \in [PageCalls -> PageCall] /\ recPage \in Page
  BY DEF PageInv, PageTyped
<1>6. recCall'[c] = call /\ \A d \in PageCalls \ {c} : recCall'[d] = recCall[d]
  BY <1>3, <1>5
<1>7. /\ page \in Page /\ page.open = recPage.open /\ page.acknowledged = recPage.acknowledged
      /\ page.phase = "data" /\ page.unacknowledgedCount = recPage.unacknowledgedCount
  BY <1>2, <1>3, <1>5 DEF Page
<1>8. page.fetching <=> recPage.fetching
  BY <1>2, <1>5 DEF Page
<1>9. PageTyped'
  BY <1>3, <1>4, <1>5, <1>6, <1>7 DEF PageInv, PageTyped
<1>10. OneFetch'
  BY <1>3, <1>4, <1>6, <1>7, <1>8 DEF PageInv, OneFetch, Fetches
<1>11. Recorded'
  BY <1>3, <1>4, <1>6, <1>7 DEF PageInv, Recorded, Acknowledged
<1>12. Counted'
  BY <1>3, <1>4, <1>6, <1>7 DEF PageInv, Counted, Acknowledges, Acknowledged
<1>13. QED
  BY <1>9, <1>10, <1>11, <1>12 DEF PageInv

(* The server moves without the page: the newest report, or one more        *)
(* acknowledgment.                                                          *)
LEMMA OthersStep ==
  ASSUME PageInv, OtherReport \/ \E id \in Ids : OtherAcknowledges(id) PROVE PageInv'
<1>1. /\ serverRows' \in [latest : 0..MaxReports, acknowledged : SUBSET Ids]
      /\ serverRows.acknowledged \subseteq serverRows'.acknowledged
  <2>1. CASE OtherReport
    <3>1. /\ serverRows' = [serverRows EXCEPT !.latest = @ + 1] /\ serverRows.latest < MaxReports
          /\ serverRows \in [latest : 0..MaxReports, acknowledged : SUBSET Ids]
      BY <2>1 DEF OtherReport, NextReport, PageInv, PageTyped
    <3>2. serverRows.latest + 1 \in 0..MaxReports
      BY <3>1, GapsAssumption
    <3>3. QED
      BY <3>1, <3>2
  <2>2. CASE \E id \in Ids : OtherAcknowledges(id)
    BY <2>2 DEF OtherAcknowledges, Record, PageInv, PageTyped
  <2>3. QED
    BY <2>1, <2>2
<1>2. UNCHANGED <<recPage, recCall, crossed>>
  BY DEF OtherReport, OtherAcknowledges
<1>3. QED
  BY <1>1, <1>2 DEF PageInv, PageTyped, OneFetch, Recorded, Counted

LEMMA AnswerReportStep ==
  ASSUME PageInv, NEW c \in PageCalls, AnswerReport(c) PROVE PageInv'
<1>1. PICK open, known : open = OpenRows' /\ known = serverRows.acknowledged
  OBVIOUS
<1>2. PICK call : call = [recCall[c] EXCEPT !.pc = "done", !.open = open, !.acknowledged = known]
  OBVIOUS
<1>3. /\ recCall' = [recCall EXCEPT ![c] = call] /\ UNCHANGED <<recPage, crossed>>
      /\ recCall[c].pc = "sent" /\ recCall[c].kind = "report"
      /\ serverRows' = [serverRows EXCEPT !.latest = @ + 1] /\ serverRows.latest < MaxReports
  BY <1>1, <1>2 DEF AnswerReport, NextReport
<1>4. /\ recCall \in [PageCalls -> PageCall]
      /\ serverRows \in [latest : 0..MaxReports, acknowledged : SUBSET Ids]
  BY DEF PageInv, PageTyped
<1>5. /\ serverRows' \in [latest : 0..MaxReports, acknowledged : SUBSET Ids]
      /\ serverRows'.acknowledged = serverRows.acknowledged
  <2>1. serverRows.latest + 1 \in 0..MaxReports
    BY <1>3, <1>4, GapsAssumption
  <2>2. QED
    BY <1>3, <1>4, <2>1
<1>6. Few(open) /\ known \subseteq Ids
  <2>1. Few(OpenRows)'
    BY OpenRowsFew, PTL
  <2>2. QED
    BY <1>1, <1>4, <2>1 DEF Few, Ids
<1>7. /\ call \in PageCall /\ call.pc = "done" /\ call.kind = "report"
      /\ call.open = open /\ call.acknowledged = known
  <2>1. call = [pc |-> "done", kind |-> "report", id |-> recCall[c].id, open |-> open,
                acknowledged |-> known]
    BY <1>2, <1>3, <1>4 DEF PageCall
  <2>2. QED
    BY <1>4, <1>6, <2>1 DEF PageCall, Few
<1>8. recCall'[c] = call /\ \A d \in PageCalls \ {c} : recCall'[d] = recCall[d]
  BY <1>3, <1>4
<1>9. PageTyped'
  BY <1>3, <1>4, <1>5, <1>6, <1>7, <1>8 DEF PageInv, PageTyped
<1>10. OneFetch'
  BY <1>3, <1>7, <1>8 DEF PageInv, OneFetch, Fetches
<1>11. Recorded'
  BY <1>1, <1>3, <1>5, <1>7, <1>8 DEF PageInv, Recorded, Acknowledged
<1>12. Counted'
  BY <1>3, <1>7, <1>8 DEF PageInv, Counted, Acknowledges, Acknowledged
<1>13. QED
  BY <1>9, <1>10, <1>11, <1>12 DEF PageInv

(* A call of the page in which nothing but pc changes. *)
LEMMA CheckAcknowledgeStep ==
  ASSUME PageInv, NEW c \in PageCalls, CheckAcknowledge(c) PROVE PageInv'
<1>1. PICK call : call = [recCall[c] EXCEPT !.pc = "found"]
  OBVIOUS
<1>2. /\ recCall' = [recCall EXCEPT ![c] = call] /\ UNCHANGED <<serverRows, recPage, crossed>>
      /\ recCall[c].pc = "sent" /\ recCall[c].kind = "acknowledge"
      /\ recCall \in [PageCalls -> PageCall]
  BY <1>1 DEF CheckAcknowledge, PageInv, PageTyped
<1>3. /\ call \in PageCall /\ call.pc = "found" /\ call.kind = "acknowledge"
      /\ call.id = recCall[c].id /\ call.open = recCall[c].open
      /\ call.acknowledged = recCall[c].acknowledged
  BY <1>1, <1>2 DEF PageCall
<1>4. recCall'[c] = call /\ \A d \in PageCalls \ {c} : recCall'[d] = recCall[d]
  BY <1>2
<1>5. PageTyped'
  BY <1>2, <1>3, <1>4 DEF PageInv, PageTyped
<1>6. OneFetch'
  BY <1>2, <1>3, <1>4 DEF PageInv, OneFetch, Fetches
<1>7. Recorded'
  BY <1>2, <1>3, <1>4 DEF PageInv, Recorded, Acknowledged
<1>8. Counted'
  BY <1>2, <1>3, <1>4 DEF PageInv, Counted, Acknowledges, Acknowledged
<1>9. QED
  BY <1>5, <1>6, <1>7, <1>8 DEF PageInv

(* The UPDATE records the acknowledgment, and if it was recorded before     *)
(* that is an exception.                                                    *)
LEMMA AnswerAcknowledgeStep ==
  ASSUME PageInv, NEW c \in PageCalls, AnswerAcknowledge(c) PROVE PageInv'
<1>1. PICK id : id = recCall[c].id
  OBVIOUS
<1>2. PICK call : call = [recCall[c] EXCEPT !.pc = "done"]
  OBVIOUS
<1>3. /\ recCall' = [recCall EXCEPT ![c] = call] /\ UNCHANGED recPage
      /\ recCall[c].pc = "found" /\ id \in OpenRows \cup serverRows.acknowledged
      /\ serverRows' = [serverRows EXCEPT !.acknowledged = @ \cup {id}]
      /\ crossed' = (crossed \/ id \in serverRows.acknowledged)
  BY <1>1, <1>2 DEF AnswerAcknowledge, Record
<1>4. /\ recCall \in [PageCalls -> PageCall]
      /\ serverRows \in [latest : 0..MaxReports, acknowledged : SUBSET Ids]
      /\ recCall[c].kind = "acknowledge"
  BY <1>3 DEF PageInv, PageTyped
<1>5. id \in Ids /\ (~crossed' => ~crossed /\ id \notin serverRows.acknowledged)
  BY <1>3, <1>4 DEF OpenRows
<1>6. /\ serverRows' \in [latest : 0..MaxReports, acknowledged : SUBSET Ids]
      /\ serverRows'.acknowledged = serverRows.acknowledged \cup {id}
  BY <1>3, <1>4, <1>5
<1>7. /\ call \in PageCall /\ call.pc = "done" /\ call.kind = "acknowledge" /\ call.id = id
      /\ call.open = recCall[c].open /\ call.acknowledged = recCall[c].acknowledged
  BY <1>1, <1>2, <1>3, <1>4 DEF PageCall
<1>8. recCall'[c] = call /\ \A d \in PageCalls \ {c} : recCall'[d] = recCall[d]
  BY <1>3, <1>4
<1>9. PageTyped'
  BY <1>3, <1>4, <1>6, <1>7, <1>8 DEF PageInv, PageTyped
<1>10. OneFetch'
  BY <1>3, <1>4, <1>7, <1>8 DEF PageInv, OneFetch, Fetches
<1>11. Recorded'
  BY <1>3, <1>5, <1>6, <1>7, <1>8 DEF PageInv, Recorded, Acknowledged
<1>12. Counted'
  <2>1. recPage.phase = "data" /\ ~crossed' => id \in recPage.open
    BY <1>1, <1>3, <1>4, <1>5 DEF PageInv, Counted, Acknowledges
  <2>2. QED
    BY <1>3, <1>4, <1>5, <1>6, <1>7, <1>8, <2>1 DEF PageInv, Counted, Acknowledges, Acknowledged
<1>13. QED
  BY <1>9, <1>10, <1>11, <1>12 DEF PageInv

LEMMA FailsStep ==
  ASSUME PageInv, NEW c \in PageCalls, Fails(c) PROVE PageInv'
<1>1. PICK call : call = [recCall[c] EXCEPT !.pc = "failed", !.open = {}, !.acknowledged = {}]
  OBVIOUS
<1>2. /\ recCall' = [recCall EXCEPT ![c] = call] /\ UNCHANGED <<serverRows, recPage, crossed>>
      /\ recCall[c].pc \in {"sent", "found", "done"} /\ recCall \in [PageCalls -> PageCall]
  BY <1>1 DEF Fails, PageInv, PageTyped
<1>3. call = [pc |-> "failed", kind |-> recCall[c].kind, id |-> recCall[c].id, open |-> {},
              acknowledged |-> {}]
  BY <1>1, <1>2 DEF PageCall
<1>4. call \in PageCall
  BY <1>2, <1>3 DEF PageCall
<1>5. /\ call.pc = "failed" /\ call.kind = recCall[c].kind /\ call.id = recCall[c].id
      /\ call.open = {} /\ call.acknowledged = {}
  BY <1>3
<1>6. recCall'[c] = call /\ \A d \in PageCalls \ {c} : recCall'[d] = recCall[d]
  BY <1>2
<1>7. PageTyped'
  BY <1>2, <1>4, <1>5, <1>6, NoneIsFew DEF PageInv, PageTyped
<1>8. OneFetch'
  BY <1>2, <1>5, <1>6 DEF PageInv, OneFetch, Fetches
<1>9. Recorded'
  BY <1>2, <1>5, <1>6 DEF PageInv, Recorded, Acknowledged
<1>10. Counted'
  BY <1>2, <1>5, <1>6 DEF PageInv, Counted, Acknowledges, Acknowledged
<1>11. QED
  BY <1>7, <1>8, <1>9, <1>10 DEF PageInv

LEMMA HandleFetchStep ==
  ASSUME PageInv, NEW c \in PageCalls, HandleFetch(c) PROVE PageInv'
<1>1. PICK done \in BOOLEAN : done <=> recCall[c].pc = "done"
  OBVIOUS
<1>2. PICK n : n = IF done THEN Cardinality(recCall[c].open) ELSE recPage.unacknowledgedCount
  OBVIOUS
<1>3. PICK page : page = [recPage EXCEPT
                            !.fetching = FALSE,
                            !.phase = IF done THEN "data" ELSE "error",
                            !.open = recCall[c].open, !.acknowledged = recCall[c].acknowledged,
                            !.unacknowledgedCount = n]
  OBVIOUS
<1>4. /\ recCall' = [recCall EXCEPT ![c] = NoCall] /\ UNCHANGED <<serverRows, crossed>>
      /\ recPage' = page
      /\ recCall[c].pc \in {"done", "failed"} /\ recCall[c].kind = "report"
  BY <1>1, <1>2, <1>3 DEF HandleFetch, CallClosed
<1>5. /\ recCall \in [PageCalls -> PageCall] /\ recPage \in Page /\ Few(recCall[c].open)
      /\ recCall[c].acknowledged \subseteq Ids
  BY DEF PageInv, PageTyped, PageCall
<1>6. n \in 0..Cardinality(Gaps)
  BY <1>2, <1>5 DEF Few, Page
<1>7. page = [phase |-> IF done THEN "data" ELSE "error", open |-> recCall[c].open,
              acknowledged |-> recCall[c].acknowledged, unacknowledgedCount |-> n,
              fetching |-> FALSE, acknowledgingId |-> recPage.acknowledgingId]
  BY <1>3, <1>5 DEF Page
<1>8. page \in Page
  BY <1>5, <1>6, <1>7 DEF Page, Few
<1>9. /\ page.open = recCall[c].open /\ page.acknowledged = recCall[c].acknowledged
      /\ ~page.fetching /\ page.phase = (IF done THEN "data" ELSE "error")
      /\ page.unacknowledgedCount = n
  BY <1>7
<1>10. recCall'[c] = NoCall /\ \A d \in PageCalls \ {c} : recCall'[d] = recCall[d]
  BY <1>4, <1>5
<1>11. PageTyped'
  BY <1>4, <1>5, <1>8, <1>9, <1>10, IdleCall DEF PageInv, PageTyped
<1>12. \A d \in PageCalls \ {c} : ~Fetches(recCall[d])
  BY <1>4 DEF PageInv, OneFetch, Fetches
<1>13. OneFetch'
  BY <1>4, <1>9, <1>10, <1>12, IdleCall DEF OneFetch, Fetches
<1>14. Recorded'
  BY <1>4, <1>9, <1>10, IdleCall DEF PageInv, Recorded, Acknowledged
<1>15. Counted'
  <2>1. ~crossed => \A d \in PageCalls : ~Acknowledges(recCall[d])
    BY <1>4 DEF PageInv, OneFetch, Fetches, Counted
  <2>2. ~crossed => \A d \in PageCalls : ~Acknowledges(recCall'[d]) /\ ~Acknowledged(recCall'[d])
    BY <1>10, <2>1, IdleCall DEF Acknowledges, Acknowledged
  <2>3. page.phase = "data" => n = Cardinality(page.open) /\ n \in Nat
    BY <1>2, <1>5, <1>9 DEF Few
  <2>4. QED
    BY <1>4, <1>9, <2>2, <2>3 DEF Counted
<1>16. QED
  BY <1>11, <1>13, <1>14, <1>15 DEF PageInv

LEMMA HandleAcknowledgeStep ==
  ASSUME PageInv, NEW c \in PageCalls, HandleAcknowledge(c) PROVE PageInv'
<1>1. PICK id : id = recCall[c].id
  OBVIOUS
<1>2. PICK drop \in BOOLEAN : drop <=> recCall[c].pc = "done" /\ recPage.phase = "data" /\ id \in recPage.open
  OBVIOUS
<1>3. PICK open, known, n :
        /\ open = IF drop THEN recPage.open \ {id} ELSE recPage.open
        /\ known = IF drop THEN recPage.acknowledged \cup {id} ELSE recPage.acknowledged
        /\ n = IF recCall[c].pc = "done" THEN CountDown(recPage.unacknowledgedCount)
               ELSE recPage.unacknowledgedCount
  OBVIOUS
<1>4. /\ recCall' = [recCall EXCEPT ![c] = NoCall] /\ UNCHANGED <<serverRows, crossed>>
      /\ recCall[c].pc \in {"done", "failed"} /\ recCall[c].kind = "acknowledge"
  BY DEF HandleAcknowledge, CallClosed
<1>5. /\ recCall \in [PageCalls -> PageCall] /\ recPage \in Page /\ Few(recPage.open)
      /\ Cardinality(Gaps) \in Nat
  BY GapsCounted DEF PageInv, PageTyped
<1>6. PICK page : page = [phase |-> recPage.phase, open |-> open,
              acknowledged |-> known, unacknowledgedCount |-> n,
              fetching |-> recPage.fetching, acknowledgingId |-> NoId]
  OBVIOUS
<1>7. recPage' = page
  <2>1. CASE recCall[c].pc # "done"
    <3>1. recPage' = [recPage EXCEPT !.acknowledgingId = NoId]
      BY <2>1 DEF HandleAcknowledge
    <3>2. QED
      BY <1>2, <1>3, <1>5, <1>6, <2>1, <3>1 DEF Page
  <2>2. CASE recCall[c].pc = "done"
    <3>1. PICK shown : shown = UpdateRow(c)
      OBVIOUS
    <3>2. shown = [phase |-> recPage.phase, open |-> open, acknowledged |-> known,
                   unacknowledgedCount |-> recPage.unacknowledgedCount,
                   fetching |-> recPage.fetching, acknowledgingId |-> recPage.acknowledgingId]
      <4>1. CASE drop
        <5>1. shown = [recPage EXCEPT !.open = open, !.acknowledged = known]
          BY <1>1, <1>2, <1>3, <3>1, <4>1 DEF UpdateRow
        <5>2. QED
          BY <1>5, <5>1 DEF Page
      <4>2. CASE ~drop
        <5>1. shown = recPage
          BY <1>1, <1>2, <2>2, <3>1, <4>2 DEF UpdateRow
        <5>2. QED
          BY <1>3, <1>5, <4>2, <5>1 DEF Page
      <4>3. QED
        BY <4>1, <4>2
    <3>3. shown.unacknowledgedCount = recPage.unacknowledgedCount
      BY <3>2
    <3>4. recPage' = [shown EXCEPT !.unacknowledgedCount = n, !.acknowledgingId = NoId]
      <4>1. recPage' = [UpdateRow(c) EXCEPT !.unacknowledgedCount = CountDown(@), !.acknowledgingId = NoId]
        BY <2>2 DEF HandleAcknowledge
      <4>2. recPage' = [shown EXCEPT !.unacknowledgedCount = CountDown(shown.unacknowledgedCount),
                                     !.acknowledgingId = NoId]
        BY <3>1, <4>1
      <4>3. n = CountDown(shown.unacknowledgedCount)
        BY <1>3, <2>2, <3>3
      <4>4. QED
        BY <4>2, <4>3
    <3>5. recPage' = [phase |-> recPage.phase, open |-> open, acknowledged |-> known,
                      unacknowledgedCount |-> n, fetching |-> recPage.fetching,
                      acknowledgingId |-> NoId]
      BY <3>2, <3>4
    <3>6. QED
      BY <1>6, <3>5
  <2>3. QED
    BY <2>1, <2>2
<1>8. /\ page.open = open /\ page.acknowledged = known /\ page.phase = recPage.phase
      /\ page.unacknowledgedCount = n
  BY <1>6
<1>9. page.fetching <=> recPage.fetching
  BY <1>6
<1>10. id \in Ids \/ ~drop
  BY <1>2, <1>5 DEF Few
<1>11. n \in 0..Cardinality(Gaps) /\ known \subseteq Ids /\ Few(open)
  BY <1>3, <1>5, <1>10, FewerIsFew DEF CountDown, Page
<1>12. page \in Page
  BY <1>5, <1>6, <1>11 DEF Page, Few
<1>13. recCall'[c] = NoCall /\ \A d \in PageCalls \ {c} : recCall'[d] = recCall[d]
  BY <1>4, <1>5
<1>14. PageTyped'
  BY <1>4, <1>5, <1>7, <1>8, <1>11, <1>12, <1>13, IdleCall DEF PageInv, PageTyped
<1>15. OneFetch'
  BY <1>4, <1>7, <1>8, <1>9, <1>13, IdleCall DEF PageInv, OneFetch, Fetches
<1>16. Recorded'
  <2>1. drop => id \in serverRows.acknowledged
    BY <1>1, <1>2, <1>4 DEF PageInv, Recorded, Acknowledged
  <2>2. QED
    BY <1>3, <1>4, <1>7, <1>8, <1>13, <2>1, IdleCall DEF PageInv, Recorded, Acknowledged
<1>17. Counted'
  <2>1. CASE recPage.phase # "data"
    BY <1>4, <1>7, <1>8, <1>13, <2>1, IdleCall DEF PageInv, Counted, Acknowledges
  <2>2. CASE recPage.phase = "data" /\ recCall[c].pc = "done"
    <3>1. drop <=> id \in recPage.open
      BY <1>2, <2>2
    <3>2. Cardinality(open) = IF drop THEN Cardinality(recPage.open) - 1 ELSE Cardinality(recPage.open)
      BY <1>3, <1>5, <3>1, FewerIsFew
    <3>3. /\ Cardinality(recPage.open) \in Nat /\ recPage.unacknowledgedCount \in Nat
          /\ n = IF recPage.unacknowledgedCount > 0 THEN recPage.unacknowledgedCount - 1 ELSE 0
          /\ Cardinality(open) \in Nat
      BY <1>3, <1>5, <1>11, <2>2 DEF Few, Page, CountDown
    <3>4. /\ recPage.unacknowledgedCount <= Cardinality(recPage.open)
          /\ ~crossed => drop /\ recPage.unacknowledgedCount = Cardinality(recPage.open)
      BY <1>1, <1>4, <2>2, <3>1 DEF PageInv, Counted, Acknowledged
    <3>5. n <= Cardinality(open) /\ (~crossed => n = Cardinality(open))
      BY <3>2, <3>3, <3>4
    <3>6. ASSUME ~crossed, NEW d \in PageCalls
          PROVE  /\ Acknowledged(recCall'[d]) => recCall'[d].id \in open
                 /\ Acknowledges(recCall'[d]) => recCall'[d].id \in open \cup serverRows.acknowledged
      <4>1. CASE d = c
        BY <1>13, <4>1, IdleCall DEF Acknowledged, Acknowledges
      <4>2. CASE d # c
        <5>1. Acknowledged(recCall[d]) => recCall[d].id \in recPage.open /\ recCall[d].id # id
          BY <1>1, <1>4, <2>2, <3>6, <4>2 DEF PageInv, Counted, Recorded, Acknowledged
        <5>2. Acknowledges(recCall[d]) => recCall[d].id \in recPage.open \cup serverRows.acknowledged
          BY <2>2, <3>6 DEF PageInv, Counted
        <5>3. id \in serverRows.acknowledged
          BY <1>1, <1>4, <2>2 DEF PageInv, Recorded, Acknowledged
        <5>4. QED
          BY <1>3, <1>13, <4>2, <5>1, <5>2, <5>3
      <4>3. QED
        BY <4>1, <4>2
    <3>7. QED
      BY <1>4, <1>7, <1>8, <2>2, <3>5, <3>6 DEF Counted
  <2>3. CASE recPage.phase = "data" /\ recCall[c].pc # "done"
    <3>1. open = recPage.open /\ n = recPage.unacknowledgedCount
      BY <1>2, <1>3, <2>3
    <3>2. QED
      BY <1>4, <1>7, <1>8, <1>13, <2>3, <3>1, IdleCall DEF PageInv, Counted, Acknowledged, Acknowledges
  <2>4. QED
    BY <2>1, <2>2, <2>3
<1>18. QED
  BY <1>14, <1>15, <1>16, <1>17 DEF PageInv

LEMMA PageStep ==
  ASSUME PageInv, RecPageNext \/ UNCHANGED recPageVars PROVE PageInv'
<1>1. CASE UNCHANGED recPageVars
  BY <1>1 DEF PageInv, PageTyped, OneFetch, Recorded, Counted, recPageVars
<1>2. CASE RecPageNext
  BY <1>2, OthersStep, PeriodFormStep, AcknowledgeFormStep, AnswerReportStep, CheckAcknowledgeStep,
     AnswerAcknowledgeStep, FailsStep, HandleFetchStep, HandleAcknowledgeStep DEF RecPageNext
<1>3. QED
  BY <1>1, <1>2

LEMMA PageTells == ASSUME PageInv PROVE RecPageTells
<1>1. IsFiniteSet(recPage.open)
  BY DEF PageInv, PageTyped, Few
<1>2. CountTells
  BY DEF PageInv, Counted, CountTells
<1>3. AllClearTells
  <2>1. SUFFICES ASSUME Banner, ~crossed PROVE recPage.open \cup recPage.acknowledged \subseteq serverRows.acknowledged
    BY DEF AllClearTells
  <2>2. Cardinality(recPage.open) = 0
    BY <2>1 DEF Banner, PageInv, Counted
  <2>3. recPage.open = {}
    BY <1>1, <2>2, FS_EmptySet
  <2>4. QED
    BY <2>3 DEF PageInv, Recorded
<1>4. QED
  BY <1>2, <1>3 DEF RecPageTells

-----------------------------------------------------------------------------
(* The theorems of the month's end. *)

MonthEndInv == RunsInv /\ MonthInv /\ PageInv

CloseVars == <<monthVars, recPageVars, subject>>

LEMMA MonthEndStart == MCInit => MonthEndInv
BY MonthStart, PageStart DEF MCInit, MonthEndInv

(* A step is one of the close, of the reconciliation, or of the page. *)
LEMMA MonthEndSteps ==
  ASSUME [MCNext]_CloseVars
  PROVE  /\ \/ [Next]_vars /\ UNCHANGED <<reconVars, discrepant>>
            \/ ReconNext /\ discrepant' = Blocked(rows') /\ UNCHANGED <<recs, runs, artifact, req, hasty>>
         /\ RecPageNext \/ UNCHANGED recPageVars
<1>1. CASE UNCHANGED CloseVars
  BY <1>1 DEF CloseVars, monthVars, vars
<1>2. CASE subject = "close" /\ MonthNext /\ UNCHANGED recPageVars
  <2>1. Close => RunsNext
    BY DEF Close, RunsNext
  <2>2. QED
    BY <1>2, <2>1, RunsKeepDiscrepant DEF MonthNext
<1>3. CASE (RunsNext \/ HoldSide) /\ UNCHANGED <<reconVars, recPageVars>>
  BY <1>3, RunsKeepDiscrepant
<1>4. CASE RecPageNext /\ UNCHANGED monthVars
  BY <1>4 DEF monthVars, vars
<1>5. QED
  BY <1>1, <1>2, <1>3, <1>4 DEF MCNext

LEMMA MonthEndStep == MonthEndInv /\ [MCNext]_CloseVars => MonthEndInv'
<1>1. SUFFICES ASSUME MonthEndInv, [MCNext]_CloseVars PROVE MonthEndInv'
  OBVIOUS
<1>2. PageInv'
  BY <1>1, MonthEndSteps, PageStep DEF MonthEndInv
<1>3. MonthInv'
  BY <1>1, MonthEndSteps, MonthStep DEF MonthEndInv
<1>4. RunsInv'
  <2>1. CASE [Next]_vars
    BY <1>1, <2>1, NextShape, NextClosed DEF MonthEndInv, RunsInv
  <2>2. CASE discrepant' = Blocked(rows') /\ UNCHANGED <<recs, runs, artifact, req, hasty>>
    BY <1>1, <2>2, ShapeBeside, ClosedBeside DEF MonthEndInv, RunsInv, Blocked
  <2>3. QED
    BY <1>1, <2>1, <2>2, MonthEndSteps
<1>5. QED
  BY <1>2, <1>3, <1>4 DEF MonthEndInv

LEMMA MonthEndInvariance == MCSpec => []MonthEndInv
BY MonthEndStart, MonthEndStep, PTL DEF MCSpec, CloseVars

(* Runs, requests, reports, rows and the page have their types, however     *)
(* reports overlap, fail, and are acknowledged meanwhile.                   *)
THEOREM MonthEndTyped == MCSpec => []MCTypeOK
<1>1. MonthInv => ReconTypeOK
  BY DEF MonthInv, RowsTyped, Formed, ReconTypeOK
<1>2. PageInv => RecPageTypeOK
  <2>1. SUFFICES ASSUME PageInv PROVE RecPageTypeOK
    OBVIOUS
  <2>2. recPage \in Page /\ (recPage.fetching <=> \E c \in PageCalls : Fetches(recCall[c]))
    BY <2>1 DEF PageInv, PageTyped, OneFetch
  <2>3. recPage.fetching = \E c \in PageCalls : recCall[c].pc # "idle" /\ recCall[c].kind = "report"
    BY <2>2 DEF Page, Fetches
  <2>4. QED
    BY <2>1, <2>2, <2>3 DEF PageInv, PageTyped, Page, RecPageTypeOK
<1>3. Shape => TypeOK
  BY DEF Shape
<1>4. MonthEndInv => MCTypeOK
  BY <1>1, <1>2, <1>3 DEF MonthEndInv, RunsInv, MCTypeOK, MonthTypeOK
<1>5. QED
  BY <1>4, MonthEndInvariance, PTL

(* Between two reports each difference of the last report's lists has a row *)
(* (generateReconciliationReport), and the page counts what is open, and    *)
(* says that nothing is, only when that is so (ReconciliationReport.tsx).   *)
THEOREM ReportsTell == MCSpec => []ReportTells
<1>1. MonthInv => DifferencesStand
  <2>1. SUFFICES ASSUME MonthInv, compared.known PROVE DifferencesStand
    BY DEF DifferencesStand
  <2>2. \A f \in Differences(compared.ledger, compared.ar) : \E d \in rows : d.finding = f
    BY <2>1 DEF MonthInv, Missing, Present
  <2>3. QED
    BY <2>2 DEF DifferencesStand, Differences, Found
<1>2. MonthEndInv => ReportTells
  BY <1>1, PageTells DEF MonthEndInv, ReportTells
<1>3. QED
  BY <1>2, MonthEndInvariance, PTL

(* A finalization gets past the count without an override only if every     *)
(* difference that the last report found was acknowledged, and an           *)
(* acknowledged row stays (handleFinalizeCommissionRun,                     *)
(* clearUnacknowledged).                                                    *)
THEOREM GateStands == MCSpec => GateHolds
<1>1. ASSUME MonthEndInv, [MCNext]_CloseVars
      PROVE  /\ \A q \in Requests : GetsPast(q) /\ compared.known =>
                   Differences(compared.ledger, compared.ar) \subseteq noted
             /\ \A d \in rows : d.acknowledged => d \in rows' /\ d.finding \in noted
  <2>1. ASSUME NEW q \in Requests, GetsPast(q) PROVE CountDiscrepancies(q)
    <3>1. req'[q] # req[q]
      BY <2>1 DEF GetsPast, At
    <3>2. RunsNext
      BY <1>1, <3>1 DEF MCNext, MonthNext, Close, RunsNext, HoldSide, runVars, CloseVars, monthVars, vars
    <3>3. QED
      BY <1>1, <2>1, <3>2, CountsAlone DEF MonthEndInv, RunsInv
  <2>2. \A d \in rows : d.acknowledged => d \in rows' /\ d.finding \in noted
    BY <1>1, MonthEndSteps, RowsStay DEF MonthEndInv, reconVars
  <2>3. QED
    BY <1>1, <2>1, <2>2, GateStep DEF MonthEndInv, RunsInv
<1>2. MonthEndInv /\ [MCNext]_CloseVars =>
        [/\ \A q \in Requests : GetsPast(q) /\ compared.known =>
               Differences(compared.ledger, compared.ar) \subseteq noted
         /\ \A d \in rows : d.acknowledged => d \in rows' /\ d.finding \in noted]_monthVars
  BY <1>1
<1>3. QED
  BY <1>2, MonthEndInvariance, PTL DEF MCSpec, CloseVars, GateHolds

(* Beside the reconciliation, too, nothing that was given away or taken     *)
(* back is undone (approveCommissionRun, createOrGetPayrollExport).         *)
THEOREM MonthUndoesNothing == MCSpec => Irrevocable
<1>1. ASSUME Shape, [MCNext]_CloseVars
      PROVE  [/\ \A n \in Runs : artifact[n] # None => artifact'[n] = artifact[n]
              /\ \A r \in Records : recs[r].status = "ClawbackInitiated" =>
                                     recs'[r].status = "ClawbackInitiated"]_vars
  <2>1. CASE [Next]_vars
    BY <1>1, <2>1, ArtifactStep, ClawbackStep
  <2>2. CASE UNCHANGED <<recs, artifact>>
    BY <2>2
  <2>3. QED
    BY <1>1, <2>1, <2>2, MonthEndSteps
<1>2. QED
  BY <1>1, MonthEndInvariance, PTL DEF MCSpec, CloseVars, Irrevocable, MonthEndInv, RunsInv

(* Beside the reconciliation and after failures anywhere, too, a run is     *)
(* approved as it was reviewed and exported as it was approved              *)
(* (handleFinalizeCommissionRun, handleCreatePayrollExport).                *)
THEOREM MonthRunsSound == MCSpec => [](ApprovalSound /\ ExportSound)
<1>1. RunsInv => ApprovalSound /\ ExportSound
  BY DEF RunsInv, Shape, WellFormed, Closed, ApprovalSound, ExportSound, ReplyIsArtifact, At
<1>2. MonthEndInv => RunsInv
  BY DEF MonthEndInv
<1>3. QED
  BY <1>1, <1>2, MonthEndInvariance, PTL

===============================================================================
