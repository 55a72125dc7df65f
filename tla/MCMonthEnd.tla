------------------------------ MODULE MCMonthEnd ------------------------------
(* MonthEnd on a small instance: one run and one invoice number.             *)
(* What happens is one of three things, chosen at the start:                 *)
(*   close  one request at a time finalizes a run of one record beside the   *)
(*          reconciliation;                                                  *)
(*   runs   CommissionRuns as a whole, where two clients act on a run of two *)
(*          records before its creation has finished, and statements fail;   *)
(*   page   the browser's page of the report.                                *)
EXTENDS MonthEnd, TLC

CONSTANTS p1, r1, q1, a

VARIABLE subject

MCPlacementOf == [r \in Records |-> p1]

On(amount, day) == [amount |-> amount, day |-> day]

(* The ingested record agrees, or differs in amount and in date, or is      *)
(* outside the period.                                                      *)
MCIssues == {<<a, On(2, 1)>>}
MCFeeds == {<<a, On(1, 1)>>, <<a, On(2, 9)>>, <<a, On(1, 30)>>}

Books(entry) == [n \in {a} |-> entry]

NoBooks == [ledger |-> NoEntries, ar |-> NoEntries, operations |-> {}]

(* Reports one after another while the tables change, and reports that      *)
(* overlap on tables that do not.                                           *)
MCScenes ==
  {[ledger |-> Books(On(1, 1)), ar |-> NoEntries, operations |-> {"issue", "ingest"}],
   [ledger |-> NoEntries, ar |-> Books(On(1, 9)), operations |-> {"issue"}],
   [ledger |-> Books(On(1, 1)), ar |-> NoEntries, operations |-> {"ingest", "finalize"}],
   [ledger |-> Books(On(1, 1)), ar |-> Books(On(2, 9)),
    operations |-> {"overlap", "finalize"}],
   NoBooks}

(* The behaviours of the page, and of the runs, begin with empty books.     *)
ASSUME NoBooksAssumption == NoBooks \in Scenes

QuietStart == \A n \in Runs : runs[n].linked = {r1}

MCInit == \/ subject = "close" /\ MonthInit /\ desk # {} /\ QuietStart /\ RecPageBegin
          \/ subject = "runs" /\ Init /\ ReconInit(NoBooks) /\ RecPageBegin
          \/ subject = "page" /\ Init /\ ReconInit(NoBooks) /\ RecPageInit

OneAtATime == \A q \in Requests \ {q1} : At(q, "idle")

MCNext == /\ UNCHANGED subject
          /\ \/ subject = "close" /\ MonthNext /\ OneAtATime' /\ UNCHANGED recPageVars
             \/ /\ subject = "runs" /\ (RunsNext \/ HoldSide)
                /\ UNCHANGED <<reconVars, recPageVars>>
             \/ subject = "page" /\ RecPageNext /\ UNCHANGED monthVars

MCSpec == MCInit /\ [][MCNext]_<<monthVars, recPageVars, subject>>

MCTypeOK == MonthTypeOK /\ RecPageTypeOK

(* What Finance is told of the differences: the rows name each of them, and *)
(* the page counts them (generateReconciliationReport,                      *)
(* ReconciliationReport.tsx).                                               *)
ReportTells == DifferencesStand /\ RecPageTells

MCSymmetry == Permutations(Rows) \cup Permutations(Reports)
=============================================================================
