---------------------------- MODULE Reconciliation ----------------------------
(***************************************************************************)
(* The financial reconciliation of one period: the invoices of the ledger  *)
(* are compared with what the financial system of record has billed, each  *)
(* difference becomes a row, and a Finance Admin acknowledges the rows.    *)
(*                                                                         *)
(* GET /reconciliation is no read: it deletes the rows that nobody has     *)
(* acknowledged and inserts what it finds, one statement at a time, from   *)
(* the two tables as it has read them before.  report[g] is the GET served *)
(* in slot g, visit[v] the acknowledgment served in slot v.                *)
(***************************************************************************)
EXTENDS Integers, FiniteSets

CONSTANTS Numbers,       \* invoice numbers
          Issues,        \* the invoices that may be issued, <<number, entry>>
          Feeds,         \* the records that may be ingested, likewise
          Period,        \* the days of the period
          MaxGap,        \* dateGapThresholdDays
          Rows,          \* ids of discrepancies
          Scenes,        \* where a behaviour begins: the two tables, and what
                         \* happens then
          Reports,       \* slots for reports being generated
          Visits         \* slots for acknowledgments being served

Entry == [amount : Nat, day : Nat]      \* what was billed, and when

ASSUME EntriesAssumption == Issues \cup Feeds \subseteq Numbers \X Entry
ASSUME PeriodAssumption == Period \subseteq Nat /\ MaxGap \in Nat
ASSUME RowsAssumption == "none" \notin Rows

Kinds == {"ledger_only", "system_only", "amount_mismatch", "date_gap"}

Findings == Kinds \X Numbers

Row == [id : Rows, finding : Findings, acknowledged : BOOLEAN]

VARIABLES ledger,        \* invoices, a function of the numbers that there are
          ar,            \* ar_ingested_records, likewise
          rows,          \* reconciliation_discrepancies
          report, visit,
          desk,          \* what happens in this behaviour
          compared,      \* history: the lists that the last report compared, if
                         \* it came to its end and no other report ran beside it
          noted          \* history: the findings that an admin acknowledged

reconTables == <<ledger, ar, rows>>
reconVars == <<ledger, ar, rows, report, visit, desk, compared, noted>>

IsTable(t) == DOMAIN t \subseteq Numbers /\ t \in [DOMAIN t -> Entry]

ASSUME ScenesAssumption ==
  \A scene \in Scenes : IsTable(scene.ledger) /\ IsTable(scene.ar)

IsReport(r) == /\ r.pc \in {"idle", "readAr", "clear", "insert"}
               /\ r.alone \in BOOLEAN
               /\ IsTable(r.ledger) /\ IsTable(r.ar)
               /\ r.todo \subseteq Findings

Visit == [pc : {"idle", "update"}, id : Rows \cup {"none"}]

ReconTypeOK ==
  /\ IsTable(ledger) /\ IsTable(ar)
  /\ rows \subseteq Row
  /\ \A d, e \in rows : d.id = e.id => d = e
  /\ DOMAIN report = Reports /\ \A g \in Reports : IsReport(report[g])
  /\ visit \in [Visits -> Visit]
  /\ \E scene \in Scenes : desk = scene.operations
  /\ compared.known \in BOOLEAN
  /\ IsTable(compared.ledger) /\ IsTable(compared.ar)
  /\ noted \subseteq Findings

NoEntries == [n \in {} |-> [amount |-> 0, day |-> 0]]

NoReport == [pc |-> "idle", alone |-> TRUE, ledger |-> NoEntries, ar |-> NoEntries,
             todo |-> {}]

NoVisit == [pc |-> "idle", id |-> "none"]

Unknown == [known |-> FALSE, ledger |-> NoEntries, ar |-> NoEntries]

ReconInit(scene) ==
  /\ ledger = scene.ledger /\ ar = scene.ar /\ desk = scene.operations
  /\ rows = {}
  /\ report = [g \in Reports |-> NoReport]
  /\ visit = [v \in Visits |-> NoVisit]
  /\ compared = Unknown
  /\ noted = {}

-----------------------------------------------------------------------------
(* The two tables.  An import writes the amount of an invoice anew, but not *)
(* its date of issue (upsertInvoiceByNumber); an ingested record is         *)
(* replaced by a later one of the same number.                              *)

With(table, n, entry) ==
  [m \in DOMAIN table \cup {n} |-> IF m = n THEN entry ELSE table[m]]

IssueInvoice(n, entry) ==
  /\ "issue" \in desk
  /\ ledger' = With(ledger, n,
       IF n \in DOMAIN ledger THEN [ledger[n] EXCEPT !.amount = entry.amount] ELSE entry)
  /\ UNCHANGED <<ar, rows, report, visit, desk, compared, noted>>

upsertArIngestedRecord(n, entry) ==
  /\ "ingest" \in desk
  /\ ar' = With(ar, n, entry)
  /\ UNCHANGED <<ledger, rows, report, visit, desk, compared, noted>>

OfPeriod(table) == [n \in {m \in DOMAIN table : table[m].day \in Period} |-> table[n]]

-----------------------------------------------------------------------------
(* What generateReconciliationReport inserts for two lists of the period: a *)
(* number that is in both may differ in amount and in date.                 *)

Far(a, b) == a - b > MaxGap \/ b - a > MaxGap

(* Mutant: the dates are compared only if the amounts agree. *)
FirstDifference(L, A) ==
       {<<"ledger_only", n>> : n \in DOMAIN L \ DOMAIN A}
  \cup {<<"system_only", n>> : n \in DOMAIN A \ DOMAIN L}
  \cup {<<IF L[n].amount # A[n].amount THEN "amount_mismatch" ELSE "date_gap", n>>
          : n \in {m \in DOMAIN L \cap DOMAIN A :
                     L[m].amount # A[m].amount \/ Far(L[m].day, A[m].day)}}

Differences(L, A) ==
       {<<"ledger_only", n>> : n \in DOMAIN L \ DOMAIN A}
  \cup {<<"system_only", n>> : n \in DOMAIN A \ DOMAIN L}
  \cup {<<"amount_mismatch", n>>
          : n \in {m \in DOMAIN L \cap DOMAIN A : L[m].amount # A[m].amount}}
  \cup {<<"date_gap", n>>
          : n \in {m \in DOMAIN L \cap DOMAIN A : Far(L[m].day, A[m].day)}}

-----------------------------------------------------------------------------
(* GET /reconciliation.  The access is audited before anything is read; if  *)
(* that fails nothing else happens.                                         *)

Generating(g) == report[g].pc \in {"clear", "insert"}

ReadLedger(g) ==
  /\ report[g].pc = "idle"
  /\ LET alone == \A h \in Reports : report[h].pc = "idle"
     IN /\ alone \/ "overlap" \in desk
        /\ report' = [h \in Reports |->
          IF h = g THEN [NoReport EXCEPT !.pc = "readAr", !.alone = alone,
                                         !.ledger = OfPeriod(ledger)]
          ELSE IF report[h].pc = "idle" THEN report[h]
          ELSE [report[h] EXCEPT !.alone = FALSE]]
  /\ UNCHANGED <<reconTables, visit, desk, compared, noted>>

ReadAr(g) ==
  /\ report[g].pc = "readAr"
  /\ report' = [report EXCEPT ![g].ar = OfPeriod(ar), ![g].pc = "clear"]
  /\ UNCHANGED <<reconTables, visit, desk, compared, noted>>

Compare(g) ==
  report' = [report EXCEPT ![g].pc = "insert",
                           ![g].todo = Differences(report[g].ledger, report[g].ar)]

ClearUnacknowledged(g) ==
  /\ report[g].pc = "clear"
  /\ rows' = {d \in rows : d.acknowledged}
  /\ Compare(g)
  /\ compared' = Unknown
  /\ UNCHANGED <<ledger, ar, visit, desk, noted>>

Unused(id) == /\ \A d \in rows : d.id # id
              /\ \A v \in Visits : visit[v].pc = "idle" \/ visit[v].id # id

(* Mutant: two parameters of the INSERT are swapped. *)
CreateSwapped(g, id) ==
  /\ report[g].pc = "insert" /\ Unused(id)
  /\ \E f \in report[g].todo :
       /\ rows' = rows \cup {[id |-> id, finding |-> <<f[2], f[1]>>,
                             acknowledged |-> FALSE]}
       /\ report' = [report EXCEPT ![g].todo = @ \ {f}]
  /\ UNCHANGED <<ledger, ar, visit, desk, compared, noted>>

(* A plain INSERT: that the same difference was acknowledged before makes   *)
(* no difference.                                                           *)
CreateDiscrepancy(g, id) ==
  /\ report[g].pc = "insert" /\ Unused(id)
  /\ \E f \in report[g].todo :
       /\ rows' = rows \cup {[id |-> id, finding |-> f, acknowledged |-> FALSE]}
       /\ report' = [report EXCEPT ![g].todo = @ \ {f}]
  /\ UNCHANGED <<ledger, ar, visit, desk, compared, noted>>

(* The reply lists the rows of the period, the acknowledged ones too.       *)
ListDiscrepancies(g) ==
  /\ report[g].pc = "insert" /\ report[g].todo = {}
  /\ compared' = IF report[g].alone
                   THEN [known |-> TRUE, ledger |-> report[g].ledger,
                                         ar |-> report[g].ar]
                   ELSE compared
  /\ report' = [report EXCEPT ![g] = NoReport]
  /\ UNCHANGED <<reconTables, visit, desk, noted>>

(* A statement throws, or the server stops.                                 *)
ReportFails(g) ==
  /\ report[g].pc # "idle"
  /\ report' = [report EXCEPT ![g] = NoReport]
  /\ UNCHANGED <<reconTables, visit, desk, compared, noted>>

-----------------------------------------------------------------------------
(* POST /reconciliation/:id/acknowledge *)

AcknowledgeRequest(v, d) ==
  /\ visit[v].pc = "idle"
  /\ d \in rows /\ ~d.acknowledged
  /\ visit' = [visit EXCEPT ![v] = [pc |-> "update", id |-> d.id]]
  /\ noted' = noted \cup {d.finding}
  /\ UNCHANGED <<reconTables, report, desk, compared>>

(* 500 if a report has deleted the row meanwhile.                           *)
AcknowledgeDiscrepancy(v) ==
  /\ visit[v].pc = "update"
  /\ rows' = {[d EXCEPT !.acknowledged = @ \/ d.id = visit[v].id] : d \in rows}
  /\ visit' = [visit EXCEPT ![v] = NoVisit]
  /\ UNCHANGED <<ledger, ar, report, desk, compared, noted>>

-----------------------------------------------------------------------------
ReconNext ==
  \/ \E issue \in Issues : IssueInvoice(issue[1], issue[2])
  \/ \E feed \in Feeds : upsertArIngestedRecord(feed[1], feed[2])
  \/ \E g \in Reports :
       \/ ReadLedger(g) \/ ReadAr(g) \/ ClearUnacknowledged(g)
       \/ \E id \in Rows : CreateDiscrepancy(g, id)
       \/ ListDiscrepancies(g) \/ ReportFails(g)
  \/ \E v \in Visits :
       (\E d \in rows : AcknowledgeRequest(v, d)) \/ AcknowledgeDiscrepancy(v)

-----------------------------------------------------------------------------
(* What the reports and acknowledgments promise. *)

Found(kind, n) == \E d \in rows : d.finding = <<kind, n>>

(* Between two reports the table says where the ledger and the system of    *)
(* record disagree: each way in which an invoice of the last report's lists *)
(* differs has a row of its own, acknowledged or not, whatever was          *)
(* acknowledged before, during and after that report, and although the GET  *)
(* deletes before it inserts (generateReconciliationReport).                *)
DifferencesStand ==
  compared.known =>
    LET L == compared.ledger
        A == compared.ar
    IN \A n \in DOMAIN L \cup DOMAIN A :
         /\ n \notin DOMAIN A => Found("ledger_only", n)
         /\ n \notin DOMAIN L => Found("system_only", n)
         /\ n \in DOMAIN L \cap DOMAIN A =>
              /\ L[n].amount # A[n].amount => Found("amount_mismatch", n)
              /\ Far(L[n].day, A[n].day) => Found("date_gap", n)

-----------------------------------------------------------------------------
(***************************************************************************)
(* The page of the browser (components/finance/ReconciliationReport.tsx):  *)
(* one admin runs the report and acknowledges its rows, while others do    *)
(* the same elsewhere.  A report replaces the rows that are open by new    *)
(* ones with new ids, so a row is a finding of the report of some number.  *)
(* The server answers in one step here; the statements are those above.    *)
(***************************************************************************)
CONSTANTS Gaps,    \* the differences of the period
          PageCalls,   \* slots for the calls of the page
          MaxReports   \* how often the report is run

ASSUME GapsAssumption == IsFiniteSet(Gaps) /\ MaxReports \in Nat

VARIABLES serverRows,  \* the number of the last report, and the acknowledged rows
          recPage,     \* the state of the component
          recCall,     \* its calls
          crossed      \* history: the page's report was run while it awaited an
                       \* acknowledgment, or one of a row that was acknowledged
                       \* already was recorded as well; a new report ends it

recPageVars == <<serverRows, recPage, recCall, crossed>>

Ids == Gaps \X (0..MaxReports)
NoId == <<"none", 0>>
OpenRows == {id \in Ids : id[2] = serverRows.latest /\ id[2] > 0} \ serverRows.acknowledged

PageCall == [pc : {"idle", "sent", "found", "done", "failed"}, kind : {"report", "acknowledge"},
             id : Ids \cup {NoId}, open : SUBSET Ids, acknowledged : SUBSET Ids]

RecPageTypeOK ==
  /\ serverRows \in [latest : 0..MaxReports, acknowledged : SUBSET Ids]
  /\ recPage \in [phase : {"loading", "data", "error"}, open : SUBSET Ids,
                  acknowledged : SUBSET Ids, unacknowledgedCount : 0..Cardinality(Gaps),
                  fetching : BOOLEAN, acknowledgingId : Ids \cup {NoId}]
  /\ recCall \in [PageCalls -> PageCall]
  /\ recPage.fetching = \E c \in PageCalls : recCall[c].pc # "idle" /\ recCall[c].kind = "report"

NoCall == [pc |-> "idle", kind |-> "report", id |-> NoId, open |-> {}, acknowledged |-> {}]
EmptyPage == [phase |-> "loading", open |-> {}, acknowledged |-> {}, unacknowledgedCount |-> 0,
          fetching |-> TRUE, acknowledgingId |-> NoId]

(* The report of the current month is asked for when the page is mounted.   *)
RecPageInit ==
  /\ serverRows = [latest |-> 0, acknowledged |-> {}] /\ recPage = EmptyPage /\ crossed = FALSE
  /\ \E c \in PageCalls :
       recCall = [d \in PageCalls |-> IF d = c THEN [NoCall EXCEPT !.pc = "sent"] ELSE NoCall]

(* A behaviour that is not about the page.                                  *)
RecPageBegin ==
  /\ serverRows = [latest |-> 0, acknowledged |-> {}] /\ crossed = FALSE
  /\ recPage = [EmptyPage EXCEPT !.fetching = FALSE] /\ recCall = [c \in PageCalls |-> NoCall]

Acknowledging == \E c \in PageCalls : recCall[c].pc # "idle" /\ recCall[c].kind = "acknowledge"

-----------------------------------------------------------------------------
AskServer(c, kind, id) ==
  /\ recCall[c].pc = "idle"
  /\ recCall' = [recCall EXCEPT ![c] = [NoCall EXCEPT !.pc = "sent", !.kind = kind, !.id = id]]
  /\ UNCHANGED serverRows

(* The button of the form is disabled while a report is fetched.            *)
PeriodForm(c) ==
  /\ ~recPage.fetching /\ AskServer(c, "report", NoId)
  /\ recPage' = [recPage EXCEPT !.fetching = TRUE, !.phase = "loading"]
  /\ crossed' = Acknowledging

(* Only the row whose acknowledgment was sent last has its button disabled: *)
(* once another row has been sent, this one can be sent again.              *)
AcknowledgeForm(c, id) ==
  /\ recPage.phase = "data" /\ id \in recPage.open /\ recPage.acknowledgingId # id
  /\ AskServer(c, "acknowledge", id)
  /\ recPage' = [recPage EXCEPT !.acknowledgingId = id]
  /\ UNCHANGED crossed

-----------------------------------------------------------------------------
(* The server: a report, of this page or another, and an acknowledgment.    *)
NextReport ==
  /\ serverRows.latest < MaxReports
  /\ serverRows' = [serverRows EXCEPT !.latest = @ + 1]

AnswerReport(c) ==
  /\ recCall[c].pc = "sent" /\ recCall[c].kind = "report" /\ NextReport
  /\ recCall' = [recCall EXCEPT ![c].pc = "done", ![c].open = OpenRows',
                                ![c].acknowledged = serverRows.acknowledged]
  /\ UNCHANGED <<recPage, crossed>>

OtherReport == NextReport /\ UNCHANGED <<recPage, recCall, crossed>>

Record(id) ==
  serverRows' = [serverRows EXCEPT !.acknowledged = @ \cup {id}]

(* getDiscrepancy: 404 if a report has deleted the row, 409 if it is        *)
(* acknowledged.                                                            *)
CheckAcknowledge(c) ==
  /\ recCall[c].pc = "sent" /\ recCall[c].kind = "acknowledge"
  /\ recCall[c].id \in OpenRows
  /\ recCall' = [recCall EXCEPT ![c].pc = "found"]
  /\ UNCHANGED <<serverRows, recPage, crossed>>

(* The UPDATE does not ask again whether the row is acknowledged; the row   *)
(* is there still if it is open, or acknowledged by now.                    *)
AnswerAcknowledge(c) ==
  /\ recCall[c].pc = "found"
  /\ recCall[c].id \in OpenRows \cup serverRows.acknowledged
  /\ Record(recCall[c].id)
  /\ recCall' = [recCall EXCEPT ![c].pc = "done"]
  /\ crossed' = (crossed \/ recCall[c].id \in serverRows.acknowledged)
  /\ UNCHANGED recPage

OtherAcknowledges(id) ==
  id \in OpenRows /\ Record(id) /\ UNCHANGED <<recPage, recCall, crossed>>

(* 404, 409, 500, or an answer that is lost. *)
Fails(c) ==
  /\ recCall[c].pc \in {"sent", "found", "done"}
  /\ recCall' = [recCall EXCEPT ![c].pc = "failed", ![c].open = {}, ![c].acknowledged = {}]
  /\ UNCHANGED <<serverRows, recPage, crossed>>

-----------------------------------------------------------------------------
CallClosed(c) == recCall' = [recCall EXCEPT ![c] = NoCall] /\ UNCHANGED <<serverRows, crossed>>

HandleFetch(c) ==
  /\ recCall[c].kind = "report" /\ recCall[c].pc \in {"done", "failed"} /\ CallClosed(c)
  /\ recPage' = [recPage EXCEPT
       !.fetching = FALSE,
       !.phase = IF recCall[c].pc = "done" THEN "data" ELSE "error",
       !.open = recCall[c].open, !.acknowledged = recCall[c].acknowledged,
       !.unacknowledgedCount = IF recCall[c].pc = "done" THEN Cardinality(recCall[c].open) ELSE @]

(* The row is updated in the report that is on the screen, if there is one; *)
(* the count goes down in any case.                                         *)
UpdateRow(c) ==
  LET id == recCall[c].id
  IN  IF recPage.phase = "data" /\ id \in recPage.open
        THEN [recPage EXCEPT !.open = @ \ {id}, !.acknowledged = @ \cup {id}]
        ELSE recPage

CountDown(n) == IF n > 0 THEN n - 1 ELSE 0

HandleAcknowledge(c) ==
  /\ recCall[c].kind = "acknowledge" /\ recCall[c].pc \in {"done", "failed"} /\ CallClosed(c)
  /\ recPage' = IF recCall[c].pc = "done"
                  THEN [UpdateRow(c) EXCEPT !.unacknowledgedCount = CountDown(@),
                                         !.acknowledgingId = NoId]
                  ELSE [recPage EXCEPT !.acknowledgingId = NoId]

RecPageNext ==
  \/ OtherReport
  \/ \E id \in Ids : OtherAcknowledges(id)
  \/ \E c \in PageCalls : \/ PeriodForm(c) \/ \E id \in Ids : AcknowledgeForm(c, id)
                          \/ AnswerReport(c) \/ CheckAcknowledge(c) \/ AnswerAcknowledge(c)
                          \/ Fails(c) \/ HandleFetch(c) \/ HandleAcknowledge(c)

RecPageSpec == RecPageInit /\ [][RecPageNext]_recPageVars

-----------------------------------------------------------------------------
Banner == recPage.phase = "data" /\ recPage.unacknowledgedCount = 0
            /\ recPage.open \cup recPage.acknowledged # {}

(* The page never counts more open rows than it lists, and after each       *)
(* report counts exactly those: until the report is run beside an           *)
(* acknowledgment, or two acknowledgments of one row have both got past the *)
(* 409 (ReconciliationReport.tsx lowers the count for every 200).           *)
CountTells ==
  recPage.phase = "data" =>
    /\ recPage.unacknowledgedCount <= Cardinality(recPage.open)
    /\ ~crossed => recPage.unacknowledgedCount = Cardinality(recPage.open)

(* "All discrepancies acknowledged" is said only if the server has recorded *)
(* the acknowledgment of every row of the report on the screen, with the    *)
(* same exceptions.                                                         *)
AllClearTells ==
  Banner /\ ~crossed => recPage.open \cup recPage.acknowledged \subseteq serverRows.acknowledged

(* The page says how much is open, and that nothing is, only when it is so. *)
RecPageTells == CountTells /\ AllClearTells

(* Does not hold without the exceptions: the report already knew of the     *)
(* acknowledgment whose answer lowers its count once more, or a row was     *)
(* sent twice, because its button is enabled again once another row has     *)
(* been sent, and both were answered with 200.                              *)
AllClearAlways ==
  Banner => recPage.open \cup recPage.acknowledged \subseteq serverRows.acknowledged

(* Does not hold: another admin's report has put new open rows in place of  *)
(* those on the screen, and finalization is blocked.                        *)
AllClearUnblocks == Banner => OpenRows = {}
=============================================================================
