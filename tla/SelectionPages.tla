----------------------------- MODULE SelectionPages -----------------------------
(***************************************************************************)
(* The pages that show what the user selects: the executive's financial    *)
(* position and profitability of a period, the draw balance of a producer, *)
(* the attribution timeline of a placement, and the trends of a range,     *)
(* which are fetched month by month.  The answer to a call is the          *)
(* selection that it was asked for; answers arrive in any order.           *)
(***************************************************************************)
EXTENDS Naturals, FiniteSets, Sequences

CONSTANTS Selections,  \* what can be selected
          SelectCalls, \* slots for the calls of the page
          MaxSelects,  \* how often the user selects
          Days,        \* the days of the calendar, 1..n
          MonthOf,     \* Days -> month
          MAX_BUCKETS  \* 24 in the code

ASSUME CalendarAssumption ==
  /\ MaxSelects \in Nat /\ MAX_BUCKETS \in Nat \ {0}
  /\ IsFiniteSet(Days) /\ Days = 1..Cardinality(Days) /\ Days # {}
  /\ \A d \in Days : MonthOf[d] \in Nat
  /\ \A d \in Days : d + 1 \in Days => MonthOf[d + 1] \in {MonthOf[d], MonthOf[d] + 1}

VARIABLES openView, \* the page that is open
          selected, \* the latest selection
          shown,    \* what the page shows
          fetch,    \* the calls of the page
          selects   \* selections so far

selectVars == <<openView, selected, shown, fetch, selects>>

Guarded == {"ExecFinancialPosition", "ExecProfitability", "DrawBalanceView"}
Views == Guarded \cup {"AttributionTimeline", "ExecTrends"}

Nothing == "nothing"
Ranges == {<<first, last>> : first \in Days, last \in Days}

Fetch == [pc : {"idle", "sent", "done", "failed"}, of : Selections \cup {Nothing},
          round : 0..MaxSelects, from : Days, to : Days, place : 0..MAX_BUCKETS]

-----------------------------------------------------------------------------
LastOf(month) == CHOOSE d \in Days : /\ MonthOf[d] = month
                                     /\ \A e \in Days : MonthOf[e] = month => e <= d

BucketEnd(cursor, last) ==
  IF LastOf(MonthOf[cursor]) < last THEN LastOf(MonthOf[cursor]) ELSE last

(* The loop over a cursor: to the end of its month, then from the first of  *)
(* the next one; at most MAX_BUCKETS times.                                 *)
buildMonthlyBuckets(first, last) ==
  LET from[cursor \in 1..(Cardinality(Days) + 1)] ==
        IF cursor > last THEN << >>
        ELSE <<[start |-> cursor, end |-> BucketEnd(cursor, last)]>>
               \o from[LastOf(MonthOf[cursor]) + 1]
      all == IF first > last THEN << >> ELSE from[first]
  IN  SubSeq(all, 1, IF Len(all) < MAX_BUCKETS THEN Len(all) ELSE MAX_BUCKETS)

-----------------------------------------------------------------------------
NoFetch == [pc |-> "idle", of |-> Nothing, round |-> 0, from |-> 1, to |-> 1, place |-> 0]

NothingShown(phase) == [phase |-> phase, of |-> Nothing, buckets |-> << >>]

SelectTypeOK ==
  /\ openView \in Views
  /\ selected \in [of : Selections \cup {Nothing}, range : Ranges]
  /\ shown \in [phase : {"idle", "loading", "data", "error"}, of : Selections \cup {Nothing},
                buckets : Seq([start : Days, end : Days])]
  /\ Len(shown.buckets) <= MAX_BUCKETS
  /\ fetch \in [SelectCalls -> Fetch] /\ selects \in 0..MaxSelects
  /\ shown.phase = "loading" => \E s \in SelectCalls : fetch[s].pc # "idle"

SelectBegin ==
  /\ openView = "DrawBalanceView" /\ selected = [of |-> Nothing, range |-> <<1, 1>>]
  /\ shown = NothingShown("idle") /\ fetch = [s \in SelectCalls |-> NoFetch] /\ selects = 0

SelectInit ==
  /\ openView \in Views /\ selected = [of |-> Nothing, range |-> <<1, 1>>]
  /\ shown = NothingShown("idle") /\ fetch = [s \in SelectCalls |-> NoFetch] /\ selects = 0

Selecting(v) == openView = v /\ selects < MaxSelects /\ selects' = selects + 1 /\ UNCHANGED openView

(* Ways to give n new calls a slot. *)
Slots(n) == {slot \in [1..n -> SelectCalls] :
               /\ \A i, j \in 1..n : slot[i] = slot[j] => i = j
               /\ \A i \in 1..n : fetch[slot[i]].pc = "idle"}

(* A new selection starts a load, and what was shown is cleared.            *)
Select(v, c) ==
  /\ Selecting(v) /\ c # selected.of
  /\ selected' = [selected EXCEPT !.of = c]
  /\ shown' = NothingShown("loading")
  /\ Slots(1) # {}
  /\ LET s == (CHOOSE slot \in Slots(1) : TRUE)[1]
     IN  fetch' = [fetch EXCEPT ![s] = [NoFetch EXCEPT !.pc = "sent", !.of = c,
                                                       !.round = selects + 1]]

LoadFinancialPosition(c) == Select("ExecFinancialPosition", c)
LoadProfitability(c) == Select("ExecProfitability", c)
LoadDrawBalance(c) == Select("DrawBalanceView", c)
LoadTimeline(c) == Select("AttributionTimeline", c)

(* Its form is disabled while it loads; a range that is not one is told at  *)
(* once; otherwise every month is asked for at the same time.               *)
AskMonths(buckets) ==
  IF buckets = << >>
    THEN shown' = NothingShown("error") /\ UNCHANGED fetch
    ELSE LET slot == CHOOSE slot \in Slots(Len(buckets)) : TRUE
         IN  /\ Slots(Len(buckets)) # {}
             /\ shown' = NothingShown("loading")
             /\ fetch' = [s \in SelectCalls |->
                  IF \E i \in DOMAIN slot : slot[i] = s
                    THEN LET i == CHOOSE i \in DOMAIN slot : slot[i] = s
                         IN  [pc |-> "sent", of |-> Nothing, round |-> selects + 1,
                              from |-> buckets[i].start, to |-> buckets[i].end, place |-> i]
                    ELSE fetch[s]]

LoadTrends(first, last) ==
  /\ Selecting("ExecTrends") /\ shown.phase # "loading"
  /\ AskMonths(buildMonthlyBuckets(first, last))
  /\ selected' = [selected EXCEPT !.range = <<first, last>>]

FetchReplied(s, pc) ==
  /\ fetch[s].pc = "sent" /\ fetch' = [fetch EXCEPT ![s].pc = pc]
  /\ UNCHANGED <<openView, selected, shown, selects>>

-----------------------------------------------------------------------------
(* An answer reaches the page. *)
AnswerTaken(s) == fetch' = [fetch EXCEPT ![s] = NoFetch] /\ UNCHANGED <<openView, selected, selects>>

Latest(s) == fetch[s].round = selects

ShowAnswer(s) == IF fetch[s].pc = "done" THEN [NothingShown("data") EXCEPT !.of = fetch[s].of]
                                   ELSE NothingShown("error")

HearAnswer(s) ==
  /\ openView \in Guarded /\ fetch[s].pc \in {"done", "failed"} /\ AnswerTaken(s)
  /\ shown' = ShowAnswer(s)

(* The effect of an earlier selection is no longer active. *)
useAsync(s) ==
  /\ openView \in Guarded /\ fetch[s].pc \in {"done", "failed"} /\ AnswerTaken(s)
  /\ shown' = IF Latest(s) THEN ShowAnswer(s) ELSE shown

(* The loader of the timeline stores the events itself, active or not; only *)
(* the end of the loading is guarded.                                       *)
SetEvents(s) ==
  /\ openView = "AttributionTimeline" /\ fetch[s].pc \in {"done", "failed"} /\ AnswerTaken(s)
  /\ shown' = [shown EXCEPT
       !.of = IF fetch[s].pc = "done" THEN fetch[s].of ELSE @,
       !.phase = IF ~Latest(s) THEN @ ELSE IF fetch[s].pc = "done" THEN "data" ELSE "error"]

Months(round) == {s \in SelectCalls : fetch[s].pc # "idle" /\ fetch[s].round = round}

(* Promise.all: the results are in the order of the months, whatever order  *)
(* they came in.                                                            *)
AllMonths(round) ==
  /\ openView = "ExecTrends" /\ Months(round) # {}
  /\ \A s \in Months(round) : fetch[s].pc = "done"
  /\ shown' = [NothingShown("data") EXCEPT !.buckets =
       [i \in 1..Cardinality(Months(round)) |->
          LET s == CHOOSE s \in Months(round) : fetch[s].place = i
          IN  [start |-> fetch[s].from, end |-> fetch[s].to]]]
  /\ fetch' = [s \in SelectCalls |-> IF s \in Months(round) THEN NoFetch ELSE fetch[s]]
  /\ UNCHANGED <<openView, selected, selects>>

(* The first failure ends the wait; the other answers are not heard.        *)
MonthFailed(s) ==
  /\ openView = "ExecTrends" /\ fetch[s].pc = "failed"
  /\ shown' = NothingShown("error")
  /\ fetch' = [t \in SelectCalls |-> IF t \in Months(fetch[s].round) THEN NoFetch ELSE fetch[t]]
  /\ UNCHANGED <<openView, selected, selects>>

SelectNext ==
  \/ \E c \in Selections : \/ LoadFinancialPosition(c) \/ LoadProfitability(c)
                           \/ LoadDrawBalance(c) \/ LoadTimeline(c)
  \/ \E range \in Ranges : LoadTrends(range[1], range[2])
  \/ \E s \in SelectCalls : \/ FetchReplied(s, "done") \/ FetchReplied(s, "failed")
                      \/ useAsync(s) \/ SetEvents(s) \/ MonthFailed(s)
  \/ \E round \in 1..MaxSelects : AllMonths(round)

SelectSpec == SelectInit /\ [][SelectNext]_selectVars

-----------------------------------------------------------------------------
(* The figures on the screen are those of the period, or the producer, that *)
(* is selected on it, in whatever order the answers to earlier selections   *)
(* arrive.                                                                  *)
ShownIsSelected == openView \in Guarded /\ shown.phase = "data" => shown.of = selected.of

(* The trends on the screen are those of the latest range: each of its days *)
(* is in exactly one row, the rows are in order, and no row reaches outside *)
(* the range.  Only the months after the MAX_BUCKETS-th have no row.        *)
TrendsCoverRange ==
  openView = "ExecTrends" /\ shown.phase = "data" =>
    LET first == selected.range[1]
        last == selected.range[2]
        rows == shown.buckets
    IN  /\ \A d \in Days :
             LET of == {i \in DOMAIN rows : rows[i].start <= d /\ d <= rows[i].end}
             IN  /\ Cardinality(of) <= 1
                 /\ (of # {}) <=> /\ first <= d /\ d <= last
                                  /\ MonthOf[d] < MonthOf[first] + MAX_BUCKETS
        /\ \A i, j \in DOMAIN rows : i < j => rows[i].end < rows[j].start

(* Does not hold: the answer for the placement that was selected before is  *)
(* shown under the one that is selected now.                                *)
TimelineOfSelected ==
  openView = "AttributionTimeline" /\ shown.phase = "data" => shown.of = selected.of
=============================================================================
