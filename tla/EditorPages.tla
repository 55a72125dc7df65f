------------------------------ MODULE EditorPages ------------------------------
(***************************************************************************)
(* The pages of the browser that change the rows of one placement and then *)
(* fetch them again: the contributor panel and the case list of            *)
(* components/finance/PlacementLedger.tsx, the producer assignments of     *)
(* components/placements/PlacementLedger.tsx, InvoiceCollection.tsx,       *)
(* AdjustmentLedger.tsx and SplitApproval.tsx.  A behaviour is about one   *)
(* page and one user; a row is a contributor, a placement, an adjustment,  *)
(* an amount of a phase or a deal that waits for approval.                 *)
(*                                                                         *)
(* A call is sent, done or refused by the server, and answered.  Answers   *)
(* arrive in any order, and the answer to a change that was made may be    *)
(* lost.  The call that follows an answer takes its slot.                  *)
(***************************************************************************)
EXTENDS Naturals

CONSTANTS Items,     \* rows, by id
          EditSlots, \* slots for the calls of the page
          MaxEdits   \* how often the user clicks

ASSUME EditsAssumption == MaxEdits \in Nat

VARIABLES page,       \* the page that is open
          stored,     \* the rows that the server has
          screen,     \* its list, and the errors that it shows
          ledger,     \* the table behind the modal of the producer assignments
          refreshKey, \* the number of the latest load of the list
          call,       \* the calls
          edits,      \* clicks so far
          astray,     \* whether the answer to a change was lost
          overlapped \* whether the user clicked while a call was open

pageVars == <<page, stored, screen, ledger, refreshKey, call, edits, astray, overlapped>>

NoItem == "none"
Pages == {"panel", "assignments", "cases", "collection", "adjustments", "splits", "pending"}

PageCall == [pc : {"idle", "sent", "done", "failed"}, op : {"load", "ledger", "add", "remove"},
         item : Items \cup {NoItem}, then : Items \cup {NoItem, "list"}, key : Nat,
         seen : SUBSET Items]

(* told: the rows and the forms that show an error, "list" if the error of  *)
(* the form is that the list could not be loaded again.  dismissed: history,*)
(* the user has clicked that error away and the list was not loaded since.  *)
PageScreen == [phase : {"loading", "list", "error"}, rows : SUBSET Items,
               told : SUBSET (Items \cup {"form", "list"}), dismissed : BOOLEAN]

PageLedger == [rows : SUBSET Items, error : BOOLEAN]

PagesTypeOK ==
  /\ page \in Pages /\ stored \subseteq Items
  /\ screen \in PageScreen /\ ledger \in PageLedger
  /\ refreshKey \in Nat /\ edits \in 0..MaxEdits
  /\ call \in [EditSlots -> PageCall]
  /\ \A s \in EditSlots : call[s].key <= refreshKey

NoEdit == [pc |-> "idle", op |-> "load", item |-> NoItem, then |-> NoItem, key |-> 0,
         seen |-> {}]

EditRequest(op, item, then, key) ==
  [pc |-> "sent", op |-> op, item |-> item, then |-> then, key |-> key, seen |-> {}]

LoadRequest(k) == EditRequest("load", NoItem, NoItem, k)

(* The modal of the producer assignments opens with the rows of the ledger; *)
(* every other page loads its list when it is mounted.                      *)
PagesInit ==
  /\ page \in Pages /\ stored \in SUBSET Items
  /\ ledger = [rows |-> stored, error |-> FALSE]
  /\ screen = IF page = "assignments"
                THEN [phase |-> "list", rows |-> stored, told |-> {}, dismissed |-> FALSE]
                ELSE [phase |-> "loading", rows |-> {}, told |-> {}, dismissed |-> FALSE]
  /\ \E s \in EditSlots :
       call = [t \in EditSlots |->
                 IF t = s /\ page # "assignments" THEN LoadRequest(0) ELSE NoEdit]
  /\ refreshKey = 0 /\ edits = 0 /\ astray = FALSE /\ overlapped = FALSE

(* A behaviour that is not about a page. *)
PagesBegin ==
  /\ page = "pending" /\ stored = {} /\ ledger = [rows |-> {}, error |-> FALSE]
  /\ screen = [phase |-> "list", rows |-> {}, told |-> {}, dismissed |-> FALSE]
  /\ call = [s \in EditSlots |-> NoEdit]
  /\ refreshKey = 0 /\ edits = 0 /\ astray = FALSE /\ overlapped = FALSE

Waiting(s) == call[s].pc # "idle"
Busy(i) == \E s \in EditSlots : Waiting(s) /\ (call[s].item = i \/ call[s].then = i)
Saving == \E s \in EditSlots : Waiting(s) /\ call[s].op = "add"
Listed(i) == screen.phase = "list" /\ i \in screen.rows

(* A row that was mounted anew does not know of a call sent before.         *)
RowSaving(i) ==
  \E s \in EditSlots : /\ Waiting(s) /\ call[s].op \in {"add", "remove"}
                      /\ i \in {call[s].item, call[s].then} /\ call[s].key = refreshKey

NewItem(i) == /\ i \notin stored \cup screen.rows \cup ledger.rows /\ ~Busy(i)
            /\ \A s \in EditSlots : i \notin call[s].seen

-----------------------------------------------------------------------------
(* What the user clicks, with the buttons and the forms as each component   *)
(* renders and disables them.                                               *)

(* Where the error of a change is shown: in its row, or in the form; the    *)
(* panel ignores a removal that fails.                                      *)
ErrorOf(op, i) == CASE page \in {"splits", "pending"}     -> {i}
                    [] page = "panel" /\ op = "remove"    -> {}
                    [] OTHER                              -> {"form"}

(* setError(null): what was told there is gone.                             *)
ClearError(op, i) ==
  screen' = [screen EXCEPT
    !.told = @ \ (IF page = "assignments" THEN {"form", "list"} ELSE ErrorOf(op, i)),
    !.dismissed = @ \/ "list" \in screen.told]

Click(p, op, i, then) ==
  /\ page = p /\ edits < MaxEdits /\ edits' = edits + 1
  /\ ClearError(op, i)
  /\ \E s \in EditSlots : /\ ~Waiting(s)
                          /\ call' = [call EXCEPT ![s] = EditRequest(op, i, then, refreshKey)]
  /\ overlapped' = (overlapped \/ \E s \in EditSlots : Waiting(s))
  /\ UNCHANGED <<page, stored, ledger, refreshKey, astray>>

(* finance/PlacementLedger: one assignment at a time, any removal; a new    *)
(* case while the list may still be loading.                                *)
ContributorPanel(i) ==
  \/ ~Saving /\ NewItem(i) /\ Click("panel", "add", i, NoItem)
  \/ Listed(i) /\ Click("panel", "remove", i, NoItem)

NewPlacementForm(i) == ~Saving /\ NewItem(i) /\ Click("cases", "add", i, NoItem)

(* placements/PlacementLedger: neither button is disabled.                  *)
ProducerAssignments(i) ==
  \/ NewItem(i) /\ Click("assignments", "add", i, "list")
  \/ Listed(i) /\ Click("assignments", "remove", i, NoItem)

(* A card or a form is mounted only while the list is shown.                *)
PhaseCard(i) ==
  screen.phase = "list" /\ NewItem(i) /\ Click("collection", "add", i, NoItem)

TriggerForm(i) ==
  screen.phase = "list" /\ ~Saving /\ NewItem(i) /\ Click("adjustments", "add", i, NoItem)

(* A split is changed by removing the row and adding another.               *)
ContributorRow(i, j) ==
  Listed(i) /\ ~RowSaving(i) /\ NewItem(j) /\ Click("splits", "remove", i, j)

DealRow(i) == Listed(i) /\ ~RowSaving(i) /\ Click("pending", "remove", i, NoItem)

-----------------------------------------------------------------------------
(* The server. *)

Became(s, pc, seen) == call' = [call EXCEPT ![s].pc = pc, ![s].seen = seen]

Serve(s) ==
  /\ call[s].pc = "sent"
  /\ Became(s, "done", IF call[s].op \in {"load", "ledger"} THEN stored ELSE {})
  /\ CASE call[s].op = "add"    -> stored' = stored \cup {call[s].item}
       [] call[s].op = "remove" -> /\ call[s].item \in stored
                                   /\ stored' = stored \ {call[s].item}
       [] OTHER                 -> UNCHANGED stored
  /\ UNCHANGED <<page, screen, ledger, refreshKey, edits, astray, overlapped>>

Refuse(s) ==
  /\ call[s].pc = "sent" /\ Became(s, "failed", {})
  /\ UNCHANGED <<page, stored, screen, ledger, refreshKey, edits, astray, overlapped>>

LoseAnswer(s) ==
  /\ call[s].pc = "done" /\ Became(s, "failed", {})
  /\ astray' = (astray \/ call[s].op \in {"add", "remove"})
  /\ UNCHANGED <<page, stored, screen, ledger, refreshKey, edits, overlapped>>

-----------------------------------------------------------------------------
(* What a page does with an answer. *)

Then(s, request) == call' = [call EXCEPT ![s] = request]

Answers(s, p, op, pc) ==
  /\ page = p /\ call[s].op = op /\ call[s].pc = pc
  /\ UNCHANGED <<page, stored, edits, astray, overlapped>>

ShowRows(rows) == screen' = [screen EXCEPT !.phase = "list", !.rows = rows]

(* useAsync: a load that was superseded is not heard.                       *)
UseAsyncUnguarded(s) ==
  /\ \E p \in Pages \ {"assignments"} : Answers(s, p, "load", "done")
  /\ ShowRows(call[s].seen) /\ Then(s, NoEdit)
  /\ UNCHANGED <<ledger, refreshKey>>

UseAsync(s) ==
  /\ \E p \in Pages \ {"assignments"} : Answers(s, p, "load", "done")
  /\ IF call[s].key = refreshKey THEN ShowRows(call[s].seen) ELSE UNCHANGED screen
  /\ Then(s, NoEdit)
  /\ UNCHANGED <<ledger, refreshKey>>

UseAsyncError(s) ==
  /\ \E p \in Pages \ {"assignments"} : Answers(s, p, "load", "failed")
  /\ screen' = IF call[s].key = refreshKey THEN [screen EXCEPT !.phase = "error"] ELSE screen
  /\ Then(s, NoEdit)
  /\ UNCHANGED <<ledger, refreshKey>>

(* The refresh key goes up: the list is unmounted, with the errors of its   *)
(* rows, cards and forms, and loaded again; the form of the panel stays.    *)
Refresh(s) ==
  /\ refreshKey' = refreshKey + 1 /\ Then(s, LoadRequest(refreshKey + 1))
  /\ screen' = [screen EXCEPT !.phase = "loading", !.rows = {},
                              !.told = IF page = "panel" THEN @ ELSE {}]
  /\ UNCHANGED ledger

PanelSaved(s) ==
  (\E op \in {"add", "remove"} : Answers(s, "panel", op, "done")) /\ Refresh(s)

InvoiceCollection(s) == Answers(s, "collection", "add", "done") /\ Refresh(s)

AdjustmentLedger(s) == Answers(s, "adjustments", "add", "done") /\ Refresh(s)

(* The second call goes out only after the first one was answered; only     *)
(* both together refresh the table, and end the saving of the row.          *)
HandleUpdateContributor(s) ==
  /\ Answers(s, "splits", "remove", "done")
  /\ Then(s, EditRequest("add", call[s].then, call[s].item, call[s].key))
  /\ UNCHANGED <<screen, ledger, refreshKey>>

ContributorTable(s) == Answers(s, "splits", "add", "done") /\ Refresh(s)

(* The approval page has no second fetch: it drops what was decided.        *)
HandleApproved(s) ==
  /\ Answers(s, "pending", "remove", "done")
  /\ screen' = [screen EXCEPT !.rows = @ \ {call[s].item}] /\ Then(s, NoEdit)
  /\ UNCHANGED <<ledger, refreshKey>>

HandleCreated(s) ==
  /\ Answers(s, "cases", "add", "done")
  /\ screen' = [screen EXCEPT !.rows = @ \cup {call[s].item},
                              !.phase = IF @ = "error" THEN @ ELSE "list"]
  /\ Then(s, NoEdit)
  /\ UNCHANGED <<ledger, refreshKey>>

(* The assignments reload the table behind the modal, without a guard, and  *)
(* after an addition their own list.                                        *)
Added(s) ==
  /\ Answers(s, "assignments", "add", "done")
  /\ Then(s, EditRequest("ledger", NoItem, call[s].then, 0))
  /\ UNCHANGED <<screen, ledger, refreshKey>>

Removed(s) ==
  /\ Answers(s, "assignments", "remove", "done")
  /\ screen' = [screen EXCEPT !.rows = @ \ {call[s].item}]
  /\ Then(s, EditRequest("ledger", NoItem, NoItem, 0))
  /\ UNCHANGED <<ledger, refreshKey>>

LoadLedger(s) ==
  /\ \E pc \in {"done", "failed"} : Answers(s, "assignments", "ledger", pc)
  /\ ledger' = IF call[s].pc = "done" THEN [rows |-> call[s].seen, error |-> FALSE]
                                      ELSE [ledger EXCEPT !.error = TRUE]
  /\ Then(s, IF call[s].then = "list" THEN LoadRequest(refreshKey) ELSE NoEdit)
  /\ UNCHANGED <<screen, refreshKey>>

SetContributors(s) ==
  /\ \E pc \in {"done", "failed"} : Answers(s, "assignments", "load", pc)
  /\ screen' = IF call[s].pc = "done"
                  THEN [screen EXCEPT !.phase = "list", !.rows = call[s].seen, !.dismissed = FALSE]
                  ELSE [screen EXCEPT !.told = (@ \ {"form"}) \cup {"list"}]
  /\ Then(s, NoEdit)
  /\ UNCHANGED <<ledger, refreshKey>>

(* A change that failed is told where it was asked for; the error of a card,*)
(* a form or a row that is no longer mounted goes nowhere.                  *)
Unmounted(s) ==
  page \in {"collection", "adjustments", "splits"} /\ call[s].key # refreshKey

ChangeFailed(s) ==
  /\ \E p \in Pages, op \in {"add", "remove"} : Answers(s, p, op, "failed")
  /\ LET row == IF page = "splits" /\ call[s].op = "add" THEN call[s].then ELSE call[s].item
     IN  screen' = IF Unmounted(s) THEN screen
                   ELSE [screen EXCEPT !.told = (@ \ {"list"}) \cup ErrorOf(call[s].op, row)]
  /\ Then(s, NoEdit)
  /\ UNCHANGED <<ledger, refreshKey>>

PagesNext ==
  \/ \E i \in Items : \/ ContributorPanel(i) \/ NewPlacementForm(i) \/ ProducerAssignments(i)
                      \/ PhaseCard(i) \/ TriggerForm(i) \/ DealRow(i)
                      \/ \E j \in Items : ContributorRow(i, j)
  \/ \E s \in EditSlots : \/ Serve(s) \/ Refuse(s) \/ LoseAnswer(s)
                      \/ UseAsync(s) \/ UseAsyncError(s) \/ PanelSaved(s)
                      \/ InvoiceCollection(s) \/ AdjustmentLedger(s)
                      \/ HandleUpdateContributor(s) \/ ContributorTable(s)
                      \/ HandleApproved(s) \/ HandleCreated(s)
                      \/ Added(s) \/ Removed(s) \/ LoadLedger(s) \/ SetContributors(s)
                      \/ ChangeFailed(s)

PagesSpec == PagesInit /\ [][PagesNext]_pageVars

-----------------------------------------------------------------------------
Quiet == \A s \in EditSlots : ~Waiting(s)
Settled == Quiet /\ ~astray /\ screen.phase = "list"

(* However the clicks overlap and in whatever order the answers come, a page *)
(* that refetches through useAsync ends with the rows that the server has:   *)
(* the load of the last refresh was sent after every change was answered.    *)
GuardedPagesTell ==
  page \in {"panel", "collection", "adjustments"} /\ Settled => screen.rows = stored

(* The pages that patch their own list, load it without a guard, or change a *)
(* row by two calls end with what the server has when the user waits for one *)
(* change before the next.  A split that was only removed is told in its     *)
(* row.  Assignments that could not be loaded again after an addition are    *)
(* told in the form; if the user clicks that away, the added row may stay    *)
(* missing, but still no row is shown that is not stored.                    *)
PatientPagesTell ==
  Settled /\ ~overlapped =>
    /\ page \in {"cases", "pending"} => screen.rows = stored
    /\ page = "splits" /\ screen.told = {} => screen.rows = stored
    /\ page = "assignments" =>
         /\ screen.rows \subseteq stored
         /\ screen.rows = stored \/ "list" \in screen.told \/ screen.dismissed
         /\ ledger.error \/ ledger.rows = stored

(* A deal leaves the approval list only when it was decided, however many    *)
(* are decided at once and whatever is refused or lost.                      *)
DecidedLeave == page = "pending" /\ screen.phase = "list" => stored \subseteq screen.rows

(* What the pages show when they come to rest is what is stored.            *)
PagesTell == GuardedPagesTell /\ PatientPagesTell /\ DecidedLeave

(* Does not hold: the assignments could not be loaded again after an         *)
(* addition, and the next removal clears the error without loading them.     *)
AddedShown ==
  page = "assignments" /\ Settled /\ ~overlapped /\ screen.told = {} => screen.rows = stored

(* Does not hold: two removals whose reloads are answered in the other order *)
(* leave a removed producer in the ledger.                                   *)
LedgerFresh == page = "assignments" /\ Settled /\ ~ledger.error => ledger.rows = stored

(* Does not hold: the table is being refreshed for one row when the second   *)
(* call for another is refused, so that nobody is told; and the answer may   *)
(* have been read before the row was removed.                                *)
SplitsFresh == page = "splits" /\ Settled /\ screen.told = {} => screen.rows = stored

(* Does not hold: the first load, read before the case was created, is       *)
(* answered after it and takes it off the list.                              *)
CreatedShown == page = "cases" /\ Settled => screen.rows = stored
=============================================================================
