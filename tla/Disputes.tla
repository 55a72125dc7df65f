-------------------------------- MODULE Disputes --------------------------------
(***************************************************************************)
(* Disputes about commission records, and the pages on which a manager, an *)
(* executive or a Finance Admin resolves them.                             *)
(*                                                                         *)
(* The resolve handler reads the dispute, updates it under a condition and *)
(* writes an audit entry; a call of a page is in one of these statements.  *)
(* A page keeps the list it loaded.  When its user leaves it, or the       *)
(* network fails, the server goes on with the call, and nobody waits for   *)
(* the answer.                                                             *)
(*                                                                         *)
(* No statement writes UnderReview: only seeded disputes are in that       *)
(* state.                                                                  *)
(***************************************************************************)
EXTENDS CommissionExceptions

CONSTANTS Disputes,      \* ids of disputes
          DisputedRecord,\* commission_record_id of a dispute
          Pages,         \* the users who resolve, each with a page
          KindOf,        \* which page it is
          Calls          \* slots for the resolve calls

ASSUME DisputedRecordAssumption == DisputedRecord \in [Disputes -> Records]
ASSUME KindOfAssumption == KindOf \in [Pages -> {"manager", "executive", "admin"}]
ASSUME NoDisputeAssumption == None \notin Disputes \cup Pages

VARIABLES dispute,   \* the table
          log,       \* audit entries dispute.resolved
          page, call

disputeVars == <<dispute, log, page, call>>

Dispute == [state : {"absent", "Submitted", "UnderReview", "Resolved"},
            by : Pages \cup {None}, link : Exceptions \cup {None}]

DisputePage == [list : SUBSET Disputes, selected : Disputes \cup {None}, saving : BOOLEAN,
                view : {"form", "confirmed", "error"}]

(* page: who waits for the answer, or None. *)
Call == [pc : {"idle", "check", "update", "audit", "answered"},
         page : Pages \cup {None}, user : Pages \cup {None},
         dispute : Disputes \cup {None}, link : Exceptions \cup {None},
         reply : {"none", "ok", "refused"}]

(* The button is disabled exactly while an answer is waited for. *)
DisputesTypeOK ==
  /\ dispute \in [Disputes -> Dispute]
  /\ log \subseteq [dispute : Disputes, by : Pages]
  /\ page \in [Pages -> DisputePage]
  /\ call \in [Calls -> Call]
  /\ \A p \in Pages : page[p].saving = \E c \in Calls : call[c].page = p

NoPage == [list |-> {}, selected |-> None, saving |-> FALSE, view |-> "form"]

NoCall == [pc |-> "idle", page |-> None, user |-> None, dispute |-> None, link |-> None,
           reply |-> "none"]

DisputesInit(state0) ==
  /\ dispute = [d \in Disputes |-> [state |-> state0[d], by |-> None, link |-> None]]
  /\ log = {}
  /\ page = [p \in Pages |-> NoPage]
  /\ call = [c \in Calls |-> NoCall]

-----------------------------------------------------------------------------
(* POST /disputes and POST /me/disputes; the record is a foreign key. *)
CreateDispute(d) ==
  /\ dispute[d].state = "absent"
  /\ Exists(DisputedRecord[d])
  /\ dispute' = [dispute EXCEPT ![d].state = "Submitted"]
  /\ UNCHANGED <<vars, log, page, call>>

-----------------------------------------------------------------------------
(* The pages *)

(* A manager is shown the open disputes, an executive those in UnderReview, *)
(* a Finance Admin all.                                                     *)
Listed(p) ==
  {d \in Disputes : CASE KindOf[p] = "manager" -> dispute[d].state \in {"Submitted", "UnderReview"}
                      [] KindOf[p] = "executive" -> dispute[d].state = "UnderReview"
                      [] OTHER -> dispute[d].state # "absent"}

Forget(p) == [c \in Calls |-> IF call[c].page = p THEN [call[c] EXCEPT !.page = None]
                                                  ELSE call[c]]

(* The page is loaded, or loaded again. *)
LoadPage(p) ==
  /\ page' = [page EXCEPT ![p] = [NoPage EXCEPT !.list = Listed(p)]]
  /\ call' = Forget(p)
  /\ UNCHANGED <<vars, dispute, log>>

(* Another dispute is chosen in the manager's form, even while one is       *)
(* saved, unless the confirmation has replaced the form; an executive goes  *)
(* back first.                                                              *)
SelectDispute(p, d) ==
  /\ d \in page[p].list /\ page[p].selected # d
  /\ IF KindOf[p] = "executive" THEN page[p].selected = None ELSE page[p].view # "confirmed"
  /\ page' = [page EXCEPT ![p].selected = d]
  /\ UNCHANGED <<vars, dispute, log, call>>

(* Back to the list, which is not loaded again: the view of the dispute is  *)
(* unmounted.                                                               *)
Back(p) ==
  /\ KindOf[p] = "executive" /\ page[p].selected # None
  /\ page' = [page EXCEPT ![p] = [NoPage EXCEPT !.list = page[p].list]]
  /\ call' = Forget(p)
  /\ UNCHANGED <<vars, dispute, log>>

(* A Finance Admin may name an exception; another foreign key. *)
Resolve(p, c, e) ==
  /\ page[p].selected # None /\ ~page[p].saving /\ page[p].view # "confirmed"
  /\ call[c].pc = "idle"
  /\ e # None => KindOf[p] = "admin" /\ exc[e] # "Absent"
  /\ page' = [page EXCEPT ![p].saving = TRUE, ![p].view = "form"]
  /\ call' = [call EXCEPT ![c] = [NoCall EXCEPT !.pc = "check", !.page = p, !.user = p,
                                                !.dispute = page[p].selected, !.link = e]]
  /\ UNCHANGED <<vars, dispute, log>>

(* The confirmation is of the dispute in the answer, whatever is selected   *)
(* in the form by now.                                                      *)
Answer(c) ==
  /\ call[c].pc = "answered"
  /\ page' = IF call[c].page = None THEN page
             ELSE [page EXCEPT ![call[c].page] =
                     IF call[c].reply = "ok"
                       THEN [@ EXCEPT !.saving = FALSE, !.view = "confirmed",
                                      !.selected = call[c].dispute]
                       ELSE [@ EXCEPT !.saving = FALSE, !.view = "error"]]
  /\ call' = [call EXCEPT ![c] = NoCall]
  /\ UNCHANGED <<vars, dispute, log>>

(* The network fails: the page shows an error, the server may go on. *)
LoseAnswer(c) ==
  /\ call[c].page # None
  /\ page' = [page EXCEPT ![call[c].page].saving = FALSE, ![call[c].page].view = "error"]
  /\ call' = [call EXCEPT ![c].page = None]
  /\ UNCHANGED <<vars, dispute, log>>

-----------------------------------------------------------------------------
(* POST /disputes/:id/resolve *)

GoOn(c, pc) == call' = [call EXCEPT ![c].pc = pc]

Reply(c, reply) == call' = [call EXCEPT ![c].pc = "answered", ![c].reply = reply]

CheckDispute(c) ==
  /\ call[c].pc = "check"
  /\ IF dispute[call[c].dispute].state = "Resolved" THEN Reply(c, "refused")
                                                     ELSE GoOn(c, "update")
  /\ UNCHANGED <<vars, dispute, log, page>>

ResolvedAs(row, c) == [row EXCEPT !.state = "Resolved", !.by = call[c].user,
                                  !.link = IF call[c].link = None THEN @ ELSE call[c].link]

(* Mutant: the handler goes on when the UPDATE returned no row. *)
UpdateUnchecked(c) ==
  /\ call[c].pc = "update"
  /\ dispute' = [dispute EXCEPT ![call[c].dispute] =
                   IF @.state = "Resolved" THEN @ ELSE ResolvedAs(@, c)]
  /\ GoOn(c, "audit")
  /\ UNCHANGED <<vars, log, page>>

UpdateDispute(c) ==
  /\ call[c].pc = "update"
  /\ IF dispute[call[c].dispute].state \in {"Submitted", "UnderReview"}
       THEN /\ dispute' = [dispute EXCEPT ![call[c].dispute] = ResolvedAs(@, c)]
            /\ GoOn(c, "audit")
       ELSE Reply(c, "refused") /\ UNCHANGED dispute
  /\ UNCHANGED <<vars, log, page>>

(* Best effort: the entry is written, or the answer is sent without it. *)
WriteAudit(c) ==
  /\ call[c].pc = "audit"
  /\ log' \in {log, log \cup {[dispute |-> call[c].dispute, by |-> call[c].user]}}
  /\ Reply(c, "ok")
  /\ UNCHANGED <<vars, dispute, page>>

(* A statement of the handler throws (500). *)
HandlerFails(c) ==
  /\ call[c].pc \in {"check", "update"}
  /\ Reply(c, "refused")
  /\ UNCHANGED <<vars, dispute, log, page>>

-----------------------------------------------------------------------------
DisputesNext ==
  \/ \E d \in Disputes : CreateDispute(d)
  \/ \E p \in Pages : \/ LoadPage(p) \/ Back(p)
                      \/ \E d \in Disputes : SelectDispute(p, d)
                      \/ \E c \in Calls, e \in Exceptions \cup {None} : Resolve(p, c, e)
  \/ \E c \in Calls : \/ Answer(c) \/ LoseAnswer(c)
                      \/ CheckDispute(c) \/ UpdateDispute(c) \/ WriteAudit(c) \/ HandlerFails(c)

-----------------------------------------------------------------------------
(* Who is told that the dispute is resolved by their decision is the one    *)
(* the table names, and nobody else is told so (handleResolveDispute, the   *)
(* confirmation of the pages).                                              *)
ConfirmedByResolver ==
  \A p \in Pages : page[p].view = "confirmed" =>
    dispute[page[p].selected].state = "Resolved" /\ dispute[page[p].selected].by = p

(* However many users resolve a dispute at the same moment, the first       *)
(* resolution stands: each audit entry is of a resolution that took place,  *)
(* and still names the user who made it (resolveDispute; the audit comes    *)
(* last in handleResolveDispute).                                           *)
AuditNamesResolver ==
  \A entry \in log : /\ dispute[entry.dispute].state = "Resolved"
                     /\ dispute[entry.dispute].by = entry.by

-----------------------------------------------------------------------------
(* What the pages promise and the program does not do. *)

(* "The designated tiebreaker will be notified to review": what a manager   *)
(* escalates is resolved, and no executive is shown it.                     *)
EscalatedStaysOpen ==
  \A p \in Pages : KindOf[p] = "manager" /\ page[p].view = "confirmed" =>
    dispute[page[p].selected].state = "UnderReview"

(* A dispute whose producer disputes it reaches the executive's list.       *)
SubmittedIsEscalated ==
  [][\A d \in Disputes : dispute[d].state = "Submitted" =>
                           dispute'[d].state # "Resolved"]_disputeVars
=============================================================================
