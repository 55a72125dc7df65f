------------------------------ MODULE PortalReads ------------------------------
(***************************************************************************)
(* The requests that show placements and commission to the people who work *)
(* on them: the lists of /placements, the ledger, the partner's deals, the *)
(* pages of a producer under /me, and what HR and Finance look up.  What a *)
(* reply may show depends on the role, on is_confidential, and on a second *)
(* statement that says which placements concern the reader; both change    *)
(* while it is served.                                                     *)
(*                                                                         *)
(* Of a placement only the job title is kept: it is masked together with   *)
(* the client, and everything else is shown to every reader.  Of a record, *)
(* a draw balance or a recovery schedule only that it is shown.            *)
(***************************************************************************)
EXTENDS Integers, FiniteSets

CONSTANTS Deals,         \* ids of placements
          Shares,        \* ids of the commission records of one producer
          DealOf,        \* placement_id of a commission record
          Readers,       \* slots for the requests being served
          ReaderRoles    \* the roles that send them

ASSUME DealOfAssumption == DealOf \in [Shares -> Deals] /\ IsFiniteSet(Deals)
ASSUME ReaderRolesAssumption ==
  /\ ReaderRoles # {}
  /\ ReaderRoles \subseteq {"FinanceAdmin", "Manager", "Executive", "HR", "Producer",
                            "ExternalPartner"}

VARIABLES secret,        \* placements with is_confidential
          narrow,        \* placements a second statement selects: those the
                         \* Manager overrides, or those in their guarantee window
          due,           \* commission records that the statements of /me find
          logged,        \* the requests there is an audit entry for
          ask

readVars == <<secret, narrow, due, logged, ask>>

Audited == {"list", "guaranteeList", "ledger", "get", "records", "payouts",
            "record", "held", "clawback", "exposure", "drawBalance"}

(* The partner's requests and the list of incomplete placements.            *)
Unaudited == {"incomplete", "partnerList", "partnerGet"}

ReadOps == Audited \cup Unaudited

(* Titles are masked by every handler except these two. *)
Open == {"ledger", "incomplete"}

PlacementLedgerRoles == {"FinanceAdmin", "Executive", "HR", "Manager"}

(* 403 for the other roles.  A Producer asks for nobody else's balance.     *)
MayAsk(op, role) ==
  CASE op = "ledger"      -> role \in PlacementLedgerRoles
    [] op = "partnerList" -> role \in {"ExternalPartner", "FinanceAdmin"}
    [] op = "payouts"     -> role # "ExternalPartner"
    [] op = "clawback"    -> role \in {"FinanceAdmin", "Manager"}
    [] op = "exposure"    -> role = "Producer"
    [] op = "drawBalance" -> role \in {"HR", "Producer"}
    [] OTHER              -> TRUE

Titles == {"none", "title", "Confidential"}

Ask == [pc : {"idle", "audit", "select", "narrow", "look", "answered"},
        op : ReadOps, role : ReaderRoles,
        shown : [Deals -> Titles],              \* of a list of placements
        rows : SUBSET Shares,                   \* of a list of records
        todo : SUBSET Shares,                   \* rows still to be looked up
        titles : [Shares -> Titles],            \* the title shown with a row
        was : SUBSET Deals,    \* history: placements public since it was received
        within : SUBSET Deals] \* history: placements in narrow since then

ReadsTypeOK ==
  /\ secret \subseteq Deals /\ narrow \subseteq Deals /\ due \subseteq Shares
  /\ logged \subseteq Readers
  /\ ask \in [Readers -> Ask]

Unheard == [pc |-> "idle", op |-> "get", role |-> CHOOSE role \in ReaderRoles : TRUE,
            shown |-> [d \in Deals |-> "none"], rows |-> {}, todo |-> {},
            titles |-> [s \in Shares |-> "none"], was |-> {}, within |-> {}]

(* Nothing was asked yet. *)
ReadsBegin == /\ secret = {} /\ narrow = {} /\ due = {} /\ logged = {}
              /\ ask = [q \in Readers |-> Unheard]

ReadsInit == /\ secret \in SUBSET Deals
             /\ narrow \in SUBSET Deals
             /\ due \in SUBSET Shares
             /\ logged = {}
             /\ ask = [q \in Readers |-> Unheard]

Asking(q, pc) == ask[q].pc = pc

-----------------------------------------------------------------------------
(* What other requests change meanwhile. *)

Toggle(d) ==
  /\ secret' = IF d \in secret THEN secret \ {d}
                                           ELSE secret \cup {d}
  /\ ask' = [q \in Readers |->
              IF Asking(q, "idle") \/ d \notin secret
                THEN ask[q] ELSE [ask[q] EXCEPT !.was = @ \cup {d}]]
  /\ UNCHANGED <<narrow, due, logged>>

Reassign(d) ==
  /\ narrow' = IF d \in narrow THEN narrow \ {d} ELSE narrow \cup {d}
  /\ ask' = [q \in Readers |->
              IF Asking(q, "idle") \/ d \in narrow
                THEN ask[q] ELSE [ask[q] EXCEPT !.within = @ \cup {d}]]
  /\ UNCHANGED <<secret, due, logged>>

BecomesDue(s) ==
  /\ s \notin due
  /\ due' = due \cup {s}
  /\ UNCHANGED <<secret, narrow, logged, ask>>

-----------------------------------------------------------------------------
(* shouldMask, and the same test in me.ts. *)

UnmaskedRoles == {"FinanceAdmin", "Manager"}

ShouldMask(role, isConfidential) == isConfidential /\ role \notin UnmaskedRoles

TitleFor(q, d) ==
  IF ask[q].op \notin Open /\ ShouldMask(ask[q].role, d \in secret)
    THEN "Confidential" ELSE "title"

(* 403 for a role that is not served; an audited request starts with the    *)
(* INSERT of its audit entry.                                               *)
Hear(q, op, role) ==
  /\ Asking(q, "idle")
  /\ MayAsk(op, role)
  /\ ask' = [ask EXCEPT ![q] = [Unheard EXCEPT
                !.pc = IF op \in Audited THEN "audit" ELSE "select",
                !.op = op, !.role = role,
                !.was = Deals \ secret, !.within = narrow]]
  /\ UNCHANGED <<secret, narrow, due, logged>>

(* A failure may come after the entry was written; either way nothing is    *)
(* read then, and the reply is 500.                                         *)
SensitiveRead(q) ==
  /\ Asking(q, "audit")
  /\ \/ /\ logged' = logged \cup {q}
        /\ ask' = [ask EXCEPT ![q].pc = "select"]
     \/ /\ logged' = logged
        /\ ask' = [ask EXCEPT ![q] = Unheard]
  /\ UNCHANGED <<secret, narrow, due>>

Show(q, found) == [d \in Deals |-> IF d \in found THEN TitleFor(q, d) ELSE "none"]

(* What one SELECT returns: titles and flags together.  Which rows are      *)
(* incomplete, or the partner's, is left open.                              *)
ListPlacements(q) ==
  /\ Asking(q, "select") /\ ask[q].op \in {"list", "guaranteeList"}
  /\ ask' = [ask EXCEPT ![q].pc = IF ask[q].op = "list" THEN "answered" ELSE "narrow",
                         ![q].shown = Show(q, Deals)]
  /\ UNCHANGED <<secret, narrow, due, logged>>

ListPlacementLedger(q) ==
  /\ Asking(q, "select") /\ ask[q].op = "ledger"
  /\ ask' = [ask EXCEPT ![q].pc = IF ask[q].role = "Manager" THEN "narrow" ELSE "answered",
                         ![q].shown = Show(q, Deals)]
  /\ UNCHANGED <<secret, narrow, due, logged>>

GetPlacement(q) ==
  /\ Asking(q, "select") /\ ask[q].op = "get"
  /\ \E d \in Deals : ask' = [ask EXCEPT ![q].pc = "answered", ![q].shown = Show(q, {d})]
  /\ UNCHANGED <<secret, narrow, due, logged>>

ListIncompletePlacements(q) ==
  /\ Asking(q, "select") /\ ask[q].op = "incomplete"
  /\ \E S \in SUBSET Deals :
       ask' = [ask EXCEPT ![q].pc = "answered", ![q].shown = Show(q, S)]
  /\ UNCHANGED <<secret, narrow, due, logged>>

GetPartnerPlacement(q) ==
  /\ Asking(q, "select") /\ ask[q].op = "partnerGet"
  /\ \E d \in Deals : ask' = [ask EXCEPT ![q].pc = "answered", ![q].shown = Show(q, {d})]
  /\ UNCHANGED <<secret, narrow, due, logged>>

ListPartnerPlacements(q) ==
  /\ Asking(q, "select") /\ ask[q].op = "partnerList"
  /\ \E S \in SUBSET Deals :
       ask' = [ask EXCEPT ![q].pc = "answered", ![q].shown = Show(q, S)]
  /\ UNCHANGED <<secret, narrow, due, logged>>

(* A second statement: the placements a Manager overrides, or those in      *)
(* their guarantee window.                                                  *)
Narrow(q) ==
  /\ Asking(q, "narrow")
  /\ ask' = [ask EXCEPT ![q].pc = "answered",
               ![q].shown = [d \in Deals |-> IF d \in narrow THEN @[d] ELSE "none"]]
  /\ UNCHANGED <<secret, narrow, due, logged>>

-----------------------------------------------------------------------------
(* Records, and what is kept with them. *)

ShowShares(q, S) == /\ ask' = [ask EXCEPT ![q].pc = "answered", ![q].rows = S]
                    /\ UNCHANGED <<secret, narrow, due, logged>>

GetCommissionRecord(q) ==
  /\ Asking(q, "select") /\ ask[q].op = "record"
  /\ \E S \in SUBSET due : Cardinality(S) <= 1 /\ ShowShares(q, S)

(* Nothing is listed, and nothing logged, without ?reason=.                 *)
ListHeldRecords(q) ==
  /\ Asking(q, "select") /\ ask[q].op = "held"
  /\ \E S \in SUBSET due : ShowShares(q, S)

GetPlacementClawback(q) ==
  /\ Asking(q, "select") /\ ask[q].op = "clawback"
  /\ \E d \in Deals : ShowShares(q, {s \in due : DealOf[s] = d})

GetClawbackExposure(q) ==
  /\ Asking(q, "select") /\ ask[q].op = "exposure"
  /\ ShowShares(q, due)

GetDrawBalance(q) ==
  /\ Asking(q, "select") /\ ask[q].op = "drawBalance"
  /\ ShowShares(q, due)

-----------------------------------------------------------------------------
(* GET /me/commission-records and GET /me/payouts *)

(* ?status= selects some of them. *)
ListMyRecords(q) ==
  /\ Asking(q, "select") /\ ask[q].op = "records"
  /\ \E S \in SUBSET due :
       ask' = [ask EXCEPT ![q].rows = S, ![q].todo = S, ![q].pc = "look"]
  /\ UNCHANGED <<secret, narrow, due, logged>>

ListMyPayouts(q) ==
  /\ Asking(q, "select") /\ ask[q].op = "payouts"
  /\ ask' = [ask EXCEPT ![q].rows = due, ![q].todo = due, ![q].pc = "look"]
  /\ UNCHANGED <<secret, narrow, due, logged>>

(* The lookup of a placement may fail; its title is left out then.  The     *)
(* records of a page each look theirs up, at the same time.                 *)
LookEach(q, s) ==
  /\ Asking(q, "look") /\ ask[q].op = "records" /\ s \in ask[q].todo
  /\ \E title \in {"none", TitleFor(q, DealOf[s])} :
       ask' = [ask EXCEPT ![q].todo = @ \ {s}, ![q].titles[s] = title]
  /\ UNCHANGED <<secret, narrow, due, logged>>

(* Mutant: no title is kept for the other payouts of the placement. *)
LookForEachPayout(q, s) ==
  /\ Asking(q, "look") /\ ask[q].op = "payouts" /\ s \in ask[q].todo
  /\ ask' = [ask EXCEPT ![q].todo = @ \ {s}, ![q].titles[s] = TitleFor(q, DealOf[s])]
  /\ UNCHANGED <<secret, narrow, due, logged>>

(* Payouts look them up one after the other, once for each placement        *)
(* (placementCache); after a lookup that failed the next payout of the      *)
(* placement tries again.                                                   *)
LookForPayout(q, s) ==
  /\ Asking(q, "look") /\ ask[q].op = "payouts" /\ s \in ask[q].todo
  /\ LET kept == ask[q].titles[s]
     IN \E title \in IF kept # "none" THEN {kept} ELSE {"none", TitleFor(q, DealOf[s])} :
          ask' = [ask EXCEPT ![q].todo = @ \ {s},
                             ![q].titles = [x \in Shares |->
                                IF DealOf[x] = DealOf[s] THEN title ELSE @[x]]]
  /\ UNCHANGED <<secret, narrow, due, logged>>

Looked(q) ==
  /\ Asking(q, "look") /\ ask[q].todo = {}
  /\ ask' = [ask EXCEPT ![q].pc = "answered"]
  /\ UNCHANGED <<secret, narrow, due, logged>>

(* The reply was sent, or a statement threw: 500.                           *)
Answered(q) ==
  /\ ~Asking(q, "idle") /\ ~Asking(q, "audit")
  /\ ask' = [ask EXCEPT ![q] = Unheard]
  /\ logged' = logged \ {q}
  /\ UNCHANGED <<secret, narrow, due>>

ReadsNext ==
  \/ \E d \in Deals : Toggle(d) \/ Reassign(d)
  \/ \E s \in Shares : BecomesDue(s)
  \/ \E q \in Readers :
       \/ \E op \in ReadOps, role \in ReaderRoles : Hear(q, op, role)
       \/ SensitiveRead(q)
       \/ ListPlacements(q) \/ ListPlacementLedger(q) \/ GetPlacement(q) \/ Narrow(q)
       \/ ListIncompletePlacements(q) \/ GetPartnerPlacement(q) \/ ListPartnerPlacements(q)
       \/ GetCommissionRecord(q) \/ ListHeldRecords(q) \/ GetPlacementClawback(q)
       \/ GetClawbackExposure(q) \/ GetDrawBalance(q)
       \/ ListMyRecords(q) \/ ListMyPayouts(q)
       \/ \E s \in Shares : LookEach(q, s) \/ LookForPayout(q, s)
       \/ Looked(q) \/ Answered(q)

ReadsSpec == ReadsInit /\ [][ReadsNext]_readVars

-----------------------------------------------------------------------------
Answer(q) == Asking(q, "answered")

(* A title that reaches a reader whose role is masked belongs to a placement *)
(* that was public at some moment since the request was received, however   *)
(* the flag is switched between its statements and whichever of them fails  *)
(* (shouldMask, and the lookups of /me).                                    *)
TitlesMasked ==
  \A q \in Readers : Answer(q) /\ ask[q].op \notin Open
                     /\ ask[q].role \notin UnmaskedRoles =>
    /\ \A d \in Deals : ask[q].shown[d] = "title" => d \in ask[q].was
    /\ \A s \in Shares : ask[q].titles[s] = "title" => DealOf[s] \in ask[q].was

(* An audited request that holds anything it read has its entry in the      *)
(* audit log, a write that failed halfway included (sensitiveRead).         *)
NoUnloggedData ==
  \A q \in Readers :
    ask[q].op \in Audited /\ ~Asking(q, "idle") /\ ~Asking(q, "audit") => q \in logged

(* One page of payouts names a placement the same way in all of its rows,   *)
(* although it looks placements up one by one (handleGetMyPayouts).         *)
PayoutsAgree ==
  \A q \in Readers : Answer(q) /\ ask[q].op = "payouts" =>
    \A s, x \in ask[q].rows : DealOf[s] = DealOf[x] => ask[q].titles[s] = ask[q].titles[x]

(* A Manager's ledger has only placements the Manager was assigned to while *)
(* it was made, although they are read before the assignments are           *)
(* (handleListPlacementLedger, and the same way guarantee=active).          *)
ScopeKept ==
  \A q \in Readers : Answer(q) /\ (ask[q].op = "guaranteeList"
                                    \/ (ask[q].op = "ledger" /\ ask[q].role = "Manager")) =>
    \A d \in Deals : ask[q].shown[d] # "none" => d \in ask[q].within

(* Who reads sees what the reader may see, the same in every row, and       *)
(* leaves a trace where one is asked for.                                   *)
ReadsSound == TitlesMasked /\ NoUnloggedData /\ PayoutsAgree /\ ScopeKept

-----------------------------------------------------------------------------
(* What does not hold: GET /me/commission-records looks the placement of    *)
(* each row up on its own.                                                  *)
RecordsAgree ==
  \A q \in Readers : Answer(q) /\ ask[q].op = "records" =>
    \A s, x \in ask[q].rows : DealOf[s] = DealOf[x] => ask[q].titles[s] = ask[q].titles[x]
=============================================================================
