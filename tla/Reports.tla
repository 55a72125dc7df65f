-------------------------------- MODULE Reports --------------------------------
(***************************************************************************)
(* The figures of the Executive and of the Manager's team.  The executive  *)
(* analytics are put together from one SELECT after another, outside a     *)
(* transaction, while placements are dated, commission is calculated and   *)
(* released, exceptions are approved and contributors are deleted; the     *)
(* team summary is one SELECT.  The placements are those of PortalReads.   *)
(*                                                                         *)
(* A figure that is a single SUM or COUNT (clawback exposure, disputes) is *)
(* left out: there is nothing that it would have to agree with.            *)
(***************************************************************************)
EXTENDS PortalReads, FiniteSetsExt

CONSTANTS Credits,       \* ids of contributors
          Lines,         \* ids of commission records
          LineOf,        \* the contributor of a record
          PlaceOf,       \* the placement of a contributor
          ClientOf,      \* client_entity_id of a placement
          ProducerOf,    \* producer_id of a contributor
          NetOf,         \* net_payable of a record
          MaxExceptions, \* bound on the approved exceptions of a placement
          MaxChanges     \* bound on what changes while one report is made

ASSUME ReportsAssumption ==
  /\ LineOf \in [Lines -> Credits] /\ PlaceOf \in [Credits -> Deals]
  /\ NetOf \in [Lines -> Nat]
  /\ IsFiniteSet(Lines) /\ IsFiniteSet(Credits)
  /\ MaxExceptions \in Nat /\ MaxChanges \in Nat

VARIABLES dated,        \* placements whose start_date lies in the period
          line,         \* status of each commission record, or "absent"
          hired,        \* the contributors there are
          approved,     \* number of Approved exceptions of each placement
          report,
          changes

reportVars == <<dated, line, hired, approved, report, changes>>

LineStatuses == {"Accrued", "PendingApproval", "Approved", "Held", "Payable",
                 "ClawbackInitiated"}

Report == [pc : {"idle", "records", "exceptions", "producers", "done"},
           found : SUBSET Deals,                        \* placementRows
           lines : [Lines -> LineStatuses \cup {"absent"}],  \* commissionRows
           exceptional : Nat,                           \* placement_count
           known : SUBSET Credits]                      \* producerByContributorId

ReportsTypeOK ==
  /\ dated \subseteq Deals
  /\ line \in [Lines -> LineStatuses \cup {"absent"}]
  /\ hired \subseteq Credits
  /\ approved \in [Deals -> 0..MaxExceptions]
  /\ report \in Report
  /\ changes \in 0..MaxChanges

NoLines == [l \in Lines |-> "absent"]

Blank == [pc |-> "idle", found |-> {}, lines |-> NoLines, exceptional |-> 0,
          known |-> {}]

ReportsBegin ==
  /\ dated = {} /\ line = NoLines /\ approved = [d \in Deals |-> 0]
  /\ hired = Credits /\ report = Blank /\ changes = 0

(* A record refers to a contributor that exists. *)
ReportsInit ==
  /\ dated \in SUBSET Deals
  /\ line \in [Lines -> {"absent", "Held", "Approved", "ClawbackInitiated"}]
  /\ approved \in [Deals -> {0, MaxExceptions}]
  /\ hired = Credits /\ report = Blank /\ changes = 0

-----------------------------------------------------------------------------
(* What other requests change meanwhile. *)

Change == changes < MaxChanges /\ changes' = changes + 1

SetStart(d) ==
  /\ Change
  /\ dated' = IF d \in dated THEN dated \ {d} ELSE dated \cup {d}
  /\ UNCHANGED <<line, hired, approved, report>>

NextStatuses(status) ==
  CASE status = "absent"          -> {"Accrued", "Held"}
    [] status = "Accrued"         -> {"PendingApproval", "Approved", "ClawbackInitiated"}
    [] status = "PendingApproval" -> {"Approved", "ClawbackInitiated"}
    [] status = "Held"            -> {"Payable", "ClawbackInitiated"}
    [] status = "Payable"         -> {"ClawbackInitiated"}
    [] OTHER                      -> {}

MoveLine(l) ==
  /\ Change
  /\ LineOf[l] \in hired
  /\ \E status \in NextStatuses(line[l]) : line' = [line EXCEPT ![l] = status]
  /\ UNCHANGED <<dated, hired, approved, report>>

ApproveException(d) ==
  /\ Change
  /\ approved[d] < MaxExceptions
  /\ approved' = [approved EXCEPT ![d] = @ + 1]
  /\ UNCHANGED <<dated, line, hired, report>>

(* Mutant: no foreign key keeps the contributor of a record. *)
DismissAny(c) ==
  /\ Change
  /\ c \in hired
  /\ hired' = hired \ {c}
  /\ UNCHANGED <<dated, line, approved, report>>

(* The foreign key commission_records.contributor_id.                       *)
Dismiss(c) ==
  /\ Change
  /\ c \in hired
  /\ \A l \in Lines : LineOf[l] = c => line[l] = "absent"
  /\ hired' = hired \ {c}
  /\ UNCHANGED <<dated, line, approved, report>>

-----------------------------------------------------------------------------
(* GET /analytics/executive *)

ReadPlacements ==
  /\ report.pc = "idle"
  /\ report' = [Blank EXCEPT !.pc = "records", !.found = dated]
  /\ UNCHANGED <<dated, line, hired, approved, changes>>

(* The records of the placements found before, whatever their dates are     *)
(* by now.                                                                  *)
ReadRecords ==
  /\ report.pc = "records"
  /\ report' = [report EXCEPT !.pc = "exceptions",
                  !.lines = [l \in Lines |->
                    IF PlaceOf[LineOf[l]] \in report.found THEN line[l] ELSE "absent"]]
  /\ UNCHANGED <<dated, line, hired, approved, changes>>

ReadExceptions ==
  /\ report.pc = "exceptions"
  /\ report' = [report EXCEPT !.pc = "producers",
                  !.exceptional = Cardinality({d \in report.found : approved[d] > 0})]
  /\ UNCHANGED <<dated, line, hired, approved, changes>>

ReadProducers ==
  /\ report.pc = "producers"
  /\ report' = [report EXCEPT !.pc = "done",
                  !.known = {c \in hired : \E l \in Lines : LineOf[l] = c
                                              /\ report.lines[l] # "absent"}]
  /\ UNCHANGED <<dated, line, hired, approved, changes>>

(* The reply is sent, or a statement threw. *)
Publish ==
  /\ report.pc # "idle"
  /\ report' = Blank /\ changes' = 0
  /\ UNCHANGED <<dated, line, hired, approved>>

ReportsNext ==
  \/ \E d \in Deals : SetStart(d) \/ ApproveException(d)
  \/ \E l \in Lines : MoveLine(l)
  \/ \E c \in Credits : Dismiss(c)
  \/ ReadPlacements \/ ReadRecords \/ ReadExceptions \/ ReadProducers \/ Publish

ReportsSpec == ReportsInit /\ [][ReportsNext]_reportVars

-----------------------------------------------------------------------------
(* The figures.  table is line, or what a report read of it.                *)

Net(S) == MapThenSumSet(LAMBDA l : NetOf[l], S)

WithStatus(table, statuses) == {l \in Lines : table[l] \in statuses}

(* EXCLUDED_STATUSES: neither counted as income nor held by anybody.        *)
NetFeeIncome(table) == Net(WithStatus(table, LineStatuses \ {"ClawbackInitiated"}))

ExecutiveAccrued(table) == Net(WithStatus(table, {"Accrued", "PendingApproval"}))
Payable(table) == Net(WithStatus(table, {"Payable"}))
Held(table)    == Net(WithStatus(table, {"Held"}))

TeamAccrued(table) ==
  Net(WithStatus(table, {"Accrued", "PendingApproval", "Approved"}))

Clients == {ClientOf[d] : d \in Deals}
Producers == {ProducerOf[c] : c \in Credits}

CommissionBurden ==
  [client \in Clients |->
     Net({l \in WithStatus(report.lines, LineStatuses) :
            LET d == PlaceOf[LineOf[l]] IN d \in report.found /\ ClientOf[d] = client})]

NetByProducer ==
  [producer \in Producers |->
     Net({l \in WithStatus(report.lines, LineStatuses) :
            LineOf[l] \in report.known /\ ProducerOf[LineOf[l]] = producer})]

(* The profitability by client and the one by producer distribute the same  *)
(* commission, although contributors are deleted and placements leave the   *)
(* period between the statements they come from (getExecutiveAnalytics).    *)
BreakdownsAgree ==
  report.pc = "done" =>
    MapThenSumSet(LAMBDA c : CommissionBurden[c], Clients)
      = MapThenSumSet(LAMBDA p : NetByProducer[p], Producers)

(* Each record that a report has read is distributed to the client of its   *)
(* placement and to its producer: neither is lost to the report between the *)
(* statements that read them (getExecutiveAnalytics).                       *)
EachDistributed ==
  report.pc = "done" =>
    \A l \in Lines : report.lines[l] # "absent" =>
      PlaceOf[LineOf[l]] \in report.found /\ LineOf[l] \in report.known

(* exception_rate is the share of the period's placements: it cannot exceed *)
(* 1, however many exceptions a placement has or gets meanwhile.            *)
RateIsShare == report.exceptional <= Cardinality(report.found)

(* No commission is lost between the columns: those of a team add up to the *)
(* income that the executive sees of the same records (the status lists of  *)
(* getTeamCommissionSummary and of getExecutiveAnalytics).                  *)
TeamAddsUp == TeamAccrued(line) + Payable(line) + Held(line) = NetFeeIncome(line)

(* The figures of a report agree with each other, whatever changes between  *)
(* its statements.                                                          *)
FiguresAgree == BreakdownsAgree /\ RateIsShare /\ TeamAddsUp

-----------------------------------------------------------------------------
(* What does not hold of the executive's own columns: Approved commission   *)
(* is income, and in none of them.                                          *)
ExecutiveAddsUp ==
  ExecutiveAccrued(line) + Payable(line) + Held(line) = NetFeeIncome(line)
=============================================================================
