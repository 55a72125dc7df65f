------------------------------ MODULE PlanVersions ------------------------------
(***************************************************************************)
(* Commission plans: their versions, which of them is in force, who is     *)
(* assigned to them and who acknowledged them.                             *)
(*                                                                         *)
(* A statement of PostgreSQL works on the snapshot taken when it starts,   *)
(* and tests a row that another statement changed meanwhile once more.     *)
(* The two statements for which this matters, the activation of a version  *)
(* and the INSERT that numbers one, are two steps here: one takes the      *)
(* snapshot (seen), the other changes the rows.                            *)
(***************************************************************************)
EXTENDS Naturals, FiniteSetsExt

CONSTANTS Plans, Versions, Producers,
          PlanOf,       \* the plan_id of a version
          Requests,     \* slots for the requests being served
          None,         \* NULL
          Failures      \* TRUE: a statement may throw, which ends its request

ASSUME PlanOfAssumption == PlanOf \in [Versions -> Plans]
ASSUME NoneAssumption == None \notin Plans /\ None \notin Versions /\ None \notin Producers
ASSUME FailuresAssumption == Failures \in BOOLEAN

VARIABLES plans,      \* the plans that exist
          version,    \* plan_versions: status and number
          assigned,   \* plan_assignments
          acks,       \* plan_acknowledgments
          audited,    \* audit entries plan_version.acknowledged, counted
          req

tables == <<plans, version, assigned, acks, audited>>
vars == <<plans, version, assigned, acks, audited, req>>

States == {"Absent", "Draft", "Active", "Superseded"}

Request == [pc : {"idle", "firstVersion", "insertVersion", "activate", "findAck",
                  "acknowledge", "audit"},
            plan : Plans \cup {None}, version : Versions \cup {None},
            producer : Producers \cup {None},
            seen : SUBSET Versions, draft : BOOLEAN, num : Nat, new : BOOLEAN]

TypeOK == /\ plans \subseteq Plans
          /\ version \in [Versions -> [status : States, num : Nat]]
          /\ assigned \subseteq Versions \X Producers
          /\ acks \subseteq Versions \X Producers
          /\ audited \in [Versions \X Producers -> Nat]
          /\ req \in [Requests -> Request]

Idle == [pc |-> "idle", plan |-> None, version |-> None, producer |-> None,
         seen |-> {}, draft |-> FALSE, num |-> 0, new |-> FALSE]

Init == /\ plans = {}
        /\ version = [v \in Versions |-> [status |-> "Absent", num |-> 0]]
        /\ assigned = {}
        /\ acks = {}
        /\ audited = [va \in Versions \X Producers |-> 0]
        /\ req = [q \in Requests |-> Idle]

At(q, pc) == req[q].pc = pc

Return(q) == req' = [req EXCEPT ![q] = Idle]

VersionsOf(p) == {v \in Versions : PlanOf[v] = p /\ version[v].status # "Absent"}
NumbersOf(p) == {version[v].num : v \in VersionsOf(p)}

InForce(p) == {v \in VersionsOf(p) : version[v].status = "Active"}

Draft(v, n) == version' = [version EXCEPT ![v] = [status |-> "Draft", num |-> n]]

-----------------------------------------------------------------------------
(* POST /plans: the plan, and then its version 1. *)
CreatePlan(q, p) ==
  /\ At(q, "idle")
  /\ p \notin plans
  /\ plans' = plans \cup {p}
  /\ req' = [req EXCEPT ![q] = [Idle EXCEPT !.pc = "firstVersion", !.plan = p]]
  /\ UNCHANGED <<version, assigned, acks, audited>>

(* Throws (UNIQUE plan_id, version_num) if another request has made a       *)
(* version 1 of the plan.                                                   *)
InsertFirstVersion(q, v) ==
  /\ At(q, "firstVersion")
  /\ PlanOf[v] = req[q].plan /\ version[v].status = "Absent"
  /\ IF 1 \in NumbersOf(PlanOf[v]) THEN UNCHANGED version ELSE Draft(v, 1)
  /\ Return(q)
  /\ UNCHANGED <<plans, assigned, acks, audited>>

(* Mutant: the table has no UNIQUE (plan_id, version_num). *)
InsertDuplicate(q, v) ==
  /\ At(q, "insertVersion")
  /\ PlanOf[v] = req[q].plan /\ version[v].status = "Absent"
  /\ Draft(v, req[q].num)
  /\ Return(q)
  /\ UNCHANGED <<plans, assigned, acks, audited>>

(* Mutant: MAX(version_num) without COALESCE: NULL for the first version.   *)
NumberFromMax(q, p) ==
  /\ At(q, "idle")
  /\ p \in plans
  /\ req' = [req EXCEPT ![q] = [Idle EXCEPT !.pc = "insertVersion", !.plan = p,
                !.num = IF NumbersOf(p) = {} THEN None ELSE Max(NumbersOf(p)) + 1]]
  /\ UNCHANGED tables

(* POST /plans/:id/versions: the INSERT reads the largest number, and       *)
(* throws if its own has been given to another version meanwhile.           *)
NumberVersion(q, p) ==
  /\ At(q, "idle")
  /\ p \in plans
  /\ req' = [req EXCEPT ![q] = [Idle EXCEPT !.pc = "insertVersion", !.plan = p,
                                            !.num = Max(NumbersOf(p) \cup {0}) + 1]]
  /\ UNCHANGED tables

InsertVersion(q, v) ==
  /\ At(q, "insertVersion")
  /\ PlanOf[v] = req[q].plan /\ version[v].status = "Absent"
  /\ IF req[q].num \in NumbersOf(PlanOf[v]) THEN UNCHANGED version
                                            ELSE Draft(v, req[q].num)
  /\ Return(q)
  /\ UNCHANGED <<plans, assigned, acks, audited>>

-----------------------------------------------------------------------------
(* POST /plans/:id/versions/:vid/activate: any id of a version, of this     *)
(* plan or not.                                                             *)
ActivateRequest(q, p, v) ==
  /\ At(q, "idle")
  /\ p \in plans
  /\ req' = [req EXCEPT ![q] = [Idle EXCEPT
                !.pc = "activate", !.plan = p, !.version = v, !.seen = InForce(p),
                !.draft = PlanOf[v] = p /\ version[v].status = "Draft"]]
  /\ UNCHANGED tables

(* What the statement supersedes: the rows that it saw Active and that are  *)
(* still Active.                                                            *)
Superseded(q) == InForce(req[q].plan) \cap req[q].seen

Activated(q) ==
  {v \in {req[q].version} : req[q].draft /\ version[v].status = "Draft"}

Restate(S, T) ==
  version' = [v \in Versions |->
               CASE v \in S -> [version[v] EXCEPT !.status = "Superseded"]
                 [] v \in T \ S -> [version[v] EXCEPT !.status = "Active"]
                 [] OTHER -> version[v]]

(* Mutant: the status of the version is read first, and then all that is     *)
(* Active by now is superseded.                                             *)
ActivateAfterCheck(q) ==
  /\ At(q, "activate")
  /\ Restate(IF req[q].draft THEN InForce(req[q].plan) ELSE {}, Activated(q))
  /\ Return(q)
  /\ UNCHANGED <<plans, assigned, acks, audited>>

(* activatePlanVersion.  The reply is 404 if no version was activated; the  *)
(* others have been superseded all the same.                                *)
Activate(q) ==
  /\ At(q, "activate")
  /\ Restate(Superseded(q), Activated(q))
  /\ Return(q)
  /\ UNCHANGED <<plans, assigned, acks, audited>>

-----------------------------------------------------------------------------
(* POST /plans/:id/assignments *)
AssignProducer(v, a) ==
  /\ version[v].status # "Absent"
  /\ assigned' = assigned \cup {<<v, a>>}
  /\ UNCHANGED <<plans, version, acks, audited, req>>

(* POST /plans/:id/versions/:vid/acknowledge, by a producer who is assigned  *)
(* to the version.  (403 otherwise.)                                        *)
AcknowledgeRequest(q, v, a) ==
  /\ At(q, "idle")
  /\ <<v, a>> \in assigned
  /\ req' = [req EXCEPT ![q] = [Idle EXCEPT !.pc = "findAck", !.version = v,
                                            !.producer = a]]
  /\ UNCHANGED tables

AckOf(q) == <<req[q].version, req[q].producer>>

FindAck(q) ==
  /\ At(q, "findAck")
  /\ req' = [req EXCEPT ![q].new = AckOf(q) \notin acks, ![q].pc = "acknowledge"]
  /\ UNCHANGED tables

(* ON CONFLICT DO NOTHING *)
Acknowledge(q) ==
  /\ At(q, "acknowledge")
  /\ acks' = acks \cup {AckOf(q)}
  /\ IF req[q].new THEN req' = [req EXCEPT ![q].pc = "audit"] ELSE Return(q)
  /\ UNCHANGED <<plans, version, assigned, audited>>

AuditAck(q) ==
  /\ At(q, "audit")
  /\ audited' = [audited EXCEPT ![AckOf(q)] = @ + 1]
  /\ Return(q)
  /\ UNCHANGED <<plans, version, assigned, acks>>

(* A statement throws, or the server stops. *)
Fail(q) ==
  /\ Failures
  /\ ~At(q, "idle")
  /\ Return(q)
  /\ UNCHANGED tables

-----------------------------------------------------------------------------
Handle(q) ==
  \/ \E p \in Plans : CreatePlan(q, p) \/ NumberVersion(q, p)
  \/ \E v \in Versions : InsertFirstVersion(q, v) \/ InsertVersion(q, v)
  \/ \E p \in Plans, v \in Versions : ActivateRequest(q, p, v)
  \/ \E v \in Versions, a \in Producers : AcknowledgeRequest(q, v, a)
  \/ Activate(q)
  \/ FindAck(q)
  \/ Acknowledge(q)
  \/ AuditAck(q)
  \/ Fail(q)

Next == \/ \E q \in Requests : Handle(q)
        \/ \E v \in Versions, a \in Producers : AssignProducer(v, a)

Spec == Init /\ [][Next]_vars

-----------------------------------------------------------------------------
(* What the component promises. *)

(* The versions of a plan are numbered 1, 2, 3 ..., none twice, whatever    *)
(* requests number one at the same moment, and although a plan may be left  *)
(* without its first version (createPlan, createPlanVersion).               *)
NumbersDense ==
  \A p \in Plans : /\ \E n \in NumbersOf(p) \cup {0} : NumbersOf(p) = 1..n
                   /\ \A v, w \in VersionsOf(p) :
                        version[v].num = version[w].num => v = w

(* A version goes from Draft to Active to Superseded and never back, under  *)
(* concurrent and repeated activations (activatePlanVersion).               *)
LifecycleForward ==
  [][\A v \in Versions :
       <<version[v].status, version'[v].status>> \in
         {<<s, s>> : s \in States} \cup
         {<<"Absent", "Draft">>, <<"Draft", "Active">>, <<"Active", "Superseded">>}]_vars

(* An activation that starts from a Draft does not leave its plan without   *)
(* rules in force, even if others activate the same version or supersede it *)
(* before the statement gets to its rows (activatePlanVersion).             *)
ActivationKeepsPlan ==
  [][\A q \in Requests, p \in Plans :
       /\ At(q, "activate") /\ req[q].draft /\ req[q].plan = p
       /\ InForce(p) # {}
       /\ req'[q] # req[q]
       => InForce(p)' # {}]_vars

(* An audit entry tells of an acknowledgment that exists, by a producer who *)
(* is assigned to the version (handleAcknowledgePlanVersion).               *)
AuditTellsTruth ==
  \A va \in Versions \X Producers : audited[va] > 0 => va \in acks \cap assigned

(* What a dispute over a plan falls back on: which version was which, and   *)
(* who acknowledged it.                                                     *)
VersionsSound == NumbersDense /\ AuditTellsTruth

-----------------------------------------------------------------------------
(* What the documentation promises and the code does not do. *)

(* The Active version of a plan is superseded only when another version     *)
(* takes its place (handleActivatePlanVersion).                             *)
ActivationWhole ==
  [][\A v \in Versions :
       version[v].status = "Active" /\ version'[v].status = "Superseded" =>
         \E w \in Versions : /\ PlanOf[w] = PlanOf[v]
                             /\ version[w].status = "Draft"
                             /\ version'[w].status = "Active"]_vars

(* A plan has one Active version at most. *)
OneActive == \A p \in Plans : Cardinality(InForce(p)) <= 1

(* An acknowledgment is audited once. *)
AuditedOnce == \A va \in Versions \X Producers : audited[va] <= 1
=============================================================================
