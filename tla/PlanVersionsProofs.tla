--------------------------- MODULE PlanVersionsProofs ---------------------------
(***************************************************************************)
(* Proofs about PlanVersions: for any number of plans, versions, producers *)
(* and concurrent requests, failing or not.                                *)
(*                                                                         *)
(* Why an activation keeps its plan: let a statement find that its version *)
(* is not a Draft any more.  Whoever activated it did so after the         *)
(* statement had started, so the version is not among those it has seen    *)
(* Active.  The statement could only leave the plan without rules if all   *)
(* that is in force now had been seen by it, while what it has not seen    *)
(* has been superseded by others.  But the snapshots of any two statements *)
(* are ordered: as far as rows are still Active, one has seen all that the *)
(* other has seen (Ordered), so whoever superseded what is new has         *)
(* superseded what is old with it.                                         *)
(***************************************************************************)
EXTENDS MCPlanVersions, Sums

Activating(q, p) == At(q, "activate") /\ req[q].plan = p

(* What a statement has seen Active was activated and is in its plan; a     *)
(* version it has seen as a Draft exists.                                   *)
Snapshots ==
  \A q \in Requests : At(q, "activate") =>
    /\ \A v \in req[q].seen : /\ PlanOf[v] = req[q].plan
                              /\ version[v].status \in {"Active", "Superseded"}
    /\ req[q].version \in Versions /\ req[q].plan \in Plans
    /\ req[q].draft => /\ PlanOf[req[q].version] = req[q].plan
                       /\ version[req[q].version].status # "Absent"

Ordered ==
  \A p \in Plans : \A q, s \in Requests :
    Activating(q, p) /\ Activating(s, p) =>
      \/ req[q].seen \cap InForce(p) \subseteq req[s].seen
      \/ req[s].seen \cap InForce(p) \subseteq req[q].seen

(* What takes the place of a version that was activated first is news.      *)
Renewed ==
  \A p \in Plans : \A q \in Requests :
    /\ Activating(q, p) /\ req[q].draft
    /\ version[req[q].version].status # "Draft"
    /\ InForce(p) # {}
    => \E v \in InForce(p) : v \notin req[q].seen

Dense(p, n) ==
  /\ NumbersOf(p) = 1..n
  /\ \A v, w \in VersionsOf(p) : version[v].num = version[w].num => v = w
  /\ \A q \in Requests :
       At(q, "insertVersion") /\ req[q].plan = p => req[q].num \in 1..(n + 1)

Numbered == \A p \in Plans : \E n \in Nat : Dense(p, n)

Acknowledging(q) == req[q].pc \in {"findAck", "acknowledge", "audit"}

Truthful == /\ AuditTellsTruth
            /\ \A q \in Requests : Acknowledging(q) => AckOf(q) \in assigned
            /\ \A q \in Requests : At(q, "audit") => AckOf(q) \in acks

Inv == TypeOK /\ Numbered /\ Truthful /\ Snapshots /\ Ordered /\ Renewed

LEMMA InForceOf ==
  ASSUME NEW p
  PROVE  InForce(p) = {v \in Versions : PlanOf[v] = p /\ version[v].status = "Active"}
BY DEF InForce, VersionsOf

LEMMA MaxOfNumbers ==
  ASSUME NEW n \in Nat
  PROVE  Max((1..n) \cup {0}) = n
<1>1. n \in (1..n) \cup {0} /\ \A m \in (1..n) \cup {0} : n >= m
  OBVIOUS
<1> QED BY <1>1 DEF Max

(* An idle request, and the parts of the request it may become. *)
LEMMA IdleRequest ==
  /\ Idle \in Request /\ Idle.pc = "idle"
  /\ \A q \in Requests : Return(q) =>
       /\ req \in [Requests -> Request] => req' \in [Requests -> Request]
       /\ \A s \in Requests : req'[s].pc # "idle" => req'[s] = req[s]
<1>1. Idle \in Request /\ Idle.pc = "idle"
  BY DEF Idle, Request
<1>2. ASSUME NEW q \in Requests, Return(q), req \in [Requests -> Request]
      PROVE  req' \in [Requests -> Request]
  BY <1>1, <1>2 DEF Return
<1>3. ASSUME NEW q \in Requests, Return(q), NEW s \in Requests, req'[s].pc # "idle"
      PROVE  req'[s] = req[s]
  BY <1>1, <1>3 DEF Return
<1>4. QED
  BY <1>1, <1>2, <1>3

-----------------------------------------------------------------------------
LEMMA InvInit == Init => Inv
<1>1. SUFFICES ASSUME Init PROVE Inv
  OBVIOUS
<1>2. \A q \in Requests : At(q, "idle")
  BY <1>1, IdleRequest DEF Init, At
<1>3. TypeOK
  BY <1>1, IdleRequest DEF Init, TypeOK, States
<1>4. Truthful
  BY <1>1, <1>2 DEF Init, Truthful, AuditTellsTruth, Acknowledging, At
<1>5. Snapshots /\ Ordered /\ Renewed
  BY <1>2 DEF Snapshots, Ordered, Renewed, Activating, At
<1>6. ASSUME NEW p \in Plans PROVE Dense(p, 0)
  <2>1. VersionsOf(p) = {} /\ NumbersOf(p) = {}
    BY <1>1 DEF Init, VersionsOf, NumbersOf
  <2>2. QED
    BY <2>1, <1>2 DEF Dense, At
<1>7. QED
  BY <1>3, <1>4, <1>5, <1>6 DEF Inv, Numbered

-----------------------------------------------------------------------------
(* The types. *)

(* The INSERT of a version keeps the type of the table. *)
LEMMA DraftTyped ==
  ASSUME version \in [Versions -> [status : States, num : Nat]],
         NEW v \in Versions, NEW n \in Nat, Draft(v, n) \/ UNCHANGED version
  PROVE  version' \in [Versions -> [status : States, num : Nat]]
BY DEF Draft, States

LEMMA TypeStep == TypeOK /\ Numbered /\ Truthful /\ [Next]_vars => TypeOK'
<1>1. SUFFICES ASSUME TypeOK, Numbered, Truthful, [Next]_vars PROVE TypeOK'
  OBVIOUS
<1> USE <1>1 DEF TypeOK
<1>2. ASSUME NEW q \in Requests, NEW p \in Plans, CreatePlan(q, p) PROVE TypeOK'
  <2>1. [Idle EXCEPT !.pc = "firstVersion", !.plan = p] \in Request
    BY DEF Idle, Request
  <2>2. QED
    BY <1>2, <2>1 DEF CreatePlan
<1>3. ASSUME NEW q \in Requests, NEW p \in Plans, NumberVersion(q, p) PROVE TypeOK'
  <2>1. PICK n \in Nat : Dense(p, n)
    BY DEF Numbered
  <2>2. Max(NumbersOf(p) \cup {0}) + 1 \in Nat
    BY <2>1, MaxOfNumbers DEF Dense
  <2>3. \A m \in Nat : [Idle EXCEPT !.pc = "insertVersion", !.plan = p, !.num = m]
                         \in Request
    BY DEF Idle, Request
  <2>4. QED
    BY <1>3, <2>2, <2>3 DEF NumberVersion, tables
<1>4. ASSUME NEW q \in Requests, NEW v \in Versions, InsertFirstVersion(q, v)
      PROVE  TypeOK'
  BY <1>4, DraftTyped, IdleRequest DEF InsertFirstVersion
<1>5. ASSUME NEW q \in Requests, NEW v \in Versions, InsertVersion(q, v)
      PROVE  TypeOK'
  <2>1. req[q].num \in Nat
    BY DEF Request
  <2>2. QED
    BY <1>5, <2>1, DraftTyped, IdleRequest DEF InsertVersion
<1>6. ASSUME NEW q \in Requests, NEW p \in Plans, NEW v \in Versions,
             ActivateRequest(q, p, v)
      PROVE  TypeOK'
  <2>1. InForce(p) \subseteq Versions
    BY DEF InForce, VersionsOf
  <2>2. [Idle EXCEPT !.pc = "activate", !.plan = p, !.version = v, !.seen = InForce(p),
                     !.draft = PlanOf[v] = p /\ version[v].status = "Draft"] \in Request
    BY <2>1 DEF Idle, Request
  <2>3. QED
    BY <1>6, <2>2 DEF ActivateRequest, tables
<1>7. ASSUME NEW q \in Requests, NEW v \in Versions, NEW a \in Producers,
             AcknowledgeRequest(q, v, a)
      PROVE  TypeOK'
  <2>1. [Idle EXCEPT !.pc = "findAck", !.version = v, !.producer = a] \in Request
    BY DEF Idle, Request
  <2>2. QED
    BY <1>7, <2>1 DEF AcknowledgeRequest, tables
<1>8. ASSUME NEW q \in Requests, Activate(q) PROVE TypeOK'
  <2>1. version' \in [Versions -> [status : States, num : Nat]]
    BY <1>8 DEF Activate, Restate, States
  <2>2. QED
    BY <1>8, <2>1, IdleRequest DEF Activate
<1>9. ASSUME NEW q \in Requests, FindAck(q) PROVE TypeOK'
  <2>1. \A b \in BOOLEAN : [req[q] EXCEPT !.new = b, !.pc = "acknowledge"] \in Request
    BY DEF Request
  <2>2. req' = [req EXCEPT ![q] = [req[q] EXCEPT !.new = AckOf(q) \notin acks,
                                                 !.pc = "acknowledge"]]
    BY <1>9 DEF FindAck
  <2>3. QED
    BY <1>9, <2>1, <2>2 DEF FindAck, tables
<1>10. ASSUME NEW q \in Requests, Acknowledge(q) \/ AuditAck(q) PROVE TypeOK'
  <2>1. AckOf(q) \in Versions \X Producers
    BY <1>1, <1>10 DEF Truthful, Acknowledging, Acknowledge, AuditAck, At
  <2>2. CASE Acknowledge(q)
    <3>1. [req[q] EXCEPT !.pc = "audit"] \in Request
      BY DEF Request
    <3>2. req' \in [Requests -> Request]
      BY <2>2, <3>1, IdleRequest DEF Acknowledge
    <3>3. QED
      BY <2>1, <2>2, <3>2 DEF Acknowledge
  <2>3. CASE AuditAck(q)
    BY <2>1, <2>3, IdleRequest DEF AuditAck
  <2>4. QED
    BY <1>10, <2>2, <2>3
<1>11. ASSUME NEW q \in Requests, Fail(q) PROVE TypeOK'
  BY <1>11, IdleRequest DEF Fail, tables
<1>12. ASSUME NEW v \in Versions, NEW a \in Producers, AssignProducer(v, a)
       PROVE  TypeOK'
  BY <1>12 DEF AssignProducer
<1>13. CASE UNCHANGED vars
  BY <1>13 DEF vars
<1>14. QED
  BY <1>2, <1>3, <1>4, <1>5, <1>6, <1>7, <1>8, <1>9, <1>10, <1>11, <1>12, <1>13
     DEF Next, Handle

-----------------------------------------------------------------------------
(* The numbers. *)

(* What does not insert a version and does not number one keeps Dense. *)
LEMMA NumbersKept ==
  ASSUME TypeOK, NEW p \in Plans, NEW n \in Nat, Dense(p, n),
         \A v \in Versions : /\ version'[v].num = version[v].num
                             /\ (version'[v].status = "Absent") <=> (version[v].status = "Absent"),
         \A s \in Requests : req'[s].pc = "insertVersion" => req'[s] = req[s]
  PROVE  Dense(p, n)'
<1>1. VersionsOf(p)' = VersionsOf(p)
  BY DEF VersionsOf
<1>2. NumbersOf(p)' = NumbersOf(p)
  BY <1>1 DEF NumbersOf, VersionsOf
<1>3. \A v, w \in VersionsOf(p)' : (version[v].num = version[w].num => v = w)'
  BY <1>1 DEF Dense, VersionsOf
<1>4. QED
  BY <1>1, <1>2, <1>3 DEF Dense, At

(* The INSERT of the next number. *)
LEMMA NumberAdded ==
  ASSUME TypeOK, NEW p \in Plans, NEW n \in Nat, Dense(p, n),
         NEW v \in Versions, version[v].status = "Absent", PlanOf[v] = p,
         NEW m \in 1..(n + 1), m \notin NumbersOf(p), Draft(v, m),
         \A s \in Requests : req'[s].pc = "insertVersion" => req'[s] = req[s]
  PROVE  Dense(p, n + 1)'
<1>1. m = n + 1
  BY DEF Dense
<1>2. \A w \in Versions : version'[w] = IF w = v THEN [status |-> "Draft", num |-> m]
                                                 ELSE version[w]
  BY DEF Draft, TypeOK
<1>3. VersionsOf(p)' = VersionsOf(p) \cup {v} /\ v \notin VersionsOf(p)
  BY <1>2 DEF VersionsOf
<1>4. NumbersOf(p)' = NumbersOf(p) \cup {m}
  BY <1>2, <1>3 DEF NumbersOf, VersionsOf
<1>5. NumbersOf(p)' = 1..(n + 1)
  BY <1>1, <1>4 DEF Dense
<1>6. ASSUME NEW x \in VersionsOf(p)', NEW y \in VersionsOf(p)',
             version'[x].num = version'[y].num
      PROVE  x = y
  <2>1. \A w \in VersionsOf(p) : version[w].num # m
    BY DEF NumbersOf
  <2>2. QED
    BY <1>2, <1>3, <1>6, <2>1 DEF Dense, VersionsOf
<1>7. QED
  BY <1>5, <1>6 DEF Dense, At

(* The same INSERT leaves the other plans alone. *)
LEMMA OthersKept ==
  ASSUME TypeOK, NEW p \in Plans, NEW n \in Nat, Dense(p, n),
         NEW v \in Versions, PlanOf[v] # p, NEW m, Draft(v, m),
         \A s \in Requests : req'[s].pc = "insertVersion" => req'[s] = req[s]
  PROVE  Dense(p, n)'
<1>1. \A w \in Versions \ {v} : version'[w] = version[w]
  BY DEF Draft, TypeOK
<1>2. VersionsOf(p)' = VersionsOf(p)
  BY <1>1 DEF VersionsOf
<1>3. NumbersOf(p)' = NumbersOf(p)
  BY <1>1, <1>2 DEF NumbersOf, VersionsOf
<1>4. \A x \in VersionsOf(p) : version'[x] = version[x]
  BY <1>1 DEF VersionsOf
<1>5. QED
  BY <1>2, <1>3, <1>4 DEF Dense, At

(* An INSERT that numbers its version m, and throws if the number is taken. *)
LEMMA VersionInserted ==
  ASSUME TypeOK, Numbered, NEW q \in Requests, NEW v \in Versions,
         version[v].status = "Absent", NEW m \in Nat,
         \A n \in Nat : Dense(PlanOf[v], n) => m \in 1..(n + 1),
         IF m \in NumbersOf(PlanOf[v]) THEN UNCHANGED version ELSE Draft(v, m),
         Return(q)
  PROVE  Numbered'
<1>1. \A s \in Requests : req'[s].pc = "insertVersion" => req'[s] = req[s]
  BY IdleRequest
<1>2. SUFFICES ASSUME NEW p \in Plans PROVE \E n \in Nat : Dense(p, n)'
  BY DEF Numbered
<1>3. PICK n \in Nat : Dense(p, n)
  BY DEF Numbered
<1>4. CASE m \in NumbersOf(PlanOf[v])
  BY <1>1, <1>3, <1>4, NumbersKept
<1>5. CASE m \notin NumbersOf(PlanOf[v]) /\ PlanOf[v] = p
  <2>1. Dense(p, n + 1)'
    BY <1>1, <1>3, <1>5, NumberAdded
  <2>2. QED
    BY <2>1
<1>6. CASE m \notin NumbersOf(PlanOf[v]) /\ PlanOf[v] # p
  BY <1>1, <1>3, <1>6, OthersKept
<1>7. QED
  BY <1>4, <1>5, <1>6

(* What an activation does to a row. *)
LEMMA ActivateRows ==
  ASSUME TypeOK, NEW q \in Requests, Activate(q), NEW v \in Versions
  PROVE  /\ version'[v].num = version[v].num
         /\ version[v].status = "Absent" => version'[v] = version[v]
         /\ v \in Superseded(q) => /\ version[v].status = "Active"
                                   /\ version'[v].status = "Superseded"
         /\ v \in Activated(q) => /\ version[v].status = "Draft"
                                  /\ version'[v].status = "Active"
         /\ v \notin Superseded(q) \cup Activated(q) => version'[v] = version[v]
<1>1. Superseded(q) \cap Activated(q) = {}
  BY DEF Superseded, Activated, InForce
<1>2. version[v] \in [status : States, num : Nat]
  BY DEF TypeOK
<1>3. version'[v] = CASE v \in Superseded(q) -> [version[v] EXCEPT !.status = "Superseded"]
                      [] v \in Activated(q) \ Superseded(q) ->
                           [version[v] EXCEPT !.status = "Active"]
                      [] OTHER -> version[v]
  BY DEF Activate, Restate
<1>4. /\ v \in Superseded(q) => version[v].status = "Active"
      /\ v \in Activated(q) => version[v].status = "Draft"
  BY DEF Superseded, Activated, InForce
<1>5. QED
  BY <1>1, <1>2, <1>3, <1>4

LEMMA NumberStep == TypeOK /\ Numbered /\ [Next]_vars => Numbered'
<1>1. SUFFICES ASSUME TypeOK, Numbered, [Next]_vars PROVE Numbered'
  OBVIOUS
<1>2. ASSUME UNCHANGED version,
             \A s \in Requests : req'[s].pc = "insertVersion" => req'[s] = req[s]
      PROVE  Numbered'
  BY <1>1, <1>2, NumbersKept DEF Numbered
<1>3. ASSUME NEW q \in Requests, NEW p \in Plans, CreatePlan(q, p) PROVE Numbered'
  <2>1. \A s \in Requests : req'[s].pc = "insertVersion" => req'[s] = req[s]
    BY <1>1, <1>3 DEF CreatePlan, TypeOK, Idle
  <2>2. QED
    BY <1>2, <1>3, <2>1 DEF CreatePlan
<1>4. ASSUME NEW q \in Requests, NEW p \in Plans, NumberVersion(q, p) PROVE Numbered'
  <2>1. SUFFICES ASSUME NEW x \in Plans PROVE \E n \in Nat : Dense(x, n)'
    BY DEF Numbered
  <2>2. PICK n \in Nat : Dense(x, n)
    BY <1>1 DEF Numbered
  <2>3. UNCHANGED version
    BY <1>4 DEF NumberVersion, tables
  <2>4. VersionsOf(x)' = VersionsOf(x) /\ NumbersOf(x)' = NumbersOf(x)
    BY <2>3 DEF VersionsOf, NumbersOf
  <2>5. /\ req'[q].plan = p
        /\ req'[q].num = Max(NumbersOf(p) \cup {0}) + 1
        /\ \A s \in Requests \ {q} : req'[s] = req[s]
    BY <1>1, <1>4 DEF NumberVersion, TypeOK, Idle
  <2>6. p = x => req'[q].num = n + 1
    BY <2>2, <2>5, MaxOfNumbers DEF Dense
  <2>7. \A s \in Requests : req'[s].pc = "insertVersion" /\ req'[s].plan = x =>
                              req'[s].num \in 1..(n + 1)
    BY <2>2, <2>5, <2>6 DEF Dense, At
  <2>8. QED
    BY <2>2, <2>3, <2>4, <2>7 DEF Dense, At
<1>5. ASSUME NEW q \in Requests, NEW v \in Versions, InsertFirstVersion(q, v)
      PROVE  Numbered'
  BY <1>1, <1>5, VersionInserted DEF InsertFirstVersion
<1>6. ASSUME NEW q \in Requests, NEW v \in Versions, InsertVersion(q, v)
      PROVE  Numbered'
  <2>1. req[q].num \in Nat
    BY <1>1 DEF TypeOK, Request
  <2>2. \A n \in Nat : Dense(PlanOf[v], n) => req[q].num \in 1..(n + 1)
    BY <1>6 DEF InsertVersion, Dense
  <2>3. QED
    BY <1>1, <1>6, <2>1, <2>2, VersionInserted DEF InsertVersion
<1>7. ASSUME NEW q \in Requests, NEW p \in Plans, NEW v \in Versions,
             ActivateRequest(q, p, v)
      PROVE  Numbered'
  <2>1. \A s \in Requests : req'[s].pc = "insertVersion" => req'[s] = req[s]
    BY <1>1, <1>7 DEF ActivateRequest, TypeOK, Idle
  <2>2. QED
    BY <1>2, <1>7, <2>1 DEF ActivateRequest, tables
<1>8. ASSUME NEW q \in Requests, NEW v \in Versions, NEW a \in Producers,
             AcknowledgeRequest(q, v, a)
      PROVE  Numbered'
  <2>1. \A s \in Requests : req'[s].pc = "insertVersion" => req'[s] = req[s]
    BY <1>1, <1>8 DEF AcknowledgeRequest, TypeOK, Idle
  <2>2. QED
    BY <1>2, <1>8, <2>1 DEF AcknowledgeRequest, tables
<1>9. ASSUME NEW q \in Requests, Activate(q) PROVE Numbered'
  <2>1. \A s \in Requests : req'[s].pc = "insertVersion" => req'[s] = req[s]
    BY <1>9, IdleRequest DEF Activate
  <2>2. \A v \in Versions : /\ version'[v].num = version[v].num
                            /\ (version'[v].status = "Absent") <=> (version[v].status = "Absent")
    BY <1>1, <1>9, ActivateRows
  <2>3. QED
    BY <1>1, <2>1, <2>2, NumbersKept DEF Numbered
<1>10. ASSUME NEW q \in Requests, FindAck(q) \/ Acknowledge(q) \/ AuditAck(q) \/ Fail(q)
       PROVE  Numbered'
  <2>1. \A s \in Requests : req'[s].pc = "insertVersion" => req'[s] = req[s]
    BY <1>1, <1>10, IdleRequest DEF FindAck, Acknowledge, AuditAck, Fail, TypeOK, At, Request
  <2>2. QED
    BY <1>2, <1>10, <2>1 DEF FindAck, Acknowledge, AuditAck, Fail, tables
<1>11. ASSUME NEW v \in Versions, NEW a \in Producers, AssignProducer(v, a)
       PROVE  Numbered'
  BY <1>2, <1>11 DEF AssignProducer
<1>12. CASE UNCHANGED vars
  BY <1>2, <1>12 DEF vars
<1>13. QED
  BY <1>1, <1>3, <1>4, <1>5, <1>6, <1>7, <1>8, <1>9, <1>10, <1>11, <1>12 DEF Next, Handle

-----------------------------------------------------------------------------
(* Acknowledgments. *)
LEMMA TruthStep == TypeOK /\ Truthful /\ [Next]_vars => Truthful'
<1>1. SUFFICES ASSUME TypeOK, Truthful, [Next]_vars PROVE Truthful'
  OBVIOUS
<1> USE <1>1 DEF TypeOK
<1>2. ASSUME UNCHANGED <<acks, audited>>, assigned \subseteq assigned',
             \A s \in Requests : req'[s].pc \in {"findAck", "acknowledge", "audit"} =>
                                   req'[s] = req[s]
      PROVE  Truthful'
  BY <1>2 DEF Truthful, AuditTellsTruth, Acknowledging, AckOf, At
<1>3. ASSUME NEW q \in Requests, NEW p \in Plans, CreatePlan(q, p) \/ NumberVersion(q, p)
      PROVE  Truthful'
  BY <1>2, <1>3 DEF CreatePlan, NumberVersion, tables, Idle
<1>4. ASSUME NEW q \in Requests, NEW v \in Versions,
             InsertFirstVersion(q, v) \/ InsertVersion(q, v)
      PROVE  Truthful'
  BY <1>2, <1>4, IdleRequest DEF InsertFirstVersion, InsertVersion
<1>5. ASSUME NEW q \in Requests, NEW p \in Plans, NEW v \in Versions,
             ActivateRequest(q, p, v)
      PROVE  Truthful'
  BY <1>2, <1>5 DEF ActivateRequest, tables, Idle
<1>6. ASSUME NEW q \in Requests, NEW v \in Versions, NEW a \in Producers,
             AcknowledgeRequest(q, v, a)
      PROVE  Truthful'
  <2>1. /\ req'[q].pc = "findAck" /\ AckOf(q)' = <<v, a>>
        /\ \A s \in Requests \ {q} : req'[s] = req[s]
    BY <1>6 DEF AcknowledgeRequest, Idle, AckOf
  <2>2. QED
    BY <1>6, <2>1 DEF AcknowledgeRequest, tables, Truthful, AuditTellsTruth, Acknowledging,
                      AckOf, At
<1>7. ASSUME NEW q \in Requests, Activate(q) \/ Fail(q) PROVE Truthful'
  BY <1>2, <1>7, IdleRequest DEF Activate, Fail, tables
<1>8. ASSUME NEW q \in Requests, FindAck(q) PROVE Truthful'
  <2>1. /\ req'[q].pc = "acknowledge" /\ AckOf(q)' = AckOf(q)
        /\ \A s \in Requests \ {q} : req'[s] = req[s]
    BY <1>8 DEF FindAck, AckOf, Request
  <2>2. QED
    BY <1>8, <2>1 DEF FindAck, tables, Truthful, AuditTellsTruth, Acknowledging, AckOf, At
<1>9. ASSUME NEW q \in Requests, Acknowledge(q) PROVE Truthful'
  <2>1. /\ \A s \in Requests \ {q} : req'[s] = req[s]
        /\ req'[q].pc \in {"idle", "audit"}
        /\ req'[q].pc = "audit" => AckOf(q)' = AckOf(q)
    BY <1>9, IdleRequest DEF Acknowledge, Return, AckOf, Request
  <2>2. AckOf(q) \in assigned
    BY <1>9 DEF Truthful, Acknowledging, Acknowledge, At
  <2>3. QED
    BY <1>9, <2>1, <2>2 DEF Acknowledge, Truthful, AuditTellsTruth, Acknowledging, AckOf, At
<1>10. ASSUME NEW q \in Requests, AuditAck(q) PROVE Truthful'
  <2>1. AckOf(q) \in acks \cap assigned
    BY <1>10 DEF Truthful, Acknowledging, AuditAck, At
  <2>2. \A va \in Versions \X Producers : audited'[va] > 0 => audited[va] > 0 \/ va = AckOf(q)
    BY <1>10 DEF AuditAck
  <2>3. \A s \in Requests : req'[s].pc # "idle" => req'[s] = req[s]
    BY <1>10, IdleRequest DEF AuditAck
  <2>4. QED
    BY <1>10, <2>1, <2>2, <2>3 DEF AuditAck, Truthful, AuditTellsTruth, Acknowledging, AckOf, At
<1>11. ASSUME NEW v \in Versions, NEW a \in Producers, AssignProducer(v, a)
       PROVE  Truthful'
  BY <1>2, <1>11 DEF AssignProducer
<1>12. CASE UNCHANGED vars
  BY <1>2, <1>12 DEF vars
<1>13. QED
  BY <1>3, <1>4, <1>5, <1>6, <1>7, <1>8, <1>9, <1>10, <1>11, <1>12 DEF Next, Handle

-----------------------------------------------------------------------------
(* Activation. *)

(* What every step does to the versions that are in force, unless it starts *)
(* or ends an activation.                                                   *)
Quiet ==
  /\ \A p \in Plans : InForce(p)' = InForce(p)
  /\ \A v \in Versions : \/ version'[v].status = version[v].status
                         \/ version[v].status = "Absent" /\ version'[v].status = "Draft"
  /\ \A s \in Requests : req'[s].pc = "activate" => req'[s] = req[s]

LEMMA QuietStep ==
  ASSUME TypeOK, [Next]_vars
  PROVE  \/ Quiet
         \/ \E q \in Requests : Activate(q)
         \/ \E q \in Requests, p \in Plans, v \in Versions : ActivateRequest(q, p, v)
<1> USE DEF TypeOK
<1>1. ASSUME UNCHANGED version,
             \A s \in Requests : req'[s].pc = "activate" => req'[s] = req[s]
      PROVE  Quiet
  BY <1>1 DEF Quiet, InForce, VersionsOf
<1>2. ASSUME NEW q \in Requests, NEW p \in Plans, CreatePlan(q, p) \/ NumberVersion(q, p)
      PROVE  Quiet
  BY <1>1, <1>2 DEF CreatePlan, NumberVersion, tables, Idle
<1>3. ASSUME NEW v \in Versions, NEW m, version[v].status = "Absent",
             Draft(v, m) \/ UNCHANGED version,
             \A s \in Requests : req'[s].pc = "activate" => req'[s] = req[s]
      PROVE  Quiet
  <2>1. CASE Draft(v, m)
    <3>1. \A w \in Versions : \/ version'[w] = version[w]
                              \/ w = v /\ version'[w].status = "Draft"
      BY <2>1 DEF Draft
    <3>2. ASSUME NEW p \in Plans PROVE InForce(p)' = InForce(p)
      BY <1>3, <3>1, InForceOf DEF InForce, VersionsOf
    <3>3. QED
      BY <1>3, <3>1, <3>2 DEF Quiet
  <2>2. QED
    BY <1>1, <1>3, <2>1
<1>4. ASSUME NEW q \in Requests, NEW v \in Versions,
             InsertFirstVersion(q, v) \/ InsertVersion(q, v)
      PROVE  Quiet
  BY <1>3, <1>4, IdleRequest DEF InsertFirstVersion, InsertVersion
<1>5. ASSUME NEW q \in Requests, NEW v \in Versions, NEW a \in Producers,
             AcknowledgeRequest(q, v, a)
      PROVE  Quiet
  BY <1>1, <1>5 DEF AcknowledgeRequest, tables, Idle
<1>6. ASSUME NEW q \in Requests, FindAck(q) \/ Acknowledge(q) \/ AuditAck(q) \/ Fail(q)
      PROVE  Quiet
  <2>1. \A s \in Requests : req'[s].pc = "activate" => req'[s] = req[s]
    BY <1>6, IdleRequest DEF FindAck, Acknowledge, AuditAck, Fail, Request, At
  <2>2. QED
    BY <1>1, <1>6, <2>1 DEF FindAck, Acknowledge, AuditAck, Fail, tables
<1>7. ASSUME NEW v \in Versions, NEW a \in Producers, AssignProducer(v, a)
      PROVE  Quiet
  BY <1>1, <1>7 DEF AssignProducer
<1>8. CASE UNCHANGED vars
  BY <1>1, <1>8 DEF vars
<1>9. QED
  BY <1>2, <1>4, <1>5, <1>6, <1>7, <1>8 DEF Next, Handle

(* What is in force when an activation has ended: less than before, and     *)
(* what was a Draft before.                                                 *)
LEMMA InForceNext ==
  ASSUME TypeOK, Snapshots, NEW q \in Requests, Activate(q), NEW p \in Plans
  PROVE  /\ p # req[q].plan => InForce(p)' = InForce(p)
         /\ p = req[q].plan =>
              InForce(p)' = (InForce(p) \ req[q].seen) \cup Activated(q)
<1>1. At(q, "activate")
  BY DEF Activate
<1>2. Activated(q) \subseteq {v \in Versions : PlanOf[v] = req[q].plan}
  BY <1>1 DEF Activated, Snapshots
<1>3. Superseded(q) \subseteq {v \in Versions : PlanOf[v] = req[q].plan}
  BY InForceOf DEF Superseded
<1>4. \A v \in Versions :
        version'[v].status = "Active" <=>
          \/ version[v].status = "Active" /\ v \notin Superseded(q)
          \/ v \in Activated(q)
  BY ActivateRows
<1>5. InForce(p)' = {v \in Versions : PlanOf[v] = p /\ version'[v].status = "Active"}
  BY DEF InForce, VersionsOf
<1>6. InForce(p) = {v \in Versions : PlanOf[v] = p /\ version[v].status = "Active"}
  BY InForceOf
<1>7. CASE p # req[q].plan
  BY <1>2, <1>3, <1>4, <1>5, <1>6, <1>7
<1>8. CASE p = req[q].plan
  <2>1. Superseded(q) = InForce(p) \cap req[q].seen
    BY <1>8 DEF Superseded
  <2>2. \A v \in Versions : v \in Activated(q) => PlanOf[v] = p
    BY <1>2, <1>8
  <2>3. Activated(q) \subseteq Versions
    BY <1>2
  <2>4. QED
    BY <1>4, <1>5, <1>6, <1>8, <2>1, <2>2, <2>3
<1>9. QED
  BY <1>7, <1>8

(* The activations that are still going on when one of them has ended. *)
LEMMA OthersGoOn ==
  ASSUME TypeOK, NEW q \in Requests, Activate(q),
         NEW s \in Requests, req'[s].pc = "activate"
  PROVE  req'[s] = req[s] /\ req[s].pc = "activate"
BY IdleRequest DEF Activate

(* The activation that starts, and the others. *)
LEMMA OneStarts ==
  ASSUME TypeOK, NEW q \in Requests, NEW p \in Plans, NEW v \in Versions,
         ActivateRequest(q, p, v)
  PROVE  /\ req'[q].plan = p /\ req'[q].version = v /\ req'[q].seen = InForce(p)
         /\ req'[q].draft => PlanOf[v] = p /\ version[v].status = "Draft"
         /\ \A s \in Requests \ {q} : req'[s] = req[s]
         /\ UNCHANGED version
         /\ \A x \in Plans : InForce(x)' = InForce(x)
BY DEF ActivateRequest, TypeOK, Idle, tables, InForce, VersionsOf

LEMMA SnapshotStep == TypeOK /\ Snapshots /\ [Next]_vars => Snapshots'
<1>1. SUFFICES ASSUME TypeOK, Snapshots, [Next]_vars PROVE Snapshots'
  OBVIOUS
<1>2. CASE Quiet
  BY <1>1, <1>2 DEF Snapshots, Quiet, At, TypeOK, Request
<1>3. ASSUME NEW q \in Requests, Activate(q) PROVE Snapshots'
  <2>1. \A v \in Versions :
          /\ version[v].status \in {"Active", "Superseded"} =>
               version'[v].status \in {"Active", "Superseded"}
          /\ version[v].status # "Absent" => version'[v].status # "Absent"
    BY <1>1, <1>3, ActivateRows
  <2>2. \A s \in Requests : req[s].seen \subseteq Versions
    BY <1>1 DEF TypeOK, Request
  <2>3. QED
    BY <1>1, <1>3, <2>1, <2>2, OthersGoOn DEF Snapshots, At
<1>4. ASSUME NEW q \in Requests, NEW p \in Plans, NEW v \in Versions,
             ActivateRequest(q, p, v)
      PROVE  Snapshots'
  <2>1. \A w \in InForce(p) : PlanOf[w] = p /\ version[w].status = "Active"
    BY InForceOf
  <2>2. SUFFICES ASSUME NEW s \in Requests, req'[s].pc = "activate"
                 PROVE  /\ \A w \in req'[s].seen :
                             /\ PlanOf[w] = req'[s].plan
                             /\ version'[w].status \in {"Active", "Superseded"}
                        /\ req'[s].version \in Versions /\ req'[s].plan \in Plans
                        /\ req'[s].draft =>
                             /\ PlanOf[req'[s].version] = req'[s].plan
                             /\ version'[req'[s].version].status # "Absent"
    BY DEF Snapshots, At
  <2>3. CASE s = q
    BY <1>1, <1>4, <2>1, <2>3, OneStarts
  <2>4. CASE s # q
    BY <1>1, <1>4, <2>2, <2>4, OneStarts DEF Snapshots, At
  <2>5. QED
    BY <2>3, <2>4
<1>5. QED
  BY <1>1, <1>2, <1>3, <1>4, QuietStep

LEMMA OrderedStep == TypeOK /\ Snapshots /\ Ordered /\ [Next]_vars => Ordered'
<1>1. SUFFICES ASSUME TypeOK, Snapshots, Ordered, [Next]_vars PROVE Ordered'
  OBVIOUS
<1>2. CASE Quiet
  BY <1>1, <1>2 DEF Ordered, Activating, Quiet, At
<1>3. ASSUME NEW q \in Requests, Activate(q) PROVE Ordered'
  <2>1. SUFFICES ASSUME NEW p \in Plans, NEW s \in Requests, NEW u \in Requests,
                        Activating(s, p)', Activating(u, p)'
                 PROVE  \/ req'[s].seen \cap InForce(p)' \subseteq req'[u].seen
                        \/ req'[u].seen \cap InForce(p)' \subseteq req'[s].seen
    BY DEF Ordered
  <2>2. /\ Activating(s, p) /\ req'[s] = req[s]
        /\ Activating(u, p) /\ req'[u] = req[u]
    BY <1>1, <1>3, <2>1, OthersGoOn DEF Activating, At
  <2>3. Activated(q) \cap req[s].seen = {} /\ Activated(q) \cap req[u].seen = {}
    BY <1>1, <2>2 DEF Activated, Snapshots, Activating
  <2>4. /\ req[s].seen \cap InForce(p)' \subseteq req[s].seen \cap InForce(p)
        /\ req[u].seen \cap InForce(p)' \subseteq req[u].seen \cap InForce(p)
    BY <1>1, <1>3, <2>3, InForceNext
  <2>5. \/ req[s].seen \cap InForce(p) \subseteq req[u].seen
        \/ req[u].seen \cap InForce(p) \subseteq req[s].seen
    BY <1>1, <2>2 DEF Ordered
  <2>6. QED
    BY <2>2, <2>4, <2>5
<1>4. ASSUME NEW q \in Requests, NEW p \in Plans, NEW v \in Versions,
             ActivateRequest(q, p, v)
      PROVE  Ordered'
  BY <1>1, <1>4, OneStarts DEF Ordered, Activating, At
<1>5. QED
  BY <1>1, <1>2, <1>3, <1>4, QuietStep

(* An activation leaves rules in force that are news to the others. *)
LEMMA RenewedStep == TypeOK /\ Snapshots /\ Ordered /\ Renewed /\ [Next]_vars => Renewed'
<1>1. SUFFICES ASSUME TypeOK, Snapshots, Ordered, Renewed, [Next]_vars PROVE Renewed'
  OBVIOUS
<1>2. CASE Quiet
  <2>1. ASSUME NEW s \in Requests, req'[s].pc = "activate", req'[s].draft,
               version'[req'[s].version].status # "Draft"
        PROVE  req'[s] = req[s] /\ version[req[s].version].status # "Draft"
    BY <1>1, <1>2, <2>1 DEF Quiet, Snapshots, At
  <2>2. QED
    BY <1>1, <1>2, <2>1 DEF Renewed, Activating, Quiet, At
<1>3. ASSUME NEW q \in Requests, Activate(q) PROVE Renewed'
  <2>1. SUFFICES ASSUME NEW p \in Plans, NEW s \in Requests,
                        Activating(s, p)', req'[s].draft,
                        version'[req'[s].version].status # "Draft",
                        NEW w \in InForce(p)'
                 PROVE  \E v \in InForce(p)' : v \notin req'[s].seen
    BY DEF Renewed
  <2>2. Activating(s, p) /\ req'[s] = req[s]
    BY <1>1, <1>3, <2>1, OthersGoOn DEF Activating, At
  <2>3. req[s].version \in Versions /\ PlanOf[req[s].version] = p
    BY <1>1, <2>1, <2>2 DEF Snapshots, Activating
  <2>4. ASSUME NEW v \in Activated(q) PROVE v \notin req[s].seen
    BY <1>1, <2>2, <2>4 DEF Activated, Snapshots, Activating
  <2>5. CASE p # req[q].plan
    <3>1. InForce(p)' = InForce(p)
      BY <1>1, <1>3, <2>5, InForceNext
    <3>2. req[s].version \notin Activated(q) /\ req[s].version \notin Superseded(q)
      BY <1>1, <1>3, <2>3, <2>5, InForceOf DEF Activated, Superseded, Snapshots, Activate
    <3>3. version'[req[s].version] = version[req[s].version]
      BY <1>1, <1>3, <2>3, <3>2, ActivateRows
    <3>4. QED
      BY <1>1, <2>1, <2>2, <3>1, <3>3 DEF Renewed
  <2>6. CASE p = req[q].plan /\ Activated(q) # {}
    BY <1>1, <1>3, <2>2, <2>4, <2>6, InForceNext
  <2>7. CASE p = req[q].plan /\ Activated(q) = {}
    <3>1. InForce(p)' = InForce(p) \ req[q].seen
      BY <1>1, <1>3, <2>7, InForceNext
    <3>2. version[req[s].version].status # "Draft"
      BY <1>1, <1>3, <2>1, <2>2, <2>3, <2>7, ActivateRows DEF Superseded, InForce
    <3>3. PICK x \in InForce(p) : x \notin req[s].seen
      BY <1>1, <2>1, <2>2, <3>1, <3>2 DEF Renewed
    <3>4. CASE x \notin req[q].seen
      BY <2>2, <3>1, <3>3, <3>4
    <3>5. CASE x \in req[q].seen
      <4>1. Activating(q, p)
        BY <1>3, <2>7 DEF Activating, Activate
      <4>2. \/ req[s].seen \cap InForce(p) \subseteq req[q].seen
            \/ req[q].seen \cap InForce(p) \subseteq req[s].seen
        BY <1>1, <2>2, <4>1 DEF Ordered
      <4>3. w \in InForce(p) /\ w \notin req[q].seen
        BY <2>1, <3>1
      <4>4. w \notin req[s].seen
        BY <3>3, <3>5, <4>2, <4>3
      <4>5. QED
        BY <2>1, <2>2, <4>4
    <3>6. QED
      BY <3>4, <3>5
  <2>8. QED
    BY <2>5, <2>6, <2>7
<1>4. ASSUME NEW q \in Requests, NEW p \in Plans, NEW v \in Versions,
             ActivateRequest(q, p, v)
      PROVE  Renewed'
  <2>1. req'[q].draft => version'[req'[q].version].status = "Draft"
    BY <1>1, <1>4, OneStarts
  <2>2. \A s \in Requests \ {q} : req'[s] = req[s]
    BY <1>1, <1>4, OneStarts
  <2>3. UNCHANGED version /\ \A x \in Plans : InForce(x)' = InForce(x)
    BY <1>1, <1>4, OneStarts
  <2>4. QED
    BY <1>1, <2>1, <2>2, <2>3 DEF Renewed, Activating, At
<1>5. QED
  BY <1>1, <1>2, <1>3, <1>4, QuietStep

-----------------------------------------------------------------------------
LEMMA InvStep == Inv /\ [Next]_vars => Inv'
BY TypeStep, NumberStep, TruthStep, SnapshotStep, OrderedStep, RenewedStep DEF Inv

LEMMA Invariance == Spec => []Inv
BY InvInit, InvStep, PTL DEF Spec

(* The tables and the requests keep their types. *)
THEOREM TypeCorrect == Spec => []TypeOK
<1>1. Inv => TypeOK
  BY DEF Inv
<1>2. QED
  BY Invariance, <1>1, PTL

(* The versions of a plan are numbered 1, 2, 3 ..., none twice              *)
(* (createPlanVersion).                                                     *)
THEOREM NumbersAreDense == Spec => []NumbersDense
<1>1. ASSUME Inv PROVE NumbersDense
  <2>1. SUFFICES ASSUME NEW p \in Plans
                 PROVE  /\ \E n \in NumbersOf(p) \cup {0} : NumbersOf(p) = 1..n
                        /\ \A v, w \in VersionsOf(p) :
                             version[v].num = version[w].num => v = w
    BY DEF NumbersDense
  <2>2. PICK n \in Nat : Dense(p, n)
    BY <1>1 DEF Inv, Numbered
  <2>3. n \in NumbersOf(p) \cup {0}
    BY <2>2 DEF Dense
  <2>4. QED
    BY <2>2, <2>3 DEF Dense
<1>2. QED
  BY Invariance, <1>1, PTL

(* What is audited is an acknowledgment of an assigned producer             *)
(* (handleAcknowledgePlanVersion).                                          *)
THEOREM AuditsAreTrue == Spec => []AuditTellsTruth
<1>1. Inv => AuditTellsTruth
  BY DEF Inv, Truthful
<1>2. QED
  BY Invariance, <1>1, PTL

(* No step takes a version back. *)
Forward ==
  \A v \in Versions :
    <<version[v].status, version'[v].status>> \in
      {<<s, s>> : s \in States} \cup
      {<<"Absent", "Draft">>, <<"Draft", "Active">>, <<"Active", "Superseded">>}

LEMMA ForwardStep == ASSUME Inv, [Next]_vars PROVE Forward
<1>1. TypeOK /\ \A v \in Versions : version[v].status \in States
  BY DEF Inv, TypeOK
<1>2. CASE Quiet
  BY <1>1, <1>2 DEF Quiet, Forward
<1>3. ASSUME NEW q \in Requests, Activate(q) PROVE Forward
  BY <1>1, <1>3, ActivateRows DEF Forward
<1>4. ASSUME NEW q \in Requests, NEW p \in Plans, NEW v \in Versions,
             ActivateRequest(q, p, v)
      PROVE  Forward
  BY <1>1, <1>4, OneStarts DEF Forward
<1>5. QED
  BY <1>1, <1>2, <1>3, <1>4, QuietStep

(* No step takes a version back (activatePlanVersion).                      *)
THEOREM LifecycleKept == Spec => LifecycleForward
<1>1. Inv /\ [Next]_vars => Forward
  BY ForwardStep
<1>2. QED
  BY Invariance, <1>1, PTL DEF Spec, LifecycleForward, Forward

(* An activation that starts from a Draft leaves its plan with rules in     *)
(* force, if there were any (activatePlanVersion).                          *)
THEOREM PlanKept == Spec => ActivationKeepsPlan
<1> DEFINE Kept ==
      \A q \in Requests, p \in Plans :
        /\ At(q, "activate") /\ req[q].draft /\ req[q].plan = p
        /\ InForce(p) # {}
        /\ req'[q] # req[q]
        => InForce(p)' # {}
<1>1. ASSUME Inv, [Next]_vars PROVE Kept
  <2>1. SUFFICES ASSUME NEW q \in Requests, NEW p \in Plans,
                        At(q, "activate"), req[q].draft, req[q].plan = p,
                        InForce(p) # {}, req'[q] # req[q]
                 PROVE  InForce(p)' # {}
    OBVIOUS
  <2>2. CASE Quiet
    BY <2>1, <2>2 DEF Quiet
  <2>3. ASSUME NEW s \in Requests, Activate(s) PROVE InForce(p)' # {}
    <3>1. CASE s = q
      <4>1. InForce(p)' = (InForce(p) \ req[q].seen) \cup Activated(q)
        BY <1>1, <2>1, <2>3, <3>1, InForceNext DEF Inv
      <4>2. CASE version[req[q].version].status = "Draft"
        BY <2>1, <4>1, <4>2 DEF Activated
      <4>3. CASE version[req[q].version].status # "Draft"
        BY <1>1, <2>1, <4>1, <4>3 DEF Inv, Renewed, Activating
      <4>4. QED
        BY <4>2, <4>3
    <3>2. CASE s # q
      BY <2>1, <2>3, <3>2 DEF Activate, Return
    <3>3. QED
      BY <3>1, <3>2
  <2>4. ASSUME NEW s \in Requests, NEW x \in Plans, NEW v \in Versions,
               ActivateRequest(s, x, v)
        PROVE  InForce(p)' # {}
    BY <1>1, <2>1, <2>4, OneStarts DEF Inv
  <2>5. QED
    BY <1>1, <2>2, <2>3, <2>4, QuietStep DEF Inv
<1>2. QED
  BY Invariance, <1>1, PTL DEF Spec, ActivationKeepsPlan

(* Which version is which, and who acknowledged it (createPlanVersion,      *)
(* handleAcknowledgePlanVersion).                                           *)
THEOREM VersionsAreSound == Spec => []VersionsSound
BY NumbersAreDense, AuditsAreTrue, PTL DEF VersionsSound

-----------------------------------------------------------------------------
(* The tiers of a version that was validated.                               *)

Valid(tiers) == tiers \in Tiers /\ Ascending(tiers)

LEMMA ValidTyped ==
  ASSUME NEW tiers, Valid(tiers)
  PROVE  /\ DOMAIN tiers = 1..Len(tiers) /\ Len(tiers) \in Nat
         /\ \A i \in DOMAIN tiers :
              /\ tiers[i] \in [threshold : Nat, rate : Nat] /\ tiers[i] # None
              /\ tiers[i].threshold \in Nat /\ tiers[i].rate \in Nat
<1>1. tiers \in Seq([threshold : Nat, rate : Nat])
  BY DEF Valid, Tiers
<1>2. DOMAIN tiers = 1..Len(tiers) /\ Len(tiers) \in Nat
  BY <1>1
<1>3. \A i \in DOMAIN tiers : tiers[i] \in [threshold : Nat, rate : Nat]
  <2>. DEFINE T == [threshold : Nat, rate : Nat]
  <2>1. tiers \in Seq(T)
    BY <1>1
  <2>. HIDE DEF T
  <2>2. \A i \in DOMAIN tiers : tiers[i] \in T
    BY <2>1
  <2>. QED BY <2>2 DEF T
<1>. QED BY <1>2, <1>3, NullAssumption

LEMMA Rising ==
  ASSUME NEW tiers, Valid(tiers), NEW i \in DOMAIN tiers, NEW j \in DOMAIN tiers, i < j
  PROVE  tiers[i].threshold < tiers[j].threshold
<1>. DEFINE B == {k \in DOMAIN tiers : i < k /\ ~ (tiers[i].threshold < tiers[k].threshold)}
<1>1. SUFFICES ASSUME B # {} PROVE FALSE
  OBVIOUS
<1>2. B \in SUBSET Nat
  BY ValidTyped
<1>3. PICK k \in B : \A l \in B : k <= l
  <2>. HIDE DEF B
  <2>. QED BY <1>1, <1>2, Least
<1>4. k \in 2..Len(tiers) /\ k - 1 \in DOMAIN tiers /\ k - 1 \notin B /\ i <= k - 1
  BY <1>2, <1>3, ValidTyped
<1>5. tiers[k].threshold > tiers[k - 1].threshold
  BY <1>4 DEF Valid, Ascending
<1>6. tiers[i].threshold <= tiers[k - 1].threshold
  BY <1>4, ValidTyped
<1>7. tiers[i].threshold \in Nat /\ tiers[k].threshold \in Nat /\ tiers[k - 1].threshold \in Nat
  BY <1>4, ValidTyped
<1>. QED BY <1>5, <1>6, <1>7

(* The tier that the loop of applyTiers keeps: the last one reached.        *)
Reached(tiers, p, s) == {i \in s : tiers[i].threshold <= p}

Best(tiers, p, s) ==
  IF Reached(tiers, p, s) = {} THEN None ELSE tiers[Max(Reached(tiers, p, s))]

Better(tiers, p, i, tier) ==
  IF /\ p >= tiers[i].threshold
     /\ tier = None \/ tiers[i].threshold > tier.threshold
    THEN tiers[i] ELSE tier

IsScan(g, tiers, p) ==
  g = [s \in SUBSET DOMAIN tiers |->
         IF s = {} THEN None ELSE Better(tiers, p, Max(s), g[s \ {Max(s)}])]

LEMMA SelectIsScan ==
  ASSUME NEW tiers, NEW p
  PROVE  SelectTier(tiers, p) = (CHOOSE g : IsScan(g, tiers, p))[DOMAIN tiers]
BY DEF SelectTier, FoldLeft, MapThenFoldSet, IsScan, Better

LEMMA MaxIn ==
  ASSUME NEW tiers, Valid(tiers), NEW s \in SUBSET DOMAIN tiers, s # {}
  PROVE  Max(s) \in s /\ \A i \in s : i <= Max(s)
<1>1. s \in SUBSET (0..Len(tiers)) /\ Len(tiers) \in Nat
  BY ValidTyped
<1>. QED BY <1>1, Greatest

LEMMA BestStep ==
  ASSUME NEW tiers, Valid(tiers), NEW p \in Nat, NEW s \in SUBSET DOMAIN tiers, s # {}
  PROVE  Best(tiers, p, s) = Better(tiers, p, Max(s), Best(tiers, p, s \ {Max(s)}))
<1>. DEFINE m == Max(s)
            u == s \ {m}
            a == Reached(tiers, p, s)
            b == Reached(tiers, p, u)
<1>1. m \in s /\ m \in DOMAIN tiers /\ (\A i \in s : i <= m) /\ \A i \in u : i < m
  <2>1. m \in s /\ \A i \in s : i <= m
    BY MaxIn
  <2>2. \A i \in s : i \in Nat
    BY ValidTyped
  <2>. HIDE DEF m
  <2>. QED BY <2>1, <2>2
<1>2. a \in SUBSET DOMAIN tiers /\ b \in SUBSET DOMAIN tiers
  BY DEF Reached
<1>3. CASE p >= tiers[m].threshold
  <2>1. m \in a
    BY <1>1, <1>3, ValidTyped DEF Reached
  <2>2. Max(a) = m
    <3>1. Max(a) \in a /\ m <= Max(a)
      BY <1>2, <2>1, MaxIn
    <3>2. Max(a) \in s /\ Max(a) <= m
      BY <3>1, <1>1 DEF Reached
    <3>3. m \in Nat /\ Max(a) \in Nat
      BY <1>1, <3>2, ValidTyped
    <3>. QED BY <3>1, <3>2, <3>3
  <2>3. Best(tiers, p, s) = tiers[m]
    BY <2>1, <2>2 DEF Best
  <2>4. CASE b = {}
    <3>1. Best(tiers, p, u) = None
      BY <2>4 DEF Best
    <3>. QED BY <1>3, <2>3, <3>1 DEF Better
  <2>5. CASE b # {}
    <3>1. Max(b) \in b /\ Max(b) \in DOMAIN tiers /\ Max(b) < m
      BY <1>1, <1>2, <2>5, MaxIn DEF Reached
    <3>2. Best(tiers, p, u) = tiers[Max(b)]
      BY <2>5 DEF Best
    <3>3. tiers[Max(b)].threshold < tiers[m].threshold
      BY <1>1, <3>1, Rising
    <3>4. tiers[m].threshold > tiers[Max(b)].threshold
      BY <3>1, <3>3, <1>1, ValidTyped
    <3>. QED BY <1>3, <2>3, <3>2, <3>4 DEF Better
  <2>. QED BY <2>4, <2>5
<1>4. CASE ~ (p >= tiers[m].threshold)
  <2>1. a = b
    BY <1>1, <1>4, ValidTyped DEF Reached
  <2>2. Best(tiers, p, s) = Best(tiers, p, u)
    BY <2>1 DEF Best
  <2>. QED BY <1>4, <2>2 DEF Better
<1>. QED BY <1>3, <1>4

LEMMA SelectIsBest ==
  ASSUME NEW tiers, Valid(tiers), NEW p \in Nat
  PROVE  SelectTier(tiers, p) = Best(tiers, p, DOMAIN tiers)
<1>. DEFINE D == DOMAIN tiers
            f == [s \in SUBSET D |-> Best(tiers, p, s)]
            g == CHOOSE h : IsScan(h, tiers, p)
            B == {s \in SUBSET D : g[s] # Best(tiers, p, s)}
<1>1. IsScan(f, tiers, p)
  <2>1. ASSUME NEW s \in SUBSET D
        PROVE  Best(tiers, p, s) =
                 IF s = {} THEN None ELSE Better(tiers, p, Max(s), f[s \ {Max(s)}])
    <3>1. CASE s = {}
      BY <3>1 DEF Best, Reached
    <3>2. CASE s # {}
      <4>1. f[s \ {Max(s)}] = Best(tiers, p, s \ {Max(s)})
        OBVIOUS
      <4>. HIDE DEF f
      <4>. QED BY <3>2, <4>1, BestStep
    <3>. QED BY <3>1, <3>2
  <2>. QED BY <2>1 DEF IsScan
<1>2. IsScan(g, tiers, p)
  <2>. HIDE DEF f
  <2>. QED BY <1>1
<1>3. \A s \in SUBSET D : g[s] = IF s = {} THEN None ELSE Better(tiers, p, Max(s), g[s \ {Max(s)}])
  <2>. HIDE DEF g
  <2>. QED BY <1>2 DEF IsScan
<1>. HIDE DEF f, g
<1>4. B = {}
  <2>1. SUFFICES ASSUME B # {} PROVE FALSE
    OBVIOUS
  <2>2. B \in SUBSET SUBSET D /\ IsFiniteSet(D)
    BY ValidTyped, FS_Interval
  <2>3. PICK s \in B : \A U \in SUBSET s : U # s => U \notin B
    <3>. HIDE DEF B, D
    <3>. QED BY <2>1, <2>2, Smallest
  <2>4. s \in SUBSET D /\ g[s] # Best(tiers, p, s)
    OBVIOUS
  <2>5. CASE s = {}
    BY <1>3, <2>4, <2>5 DEF Best, Reached
  <2>6. CASE s # {}
    <3>1. Max(s) \in s
      BY <2>4, <2>6, MaxIn
    <3>2. g[s \ {Max(s)}] = Best(tiers, p, s \ {Max(s)})
      BY <2>3, <2>4, <3>1
    <3>3. g[s] = Better(tiers, p, Max(s), g[s \ {Max(s)}])
      BY <1>3, <2>4, <2>6
    <3>4. Best(tiers, p, s) = Better(tiers, p, Max(s), Best(tiers, p, s \ {Max(s)}))
      BY <2>4, <2>6, BestStep
    <3>. QED BY <2>4, <3>2, <3>3, <3>4
  <2>. QED BY <2>5, <2>6
<1>5. D \in SUBSET D
  OBVIOUS
<1>6. g[D] = Best(tiers, p, D)
  BY <1>4, <1>5
<1>. QED BY <1>6, SelectIsScan DEF g

(* The rate of the rules: the highest tier that was reached.                *)
LEMMA ReachedBest ==
  ASSUME NEW tiers, Valid(tiers), NEW p \in Nat, Reached(tiers, p, DOMAIN tiers) # {}
  PROVE  LET m == Max(Reached(tiers, p, DOMAIN tiers))
         IN  /\ m \in DOMAIN tiers /\ tiers[m].threshold <= p
             /\ \A i \in DOMAIN tiers : tiers[i].threshold <= p <=> i <= m
<1>. DEFINE a == Reached(tiers, p, DOMAIN tiers)
            m == Max(a)
<1>1. m \in a /\ \A i \in a : i <= m
  BY MaxIn DEF Reached
<1>. HIDE DEF m
<1>2. m \in DOMAIN tiers /\ tiers[m].threshold <= p
  BY <1>1 DEF Reached
<1>3. ASSUME NEW i \in DOMAIN tiers, i <= m
      PROVE  tiers[i].threshold <= p
  <2>1. CASE i = m
    BY <1>2, <2>1
  <2>2. CASE i # m
    <3>1. i < m
      BY <1>2, <1>3, <2>2, ValidTyped
    <3>2. tiers[i].threshold < tiers[m].threshold
      BY <1>2, <3>1, Rising
    <3>. QED BY <1>2, <3>2, ValidTyped
  <2>. QED BY <2>1, <2>2
<1>4. \A i \in DOMAIN tiers : tiers[i].threshold <= p => i <= m
  BY <1>1 DEF Reached
<1>. QED BY <1>2, <1>3, <1>4 DEF m

ValidRules(rules) == Valid(rules.tiers) /\ rules.base_rate \in Nat /\ rules.desk_cost \in Nat

LEMMA AppliedIs ==
  ASSUME NEW rules, ValidRules(rules), NEW p \in Nat
  PROVE  /\ AppliedRate(rules, p) =
              IF Reached(rules.tiers, p, DOMAIN rules.tiers) = {} THEN rules.base_rate
              ELSE rules.tiers[Max(Reached(rules.tiers, p, DOMAIN rules.tiers))].rate
         /\ AppliedRate(rules, p) \in Nat
<1>. DEFINE tiers == rules.tiers
            a == Reached(tiers, p, DOMAIN tiers)
<1>1. Valid(tiers) /\ rules.base_rate \in Nat
  BY DEF ValidRules
<1>2. SelectTier(tiers, p) = Best(tiers, p, DOMAIN tiers)
  BY <1>1, SelectIsBest
<1>. HIDE DEF tiers
<1>3. CASE a = {}
  BY <1>1, <1>2, <1>3 DEF AppliedRate, Best, tiers
<1>4. CASE a # {}
  <2>1. Max(a) \in DOMAIN tiers
    BY <1>1, <1>4, ReachedBest
  <2>2. tiers[Max(a)] # None /\ tiers[Max(a)].rate \in Nat
    BY <1>1, <2>1, ValidTyped
  <2>3. SelectTier(tiers, p) = tiers[Max(a)]
    BY <1>2, <1>4 DEF Best
  <2>4. AppliedRate(rules, p) = tiers[Max(a)].rate
    BY <2>2, <2>3 DEF AppliedRate, tiers
  <2>. QED BY <1>4, <2>2, <2>4 DEF tiers
<1>. QED BY <1>3, <1>4

(* The engine applies the rate that the rules give.                         *)
LEMMA RateForIsApplied ==
  ASSUME NEW rules, ValidRules(rules), NEW p \in Nat
  PROVE  RateFor(rules, p) = AppliedRate(rules, p)
<1>. DEFINE tiers == rules.tiers
            a == Reached(tiers, p, DOMAIN tiers)
            reached == {t \in Range(tiers) : t.threshold <= p}
            top == CHOOSE t \in reached : \A u \in reached : u.threshold <= t.threshold
<1>1. Valid(tiers)
  BY DEF ValidRules
<1>2. reached = {tiers[i] : i \in a}
  BY DEF Range, Reached
<1>3. RateFor(rules, p) = IF reached = {} THEN rules.base_rate ELSE top.rate
  BY DEF RateFor
<1>. HIDE DEF tiers, reached
<1>4. CASE a = {}
  BY <1>2, <1>3, <1>4, AppliedIs DEF tiers
<1>5. CASE a # {}
  <2>. DEFINE m == Max(a)
  <2>1. /\ m \in DOMAIN tiers /\ tiers[m].threshold <= p /\ m \in a
        /\ \A i \in a : i \in DOMAIN tiers /\ i <= m
    BY <1>1, <1>5, ReachedBest DEF Reached
  <2>2. tiers[m] \in reached
    BY <1>2, <2>1
  <2>. HIDE DEF m
  <2>3. \A i \in a : tiers[i].threshold <= tiers[m].threshold
    <3>1. ASSUME NEW i \in a PROVE tiers[i].threshold <= tiers[m].threshold
      <4>1. i \in Nat /\ m \in Nat /\ tiers[i].threshold \in Nat /\ tiers[m].threshold \in Nat
        BY <1>1, <2>1, ValidTyped
      <4>2. i < m => tiers[i].threshold < tiers[m].threshold
        BY <1>1, <2>1, Rising
      <4>. QED BY <2>1, <4>1, <4>2
    <3>. QED BY <3>1
  <2>4. \A u \in reached : u.threshold <= tiers[m].threshold
    BY <1>2, <2>3
  <2>5. top \in reached /\ \A u \in reached : u.threshold <= top.threshold
    BY <2>2, <2>4
  <2>. HIDE DEF top
  <2>6. PICK i \in a : top = tiers[i]
    BY <1>2, <2>5
  <2>7. i = m
    <3>1. tiers[m].threshold <= tiers[i].threshold
      BY <2>2, <2>5, <2>6
    <3>2. i \in Nat /\ m \in Nat /\ tiers[i].threshold \in Nat /\ tiers[m].threshold \in Nat
      BY <1>1, <2>1, ValidTyped
    <3>3. i < m => tiers[i].threshold < tiers[m].threshold
      BY <1>1, <2>1, Rising
    <3>. QED BY <2>1, <3>1, <3>2, <3>3
  <2>8. RateFor(rules, p) = tiers[m].rate
    BY <1>3, <2>2, <2>6, <2>7
  <2>9. AppliedRate(rules, p) = tiers[Max(a)].rate
    BY <1>5, AppliedIs DEF tiers
  <2>. QED BY <2>8, <2>9 DEF m
<1>. QED BY <1>4, <1>5

(* What is sorted already is not moved by a stable sort.                    *)
LEMMA SortedKept ==
  ASSUME NEW tiers, Valid(tiers)
  PROVE  SortedTiers(tiers) = tiers
<1>. DEFINE D == DOMAIN tiers
            Orders(p) == \A i, j \in D : i < j =>
              \/ tiers[p[i]].threshold < tiers[p[j]].threshold
              \/ tiers[p[i]].threshold = tiers[p[j]].threshold /\ p[i] < p[j]
            same == [i \in D |-> i]
            order == CHOOSE p \in [D -> D] : Orders(p)
<1>1. same \in [D -> D] /\ Orders(same)
  BY Rising
<1>2. order \in [D -> D] /\ Orders(order)
  <2>. HIDE DEF same, Orders, D
  <2>. QED BY <1>1
<1>3. SortedTiers(tiers) = [i \in D |-> tiers[order[i]]]
  BY DEF SortedTiers
<1>. HIDE DEF order, same
<1>4. D = 1..Len(tiers) /\ Len(tiers) \in Nat /\ D \in SUBSET Nat
  BY ValidTyped
<1>5. ASSUME NEW i \in D, NEW j \in D, i < j
      PROVE  order[i] < order[j]
  <2>1. order[i] \in D /\ order[j] \in D /\ order[i] \in Nat /\ order[j] \in Nat
    BY <1>2, <1>4
  <2>2. tiers[order[i]].threshold \in Nat /\ tiers[order[j]].threshold \in Nat
    BY <2>1, ValidTyped
  <2>3. \/ tiers[order[i]].threshold < tiers[order[j]].threshold
        \/ tiers[order[i]].threshold = tiers[order[j]].threshold /\ order[i] < order[j]
    BY <1>2, <1>5
  <2>4. order[j] < order[i] => tiers[order[j]].threshold < tiers[order[i]].threshold
    BY <2>1, Rising
  <2>. QED BY <2>1, <2>2, <2>3, <2>4
<1>6. \A i \in D : order[i] >= i
  <2>. DEFINE B == {i \in D : ~ (order[i] >= i)}
  <2>1. SUFFICES ASSUME B # {} PROVE FALSE
    OBVIOUS
  <2>2. B \in SUBSET Nat
    BY <1>4
  <2>3. PICK i \in B : \A j \in B : i <= j
    <3>. HIDE DEF B
    <3>. QED BY <2>1, <2>2, Least
  <2>4. i \in D /\ order[i] \in D /\ order[i] < i
    BY <1>2, <1>4
  <2>5. order[order[i]] < order[i]
    BY <1>5, <2>4
  <2>6. order[i] \in B
    BY <1>2, <1>4, <2>4, <2>5
  <2>. QED BY <1>4, <2>3, <2>4, <2>6
<1>7. \A i \in D : order[i] <= i
  <2>. DEFINE B == {i \in D : ~ (order[i] <= i)}
  <2>1. SUFFICES ASSUME B # {} PROVE FALSE
    OBVIOUS
  <2>2. B \in SUBSET D
    OBVIOUS
  <2>3. PICK i \in B : \A j \in B : j <= i
    <3>. HIDE DEF B
    <3>. QED BY <2>1, <2>2, MaxIn
  <2>4. i \in D /\ order[i] \in D /\ i < order[i]
    BY <1>2, <1>4
  <2>5. order[i] < order[order[i]]
    BY <1>5, <2>4
  <2>6. order[i] \in B
    BY <1>2, <1>4, <2>4, <2>5
  <2>. QED BY <1>4, <2>3, <2>4, <2>6
<1>8. \A i \in D : order[i] = i
  BY <1>2, <1>4, <1>6, <1>7
<1>9. tiers = [i \in D |-> tiers[i]]
  BY DEF Valid, Tiers
<1>. QED BY <1>3, <1>8, <1>9

(* The portal shows the rate that the engine applies, and what comes next.  *)
LEMMA ProgressIs ==
  ASSUME NEW rules, ValidRules(rules), NEW p \in Nat
  PROVE  LET above == {t.threshold : t \in {u \in Range(rules.tiers) : u.threshold > p}}
         IN  /\ computeTierProgress(rules, p).rate = AppliedRate(rules, p)
             /\ computeTierProgress(rules, p).next = IF above = {} THEN None ELSE Min(above)
             /\ computeTierProgress(rules, p).next \in Nat \cup {None}
<1>. DEFINE tiers == rules.tiers
            a == Reached(tiers, p, DOMAIN tiers)
            above == {t.threshold : t \in {u \in Range(rules.tiers) : u.threshold > p}}
            matched == Max({0} \cup {i \in DOMAIN tiers : p >= tiers[i].threshold})
<1>1. Valid(tiers)
  BY DEF ValidRules
<1>2. computeTierProgress(rules, p) =
        [rate |-> IF matched = 0 THEN rules.base_rate ELSE tiers[matched].rate,
         next |-> IF matched < Len(tiers) THEN tiers[matched + 1].threshold ELSE None]
  BY <1>1, SortedKept DEF computeTierProgress
<1>3. a = {i \in DOMAIN tiers : p >= tiers[i].threshold}
  BY <1>1, ValidTyped DEF Reached
<1>4. above = {tiers[i].threshold : i \in DOMAIN tiers \ a}
  <2>1. \A i \in DOMAIN tiers : i \notin a <=> tiers[i].threshold > p
    BY <1>1, ValidTyped DEF Reached
  <2>. QED BY <2>1 DEF Range
<1>5. DOMAIN tiers = 1..Len(tiers) /\ Len(tiers) \in Nat
  BY <1>1, ValidTyped
<1>6. /\ matched \in {0} \cup a /\ \A i \in a : i <= matched
      /\ matched \in 0..Len(tiers)
  <2>. DEFINE b == {0} \cup a
  <2>1. b \in SUBSET (0..Len(tiers)) /\ b # {}
    BY <1>5 DEF Reached
  <2>2. matched = Max(b)
    BY <1>3
  <2>. HIDE DEF matched
  <2>3. Max(b) \in b /\ \A i \in b : i <= Max(b)
    <3>. HIDE DEF b
    <3>. QED BY <1>5, <2>1, Greatest
  <2>. QED BY <2>1, <2>2, <2>3
<1>. HIDE DEF matched
<1>7. /\ a = {} => matched = 0
      /\ a # {} => matched = Max(a) /\ matched # 0
  <2>1. CASE a # {}
    <3>1. Max(a) \in a /\ \A i \in a : i <= Max(a)
      BY <1>1, <2>1, MaxIn DEF Reached
    <3>2. \A i \in a : i \in 1..Len(tiers)
      BY <1>5 DEF Reached
    <3>. QED BY <1>5, <1>6, <3>1, <3>2
  <2>. QED BY <1>6, <2>1
<1>8. \A i \in DOMAIN tiers : i \in a <=> i <= matched
  <2>1. CASE a = {}
    BY <1>5, <1>7, <2>1
  <2>2. CASE a # {}
    <3>1. \A i \in DOMAIN tiers : tiers[i].threshold <= p <=> i <= Max(a)
      BY <1>1, <2>2, ReachedBest
    <3>2. \A i \in DOMAIN tiers : i \in a <=> tiers[i].threshold <= p
      BY DEF Reached
    <3>. HIDE DEF a, tiers
    <3>. QED BY <1>7, <2>2, <3>1, <3>2
  <2>. QED BY <2>1, <2>2
<1>9. computeTierProgress(rules, p).rate = AppliedRate(rules, p)
  <2>1. AppliedRate(rules, p) = IF a = {} THEN rules.base_rate ELSE tiers[Max(a)].rate
    BY AppliedIs
  <2>2. computeTierProgress(rules, p).rate =
          IF matched = 0 THEN rules.base_rate ELSE tiers[matched].rate
    BY <1>2
  <2>. HIDE DEF a, tiers
  <2>. QED BY <1>7, <2>1, <2>2
<1>10. CASE matched < Len(tiers)
  <2>. DEFINE n == matched + 1
  <2>1. n \in DOMAIN tiers /\ n \notin a /\ tiers[n].threshold \in Nat
    BY <1>1, <1>5, <1>6, <1>8, <1>10, ValidTyped
  <2>2. ASSUME NEW i \in DOMAIN tiers \ a
        PROVE  tiers[n].threshold <= tiers[i].threshold
    <3>1. i = n \/ n < i
      BY <1>5, <1>6, <1>8, <2>2
    <3>2. n < i => tiers[n].threshold < tiers[i].threshold
      BY <1>1, <2>1, <2>2, Rising
    <3>3. tiers[i].threshold \in Nat
      BY <1>1, <2>2, ValidTyped
    <3>. QED BY <2>1, <3>1, <3>2, <3>3
  <2>. HIDE DEF n, above
  <2>3. tiers[n].threshold \in above /\ \A x \in above : tiers[n].threshold <= x /\ x \in Nat
    BY <1>1, <1>4, <2>1, <2>2, ValidTyped
  <2>4. Min(above) \in above /\ \A x \in above : Min(above) <= x
    BY <2>3, Zenon DEF Min
  <2>5. Min(above) = tiers[n].threshold
    BY <2>3, <2>4
  <2>6. computeTierProgress(rules, p).next = tiers[n].threshold
    BY <1>2, <1>10 DEF n
  <2>. QED BY <1>9, <2>1, <2>3, <2>5, <2>6 DEF above
<1>11. CASE ~ (matched < Len(tiers))
  <2>1. above = {}
    <3>1. \A i \in DOMAIN tiers : i <= matched
      BY <1>5, <1>6, <1>11
    <3>2. \A i \in DOMAIN tiers : i \in a
      BY <3>1, <1>8
    <3>. HIDE DEF above, a
    <3>. QED BY <1>4, <3>2
  <2>2. computeTierProgress(rules, p).next = None
    BY <1>2, <1>11
  <2>. QED BY <1>9, <2>1, <2>2
<1>. QED BY <1>10, <1>11

-----------------------------------------------------------------------------
(* What a calculation has read stays true, for an invoice is not unpaid, a  *)
(* window does not open again and a version does not become a Draft.        *)

ForcedOnce(v) == v \in Versions /\ version[v].status \in {"Active", "Superseded"}

CalcOK(k) ==
  /\ calc[k].collected = "yes" => Bills # {} /\ Bills \subseteq paid
  /\ calc[k].inside = "no" => ~window
  /\ calc[k].pc \in {"idle", "release"} =>
       calc[k].next = 1 /\ calc[k].collected = "unknown" /\ calc[k].inside = "unknown"
  /\ calc[k].pc \notin {"idle", "release"} => calc[k].next \in 1..Len(Contributors)
  /\ calc[k].pc \in {"plan", "fallback", "insert"} =>
       calc[k].collected # "unknown" /\ calc[k].inside # "unknown"
  /\ calc[k].pc = "insert" => ForcedOnce(calc[k].version)

RecordOK(m) ==
  /\ ForcedOnce(m.version)
  /\ m.gross = Owed(m.version, m.contributor)
  /\ m.status = "Accrued" => /\ m.net + m.drawn = m.gross
                             /\ Bills # {} /\ Bills \subseteq paid /\ ~window

PriceInv == /\ PricingTypeOK
            /\ \A k \in Calcs : CalcOK(k)
            /\ \A r \in Inserted : RecordOK(priced[r])
            /\ ProgressAgrees

LEMMA RulesValid ==
  ASSUME NEW v \in Versions
  PROVE  ValidRules(RulesOf[v]) /\ RulesOf[v].rate_type \in RateTypes
BY RulesAssumption DEF ValidRules, Valid

LEMMA BaseTyped ==
  ASSUME NEW v \in Versions, NEW c \in Credited
  PROVE  calculateBase(RulesOf[v], c) \in Nat
<1>1. \A a, b \in Nat : a * b \in Nat
  OBVIOUS
<1>2. SplitOf[c] \in Nat
  BY ContributorsAssumption, AmountsAssumption
<1>3. FeeAmount \in Nat /\ CompensationBase \in Nat
  BY AmountsAssumption
<1>. QED BY <1>1, <1>2, <1>3 DEF calculateBase

LEMMA MaxPair ==
  ASSUME NEW x \in Int
  PROVE  Max({0, x}) = IF x > 0 THEN x ELSE 0
<1>1. \E m \in {0, x} : \A y \in {0, x} : m >= y
  OBVIOUS
<1>2. Max({0, x}) \in {0, x} /\ \A y \in {0, x} : Max({0, x}) >= y
  BY <1>1, Zenon DEF Max
<1>. QED BY <1>2

LEMMA MinPair ==
  ASSUME NEW x \in Nat
  PROVE  Min({x, 0}) = 0
<1>1. \E m \in {x, 0} : \A y \in {x, 0} : m <= y
  OBVIOUS
<1>2. Min({x, 0}) \in {x, 0} /\ \A y \in {x, 0} : Min({x, 0}) <= y
  BY <1>1, Zenon DEF Min
<1>. QED BY <1>2

(* The stages together give what the rules say.                             *)
LEMMA PipelineIs ==
  ASSUME NEW c \in Credited, NEW v \in Versions, NEW collected \in BOOLEAN, NEW inside \in BOOLEAN
  PROVE  LET m == runCalculationPipeline(c, v, collected, inside)
         IN  /\ m \in Record /\ m.contributor = c /\ m.version = v
             /\ m.gross = Owed(v, c)
             /\ m.status = "Accrued" => collected /\ ~inside /\ m.net + m.drawn = m.gross
<1>. DEFINE rules == RulesOf[v]
            base == calculateBase(rules, c)
            rate == AppliedRate(rules, base)
            over == Max({0, base - rules.desk_cost})
            gross == over * rate
            m == runCalculationPipeline(c, v, collected, inside)
<1>1. base \in Nat /\ ValidRules(rules) /\ rules.desk_cost \in Nat
  BY BaseTyped, RulesValid DEF ValidRules
<1>2. rate \in Nat /\ RateFor(rules, base) = rate
  BY <1>1, AppliedIs, RateForIsApplied
<1>3. over = IF base <= rules.desk_cost THEN 0 ELSE base - rules.desk_cost
  BY <1>1, MaxPair
<1>4. over \in Nat
  BY <1>1, <1>3
<1>5. gross \in Nat /\ gross = Owed(v, c)
  <2>1. \A a, b \in Nat : a * b \in Nat /\ 0 * b = 0
    OBVIOUS
  <2>2. Owed(v, c) = IF base <= rules.desk_cost THEN 0
                     ELSE (base - rules.desk_cost) * RateFor(rules, base)
    BY DEF Owed
  <2>. HIDE DEF base, rate, over, rules
  <2>. QED BY <1>2, <1>3, <1>4, <2>1, <2>2
<1>6. applyTiers(rules, base, YtdGross) = [rate |-> rate, gross |-> gross]
  <2>1. YtdGross + base = base
    BY <1>1 DEF YtdGross
  <2>. HIDE DEF base, rules
  <2>. QED BY <2>1 DEF applyTiers
<1>7. recoverDraw(gross, DrawBalance) = [drawn |-> 0, net |-> gross]
  <2>. HIDE DEF gross
  <2>1. Max({0, DrawBalance}) = 0
    BY MaxPair DEF DrawBalance
  <2>2. Min({gross, 0}) = 0
    BY <1>5, MinPair
  <2>. DEFINE drawn == Min({gross, Max({0, DrawBalance})})
  <2>3. recoverDraw(gross, DrawBalance) = [drawn |-> drawn, net |-> gross - drawn]
    BY DEF recoverDraw
  <2>4. drawn = 0
    BY <2>1, <2>2
  <2>. HIDE DEF drawn
  <2>. QED BY <1>5, <2>3, <2>4
<1>. DEFINE final == applyGuaranteeHold(gateOnCollection(gross, collected), inside)
<1>8. m = [contributor |-> c, version |-> v, rate |-> rate, gross |-> gross,
           drawn |-> 0, net |-> final.net,
           status |-> IF final.forCollection \/ final.forGuarantee THEN "Held" ELSE "Accrued",
           reason |-> CASE final.forCollection -> "collection_gate"
                        [] ~final.forCollection /\ final.forGuarantee -> "guarantee_hold"
                        [] OTHER -> "none"]
  <2>. HIDE DEF gross, rate, base
  <2>. QED BY <1>6, <1>7 DEF runCalculationPipeline, base
<1>. HIDE DEF gross, rate, base, rules, m
<1>9. /\ final.net \in Nat
      /\ final.forCollection = ~collected /\ final.forGuarantee = inside
      /\ collected /\ ~inside => final.net = gross
  BY <1>5 DEF gateOnCollection, applyGuaranteeHold
<1>. HIDE DEF final
<1>10. final.forCollection \in BOOLEAN /\ final.forGuarantee \in BOOLEAN
  BY <1>9
<1>11. /\ m.contributor = c /\ m.version = v /\ m.gross = gross /\ m.drawn = 0
       /\ m.net = final.net /\ m.rate = rate
       /\ m.status = IF final.forCollection \/ final.forGuarantee THEN "Held" ELSE "Accrued"
  BY <1>8
<1>12. m \in Record
  BY <1>2, <1>5, <1>8, <1>9, <1>10 DEF Record
<1>13. m.gross = Owed(v, c)
  BY <1>5, <1>11
<1>14. m.status = "Accrued" => collected /\ ~inside
  BY <1>9, <1>11
<1>15. m.status = "Accrued" => m.net + m.drawn = m.gross
  BY <1>5, <1>9, <1>11, <1>14
<1>. QED BY <1>11, <1>12, <1>13, <1>14, <1>15 DEF m

LEMMA PricingStart == ASSUME PricingInit PROVE PriceInv
<1>1. PricingTypeOK
  <2>1. Len(Contributors) \in Nat
    BY ContributorsAssumption
  <2>2. NoCalculation \in Calculation
    BY <2>1 DEF NoCalculation, Calculation, Answers
  <2>. QED BY <2>2 DEF PricingInit, PricingTypeOK
<1>2. Inserted = {}
  BY DEF PricingInit, Inserted
<1>3. \A k \in Calcs : CalcOK(k)
  BY DEF PricingInit, CalcOK, NoCalculation
<1>4. ProgressAgrees
  BY DEF PricingInit, ProgressAgrees
<1>. QED BY <1>1, <1>2, <1>3, <1>4 DEF PriceInv

(* Versions that were in force stay so or are superseded.                   *)
LEMMA PricingKept ==
  ASSUME PriceInv, UNCHANGED pricing, \A v : ForcedOnce(v) => ForcedOnce(v)'
  PROVE  PriceInv'
<1>1. paid' = paid /\ window' = window /\ priced' = priced /\ shown' = shown /\ calc' = calc
  BY DEF pricing
<1>2. PricingTypeOK' /\ ProgressAgrees'
  BY <1>1 DEF PriceInv, PricingTypeOK, ProgressAgrees
<1>3. \A k \in Calcs : CalcOK(k)'
  BY <1>1 DEF PriceInv, CalcOK
<1>4. \A r \in Inserted : RecordOK(priced[r])'
  BY <1>1 DEF PriceInv, RecordOK
<1>5. Inserted' = Inserted
  BY <1>1 DEF Inserted
<1>. QED BY <1>2, <1>3, <1>4, <1>5 DEF PriceInv

(* A step of one calculation that leaves the tables alone.                  *)
LEMMA OneMoves ==
  ASSUME PriceInv, NEW k \in Calcs, NEW m \in Calculation, calc' = [calc EXCEPT ![k] = m],
         UNCHANGED version, UNCHANGED rows, CalcOK(k)'
  PROVE  PriceInv'
<1>1. paid' = paid /\ window' = window /\ priced' = priced /\ shown' = shown
  BY DEF rows
<1>2. PricingTypeOK' /\ ProgressAgrees'
  BY <1>1 DEF PriceInv, PricingTypeOK, ProgressAgrees
<1>3. \A l \in Calcs : l # k => calc'[l] = calc[l]
  BY DEF PriceInv, PricingTypeOK
<1>4. \A l \in Calcs : CalcOK(l)'
  BY <1>1, <1>3 DEF PriceInv, CalcOK, ForcedOnce
<1>5. \A r \in Inserted : RecordOK(priced[r])'
  BY <1>1 DEF PriceInv, RecordOK, ForcedOnce
<1>6. Inserted' = Inserted
  BY <1>1 DEF Inserted
<1>. QED BY <1>1, <1>2, <1>4, <1>5, <1>6 DEF PriceInv

LEMMA CalcTyped ==
  ASSUME PriceInv, NEW k \in Calcs
  PROVE  /\ calc[k] \in Calculation /\ calc \in [Calcs -> Calculation]
         /\ Len(Contributors) \in Nat /\ NoCalculation \in Calculation
         /\ NoCalculation.pc = "idle" /\ NoCalculation.next = 1
         /\ NoCalculation.collected = "unknown" /\ NoCalculation.inside = "unknown"
<1>1. Len(Contributors) \in Nat
  BY ContributorsAssumption
<1>. QED BY <1>1 DEF PriceInv, PricingTypeOK, NoCalculation, Calculation, Answers

(* The calculation is given up, or done.                                    *)
LEMMA Dropped ==
  ASSUME PriceInv, NEW k \in Calcs, calc' = [calc EXCEPT ![k] = NoCalculation],
         UNCHANGED version, UNCHANGED rows
  PROVE  PriceInv'
<1>1. calc'[k] = NoCalculation
  BY CalcTyped
<1>2. CalcOK(k)'
  BY <1>1, CalcTyped DEF CalcOK
<1>. QED BY <1>2, CalcTyped, OneMoves

(* It picks a version that is in force. *)
LEMMA Picks ==
  ASSUME PriceInv, NEW k \in Calcs, calc[k].pc \in {"plan", "fallback"},
         NEW v \in Versions, ForcedOnce(v), Price(k, v), UNCHANGED version, UNCHANGED rows
  PROVE  PriceInv'
<1>. DEFINE m == [calc[k] EXCEPT !.pc = "insert", !.version = v]
<1>1. m \in Calculation /\ m.pc = "insert" /\ m.version = v /\ m.next = calc[k].next
        /\ m.collected = calc[k].collected /\ m.inside = calc[k].inside
  BY CalcTyped DEF Calculation
<1>2. calc' = [calc EXCEPT ![k] = m]
  BY CalcTyped DEF Price
<1>3. calc'[k] = m
  BY <1>2, CalcTyped
<1>4. paid' = paid /\ window' = window /\ version' = version
  BY DEF rows
<1>. HIDE DEF m
<1>5. CalcOK(k)'
  BY <1>1, <1>3, <1>4 DEF PriceInv, CalcOK, ForcedOnce
<1>. QED BY <1>1, <1>2, <1>5, OneMoves

(* It only goes on. *)
LEMMA Proceeds ==
  ASSUME PriceInv, NEW k \in Calcs, NEW pc \in {"plan", "fallback"},
         \/ calc[k].pc = "plan"
         \/ calc[k].pc = "resolve" /\ calc[k].collected # "unknown" /\ calc[k].inside # "unknown",
         calc' = [calc EXCEPT ![k].pc = pc], UNCHANGED version, UNCHANGED rows
  PROVE  PriceInv'
<1>. DEFINE m == [calc[k] EXCEPT !.pc = pc]
<1>1. m \in Calculation /\ m.pc = pc /\ m.next = calc[k].next
        /\ m.collected = calc[k].collected /\ m.inside = calc[k].inside
  BY CalcTyped DEF Calculation
<1>2. calc' = [calc EXCEPT ![k] = m]
  BY CalcTyped
<1>3. calc'[k] = m
  BY <1>2, CalcTyped
<1>4. paid' = paid /\ window' = window /\ version' = version
  BY DEF rows
<1>. HIDE DEF m
<1>5. CalcOK(k)'
  BY <1>1, <1>3, <1>4 DEF PriceInv, CalcOK
<1>. QED BY <1>1, <1>2, <1>5, OneMoves

LEMMA ResolveStep ==
  ASSUME PriceInv, NEW k \in Calcs, UNCHANGED version,
         \/ CalculateRequest(k) \/ resolveInvoiceCollected(k)
         \/ resolveInsideGuaranteeWindow(k) \/ Resolved(k)
  PROVE  PriceInv'
<1>1. CASE CalculateRequest(k)
  <2>. DEFINE m == [calc[k] EXCEPT !.pc = "resolve"]
  <2>1. m \in Calculation /\ m.pc = "resolve" /\ m.next = calc[k].next
          /\ m.collected = calc[k].collected /\ m.inside = calc[k].inside
    BY CalcTyped DEF Calculation
  <2>2. calc' = [calc EXCEPT ![k] = m] /\ UNCHANGED rows
    BY <1>1, CalcTyped DEF CalculateRequest
  <2>3. calc'[k] = m
    BY <2>2, CalcTyped
  <2>4. calc[k].next = 1 /\ calc[k].collected = "unknown" /\ calc[k].inside = "unknown"
    BY <1>1 DEF CalculateRequest, CalcAt, PriceInv, CalcOK
  <2>5. 1 \in 1..Len(Contributors)
    BY <1>1, ContributorsAssumption DEF CalculateRequest
  <2>. HIDE DEF m
  <2>6. CalcOK(k)'
    BY <2>1, <2>3, <2>4, <2>5 DEF CalcOK
  <2>. QED BY <2>1, <2>2, <2>6, OneMoves
<1>2. CASE resolveInvoiceCollected(k)
  <2>. DEFINE a == Answer(Bills # {} /\ Bills \subseteq paid)
              m == [calc[k] EXCEPT !.collected = a]
  <2>1. a \in Answers /\ a # "unknown" /\ (a = "yes" => Bills # {} /\ Bills \subseteq paid)
    BY DEF Answer, Answers
  <2>. HIDE DEF a
  <2>2. m \in Calculation /\ m.pc = calc[k].pc /\ m.next = calc[k].next
          /\ m.collected = a /\ m.inside = calc[k].inside
    BY <2>1, CalcTyped DEF Calculation
  <2>3. calc' = [calc EXCEPT ![k] = m] /\ UNCHANGED rows /\ calc[k].pc = "resolve"
    BY <1>2, CalcTyped DEF resolveInvoiceCollected, CalcAt, a
  <2>4. calc'[k] = m /\ paid' = paid /\ window' = window
    BY <2>3, CalcTyped DEF rows
  <2>. HIDE DEF m
  <2>5. CalcOK(k)'
    BY <2>1, <2>2, <2>3, <2>4 DEF PriceInv, CalcOK
  <2>. QED BY <2>2, <2>3, <2>5, OneMoves
<1>3. CASE resolveInsideGuaranteeWindow(k)
  <2>. DEFINE a == Answer(window)
              m == [calc[k] EXCEPT !.inside = a]
  <2>1. a \in Answers /\ a # "unknown" /\ (a = "no" => ~window)
    BY DEF Answer, Answers
  <2>. HIDE DEF a
  <2>2. m \in Calculation /\ m.pc = calc[k].pc /\ m.next = calc[k].next
          /\ m.collected = calc[k].collected /\ m.inside = a
    BY <2>1, CalcTyped DEF Calculation
  <2>3. calc' = [calc EXCEPT ![k] = m] /\ UNCHANGED rows /\ calc[k].pc = "resolve"
    BY <1>3, CalcTyped DEF resolveInsideGuaranteeWindow, CalcAt, a
  <2>4. calc'[k] = m /\ paid' = paid /\ window' = window
    BY <2>3, CalcTyped DEF rows
  <2>. HIDE DEF m
  <2>5. CalcOK(k)'
    BY <2>1, <2>2, <2>3, <2>4 DEF PriceInv, CalcOK
  <2>. QED BY <2>2, <2>3, <2>5, OneMoves
<1>4. CASE Resolved(k)
  BY <1>4, Proceeds DEF Resolved, CalcAt
<1>. QED BY <1>1, <1>2, <1>3, <1>4

LEMMA PickStep ==
  ASSUME PriceInv, NEW k \in Calcs, UNCHANGED version,
         resolveActivePlanVersion(k) \/ FallbackVersion(k)
  PROVE  PriceInv'
<1>1. \A v \in ActiveVersions : v \in Versions /\ ForcedOnce(v)
  BY DEF ActiveVersions, ForcedOnce
<1>2. CASE resolveActivePlanVersion(k)
  <2>1. calc[k].pc = "plan" /\ UNCHANGED rows
    BY <1>2 DEF resolveActivePlanVersion, CalcAt
  <2>2. CASE calc' = [calc EXCEPT ![k].pc = "fallback"]
    BY <2>1, <2>2, Proceeds
  <2>3. CASE \E v \in ActiveVersions : Price(k, v)
    BY <1>1, <2>1, <2>3, Picks
  <2>. QED BY <1>2, <2>2, <2>3 DEF resolveActivePlanVersion
<1>3. CASE FallbackVersion(k)
  <2>1. calc[k].pc = "fallback" /\ UNCHANGED rows
    BY <1>3 DEF FallbackVersion, CalcAt
  <2>2. CASE calc' = [calc EXCEPT ![k] = NoCalculation]
    BY <2>1, <2>2, Dropped
  <2>3. CASE \E v \in ActiveVersions : Price(k, v)
    BY <1>1, <2>1, <2>3, Picks
  <2>. QED BY <1>3, <2>2, <2>3 DEF FallbackVersion
<1>. QED BY <1>2, <1>3

LEMMA NextIs ==
  ASSUME NEW k, NextContributor(k), calc[k].next < Len(Contributors)
  PROVE  calc' = [calc EXCEPT ![k] =
                    [calc[k] EXCEPT !.pc = "plan", !.next = calc[k].next + 1, !.version = None]]
BY DEF NextContributor

(* A row is written, of what was read.                                      *)
LEMMA InsertStep ==
  ASSUME PriceInv, NEW k \in Calcs, NEW r \in Rows, InsertPriced(k, r), UNCHANGED version
  PROVE  PriceInv'
<1>. DEFINE c == Contributors[calc[k].next]
            v == calc[k].version
            collected == calc[k].collected = "yes"
            inside == calc[k].inside = "yes"
            row == runCalculationPipeline(c, v, collected, inside)
<1>1. /\ calc[k].pc = "insert" /\ r \notin Inserted
      /\ paid' = paid /\ window' = window /\ shown' = shown /\ version' = version
  BY DEF InsertPriced, CalcAt
<1>2. CASE calc' = [calc EXCEPT ![k] = NoCalculation] /\ priced' = priced
  BY <1>1, <1>2, Dropped DEF rows
<1>3. CASE priced' = [priced EXCEPT ![r] = row] /\ NextContributor(k)
  <2>1. c \in Credited /\ ForcedOnce(v) /\ v \in Versions
    <3>1. calc[k].next \in 1..Len(Contributors) /\ ForcedOnce(v)
      BY <1>1 DEF PriceInv, CalcOK
    <3>2. DOMAIN Contributors = 1..Len(Contributors)
      BY ContributorsAssumption
    <3>3. Contributors[calc[k].next] \in Range(Contributors)
      BY <3>1, <3>2 DEF Range
    <3>. QED BY <3>1, <3>3 DEF Credited, ForcedOnce
  <2>. HIDE DEF c
  <2>2. collected \in BOOLEAN /\ inside \in BOOLEAN
    OBVIOUS
  <2>3. /\ collected => Bills # {} /\ Bills \subseteq paid
        /\ ~inside => ~window
    <3>1. calc[k].inside \in Answers /\ calc[k].inside # "unknown"
      BY <1>1, CalcTyped DEF PriceInv, CalcOK, Calculation
    <3>. QED BY <3>1 DEF PriceInv, CalcOK, Answers
  <2>. HIDE DEF v, collected, inside
  <2>. PICK m : m = row
    OBVIOUS
  <2>4. /\ m \in Record /\ m.version = v /\ m.gross = Owed(m.version, m.contributor)
        /\ m.status = "Accrued" => collected /\ ~inside /\ m.net + m.drawn = m.gross
    BY <2>1, <2>2, PipelineIs
  <2>. HIDE DEF row
  <2>5. RecordOK(m)'
    <3>1. ForcedOnce(m.version)' /\ (m.gross = Owed(m.version, m.contributor))'
      BY <1>1, <2>1, <2>4 DEF ForcedOnce
    <3>2. m.status = "Accrued" => /\ m.net + m.drawn = m.gross
                                  /\ Bills # {} /\ Bills \subseteq paid' /\ ~window'
      BY <1>1, <2>3, <2>4
    <3>. QED BY <3>1, <3>2 DEF RecordOK
  <2>6. /\ priced \in [Rows -> Record \cup {None}] /\ m # None
        /\ priced' \in [Rows -> Record \cup {None}]
        /\ \A x \in Rows : priced'[x] = IF x = r THEN m ELSE priced[x]
    BY <1>3, <2>4, NullAssumption DEF PriceInv, PricingTypeOK
  <2>7. Inserted' = Inserted \cup {r}
    BY <2>6 DEF Inserted
  <2>8. \A x \in Inserted : RecordOK(priced[x])'
    <3>1. ASSUME NEW x \in Inserted PROVE RecordOK(priced[x])'
      <4>1. priced'[x] = priced[x] /\ x \in Rows
        BY <1>1, <2>6, <3>1 DEF Inserted
      <4>2. RecordOK(priced[x])
        BY <3>1 DEF PriceInv
      <4>. QED BY <1>1, <4>1, <4>2 DEF RecordOK, ForcedOnce
    <3>. QED BY <3>1
  <2>9. RecordOK(priced[r])'
    <3>1. priced'[r] = m
      BY <2>6
    <3>. QED BY <2>5, <3>1
  <2>10. calc' \in [Calcs -> Calculation] /\ \A l \in Calcs : CalcOK(l)'
    <3>1. \A l \in Calcs : l # k => calc'[l] = calc[l]
      BY <1>3, CalcTyped DEF NextContributor
    <3>2. \A l \in Calcs : l # k => CalcOK(l)'
      BY <1>1, <3>1 DEF PriceInv, CalcOK, ForcedOnce
    <3>3. CASE calc[k].next < Len(Contributors)
      <4>. DEFINE n == [calc[k] EXCEPT !.pc = "plan", !.next = calc[k].next + 1, !.version = None]
      <4>1. /\ calc[k].next + 1 \in 1..Len(Contributors) /\ calc[k].next + 1 \in 1..Len(Contributors) + 1
        BY <3>3, CalcTyped DEF Calculation
      <4>2. n \in Calculation /\ n.pc = "plan" /\ n.next = calc[k].next + 1
              /\ n.collected = calc[k].collected /\ n.inside = calc[k].inside
        BY <4>1, CalcTyped DEF Calculation
      <4>3. calc' = [calc EXCEPT ![k] = n]
        BY <1>3, <3>3, NextIs
      <4>. HIDE DEF n
      <4>4. calc'[k] = n /\ calc' \in [Calcs -> Calculation]
        BY <4>2, <4>3, CalcTyped
      <4>5. CalcOK(k)'
        BY <1>1, <4>1, <4>2, <4>4 DEF PriceInv, CalcOK
      <4>. QED BY <3>2, <4>4, <4>5
    <3>4. CASE ~ (calc[k].next < Len(Contributors))
      <4>1. calc' = [calc EXCEPT ![k] = NoCalculation]
        BY <1>3, <3>4 DEF NextContributor
      <4>2. calc'[k] = NoCalculation /\ calc' \in [Calcs -> Calculation]
        BY <4>1, CalcTyped
      <4>3. CalcOK(k)'
        BY <4>2, CalcTyped DEF CalcOK
      <4>. QED BY <3>2, <4>2, <4>3
    <3>. QED BY <3>3, <3>4
  <2>11. ProgressAgrees'
    BY <1>1 DEF PriceInv, ProgressAgrees
  <2>12. PricingTypeOK'
    BY <1>1, <2>6, <2>10 DEF PriceInv, PricingTypeOK
  <2>. QED BY <2>7, <2>8, <2>9, <2>10, <2>11, <2>12 DEF PriceInv
<1>. QED BY <1>2, <1>3 DEF InsertPriced, Contributor

(* The gate is released: what is released was held.                         *)
LEMMA ReleaseStep ==
  ASSUME PriceInv, NEW k \in Calcs, releaseCollectionGate(k), UNCHANGED version
  PROVE  PriceInv'
<1>1. /\ paid' = paid /\ window' = window /\ shown' = shown /\ version' = version
      /\ calc' = [calc EXCEPT ![k] = NoCalculation]
      /\ priced' = [r \in Rows |->
           IF r \in Inserted /\ priced[r].status = "Held" /\ priced[r].reason = "collection_gate"
             THEN [priced[r] EXCEPT !.status = "Payable", !.reason = "none"] ELSE priced[r]]
  BY DEF releaseCollectionGate
<1>2. ASSUME NEW r \in Rows, r \in Inserted
      PROVE  priced'[r] \in Record /\ priced'[r] # None /\ RecordOK(priced[r])'
  <2>1. priced[r] \in Record /\ RecordOK(priced[r])
    BY <1>2 DEF PriceInv, PricingTypeOK, Inserted
  <2>2. CASE priced'[r] = priced[r]
    BY <1>1, <2>1, <2>2, NullAssumption DEF RecordOK, ForcedOnce
  <2>3. CASE priced'[r] = [priced[r] EXCEPT !.status = "Payable", !.reason = "none"]
    <3>1. PICK m : m = [priced[r] EXCEPT !.status = "Payable", !.reason = "none"]
      OBVIOUS
    <3>2. m \in Record /\ m.status = "Payable" /\ m.version = priced[r].version
            /\ m.gross = priced[r].gross /\ m.contributor = priced[r].contributor
      BY <2>1, <3>1 DEF Record
    <3>3. RecordOK(m)'
      BY <1>1, <2>1, <3>2 DEF RecordOK, ForcedOnce
    <3>4. priced'[r] = m
      BY <2>3, <3>1
    <3>. QED BY <3>2, <3>3, <3>4, NullAssumption
  <2>. QED BY <1>1, <1>2, <2>2, <2>3
<1>3. ASSUME NEW r \in Rows, r \notin Inserted
      PROVE  priced'[r] = None
  BY <1>1, <1>3 DEF Inserted
<1>4. Inserted' = Inserted
  BY <1>2, <1>3 DEF Inserted
<1>5. priced' \in [Rows -> Record \cup {None}]
  <2>1. DOMAIN priced' = Rows /\ priced' = [r \in Rows |-> priced'[r]]
    BY <1>1
  <2>. QED BY <1>2, <1>3, <2>1
<1>6. calc'[k] = NoCalculation /\ \A l \in Calcs : l # k => calc'[l] = calc[l]
  BY <1>1, CalcTyped
<1>7. \A l \in Calcs : CalcOK(l)'
  <2>1. CalcOK(k)'
    BY <1>6, CalcTyped DEF CalcOK
  <2>2. \A l \in Calcs : l # k => CalcOK(l)'
    BY <1>1, <1>6 DEF PriceInv, CalcOK, ForcedOnce
  <2>. QED BY <2>1, <2>2
<1>8. PricingTypeOK' /\ ProgressAgrees'
  BY <1>1, <1>5, CalcTyped DEF PriceInv, PricingTypeOK, ProgressAgrees
<1>9. Inserted \subseteq Rows
  BY DEF Inserted
<1>. QED BY <1>2, <1>4, <1>7, <1>8, <1>9 DEF PriceInv

LEMMA PayStep ==
  ASSUME PriceInv, NEW k \in Calcs, NEW b \in Bills, PayBill(k, b), UNCHANGED version
  PROVE  PriceInv'
<1>. DEFINE m == [calc[k] EXCEPT !.pc = "release"]
<1>1. /\ paid' = paid \cup {b} /\ window' = window /\ priced' = priced /\ shown' = shown
      /\ version' = version /\ calc[k].pc = "idle"
      /\ calc' = [calc EXCEPT ![k] = m]
  BY CalcTyped DEF PayBill, CalcAt
<1>2. m \in Calculation /\ m.pc = "release" /\ m.next = calc[k].next
        /\ m.collected = calc[k].collected /\ m.inside = calc[k].inside
  BY CalcTyped DEF Calculation
<1>. HIDE DEF m
<1>3. calc'[k] = m /\ \A l \in Calcs : l # k => calc'[l] = calc[l]
  BY <1>1, CalcTyped
<1>4. CalcOK(k)'
  BY <1>1, <1>2, <1>3 DEF PriceInv, CalcOK
<1>5. \A l \in Calcs : l # k => CalcOK(l)'
  BY <1>1, <1>3 DEF PriceInv, CalcOK, ForcedOnce
<1>6. \A r \in Inserted : RecordOK(priced[r])'
  BY <1>1 DEF PriceInv, RecordOK, ForcedOnce
<1>7. PricingTypeOK' /\ ProgressAgrees' /\ Inserted' = Inserted
  BY <1>1, <1>2, CalcTyped DEF PriceInv, PricingTypeOK, ProgressAgrees, Inserted
<1>. QED BY <1>1, <1>4, <1>5, <1>6, <1>7 DEF PriceInv

LEMMA WindowStep ==
  ASSUME PriceInv, WindowCloses, UNCHANGED version
  PROVE  PriceInv'
<1>1. /\ paid' = paid /\ window' = FALSE /\ priced' = priced /\ shown' = shown
      /\ version' = version /\ calc' = calc
  BY DEF WindowCloses
<1>2. \A k \in Calcs : CalcOK(k)'
  BY <1>1 DEF PriceInv, CalcOK, ForcedOnce
<1>3. \A r \in Inserted : RecordOK(priced[r])'
  BY <1>1 DEF PriceInv, RecordOK, ForcedOnce
<1>4. PricingTypeOK' /\ ProgressAgrees' /\ Inserted' = Inserted
  BY <1>1 DEF PriceInv, PricingTypeOK, ProgressAgrees, Inserted
<1>. QED BY <1>1, <1>2, <1>3, <1>4 DEF PriceInv

LEMMA ProgressStep ==
  ASSUME PriceInv, NEW a \in Producers, getTierProgressForProducer(a), UNCHANGED version
  PROVE  PriceInv'
<1>. DEFINE counted == {r \in Inserted : /\ ProducerOf[priced[r].contributor] = a
                                         /\ priced[r].status # "Held"}
            production == Sum(Gross, counted)
<1>1. production \in Nat
  <2>1. counted \in SUBSET Rows /\ IsFiniteSet(counted) /\ counted \subseteq Inserted
    BY RowsAssumption, FS_Subset DEF Inserted
  <2>2. \A r \in Inserted : priced[r].gross \in Nat
    BY DEF PriceInv, PricingTypeOK, Inserted, Record
  <2>3. \A r \in counted : Gross[r] \in Nat
    BY <2>1, <2>2 DEF Gross
  <2>. HIDE DEF counted
  <2>. QED BY <2>1, <2>3, SumNat
<1>2. PICK v \in ActiveVersions :
        shown' = [version |-> v, production |-> production,
                  rate |-> computeTierProgress(RulesOf[v], production).rate,
                  next |-> computeTierProgress(RulesOf[v], production).next]
  BY DEF getTierProgressForProducer, Sum
<1>3. paid' = paid /\ window' = window /\ priced' = priced /\ calc' = calc /\ version' = version
  BY DEF getTierProgressForProducer
<1>. HIDE DEF production
<1>4. v \in Versions
  BY DEF ActiveVersions
<1>5. shown'.version = v /\ shown'.production = production
        /\ shown'.rate = computeTierProgress(RulesOf[v], production).rate
        /\ shown'.next = computeTierProgress(RulesOf[v], production).next
  BY <1>2
<1>6. AppliedRate(RulesOf[v], production) \in Nat
  BY <1>1, <1>4, RulesValid, AppliedIs
<1>7. /\ shown'.rate = AppliedRate(RulesOf[v], production)
      /\ shown'.next \in Nat \cup {None}
      /\ shown'.next = IF {t.threshold : t \in {u \in Range(RulesOf[v].tiers) :
                                                  u.threshold > production}} = {} THEN None
                       ELSE Min({t.threshold : t \in {u \in Range(RulesOf[v].tiers) :
                                                        u.threshold > production}})
  BY <1>1, <1>4, <1>5, RulesValid, ProgressIs
<1>8. ProgressAgrees'
  BY <1>5, <1>7 DEF ProgressAgrees
<1>9. shown' \in Progress
  BY <1>1, <1>2, <1>4, <1>5, <1>6, <1>7 DEF Progress
<1>10. PricingTypeOK' /\ Inserted' = Inserted
  BY <1>3, <1>9 DEF PriceInv, PricingTypeOK, Inserted
<1>11. \A k \in Calcs : CalcOK(k)'
  BY <1>3 DEF PriceInv, CalcOK, ForcedOnce
<1>12. \A r \in Inserted : RecordOK(priced[r])'
  BY <1>3 DEF PriceInv, RecordOK, ForcedOnce
<1>. QED BY <1>8, <1>10, <1>11, <1>12 DEF PriceInv

LEMMA PricingStep ==
  ASSUME PriceInv, PricingNext, UNCHANGED version
  PROVE  PriceInv'
<1>1. ASSUME NEW k \in Calcs, Calculate(k) PROVE PriceInv'
  BY <1>1, ResolveStep, PickStep, InsertStep DEF Calculate
<1>2. ASSUME NEW k \in Calcs, Pay(k) PROVE PriceInv'
  BY <1>2, PayStep, ReleaseStep DEF Pay
<1>3. ASSUME NEW k \in Calcs, FailCalculation(k) PROVE PriceInv'
  BY <1>3, Dropped DEF FailCalculation
<1>. QED BY <1>1, <1>2, <1>3, ProgressStep, WindowStep DEF PricingNext

(* Versions and prices together.                                            *)
LEMMA PriceInvariance == PricingSpec => [](Inv /\ PriceInv)
<1>1. Init /\ PricingInit => Inv /\ PriceInv
  BY InvInit, PricingStart
<1>2. ASSUME Inv, PriceInv,
             [\/ Next /\ UNCHANGED pricing
              \/ PricingNext /\ UNCHANGED vars]_<<vars, pricing>>
      PROVE  Inv' /\ PriceInv'
  <2>1. CASE [Next]_vars /\ UNCHANGED pricing
    <3>1. Inv' /\ Forward
      BY <1>2, <2>1, InvStep, ForwardStep
    <3>2. \A v : ForcedOnce(v) => ForcedOnce(v)'
      BY <3>1 DEF Forward, ForcedOnce, States
    <3>. QED BY <1>2, <2>1, <3>1, <3>2, PricingKept
  <2>2. CASE PricingNext /\ UNCHANGED vars
    <3>1. [Next]_vars /\ UNCHANGED version
      BY <2>2 DEF vars
    <3>2. Inv'
      BY <1>2, <3>1, InvStep
    <3>. QED BY <1>2, <2>2, <3>1, <3>2, PricingStep
  <2>3. CASE UNCHANGED <<vars, pricing>>
    BY <2>1, <2>3
  <2>. QED BY <1>2, <2>1, <2>2, <2>3
<1>. QED BY <1>1, <1>2, PTL DEF PricingSpec

(* The tables, the requests and the calculations keep their types.          *)
THEOREM PricingTyped == PricingSpec => []MCTypeOK
<1>1. Inv /\ PriceInv => MCTypeOK
  BY DEF Inv, PriceInv, MCTypeOK
<1>. QED BY <1>1, PriceInvariance, PTL

(* Whatever versions are activated and superseded, invoices paid and        *)
(* windows closed between the statements of any number of calculations: a   *)
(* record is priced by the rules of a version that was in force, accrues    *)
(* only when the gate is open, and the portal shows the rate that the       *)
(* engine applies (runCalculationPipeline, computeTierProgress).            *)
THEOREM PricesAreSound == PricingSpec => []PriceSound
<1>1. ASSUME PriceInv PROVE PriceSound
  <2>1. PricedByRules /\ AccruedIsCollected
    BY <1>1 DEF PriceInv, RecordOK, ForcedOnce, PricedByRules, AccruedIsCollected
  <2>. QED BY <1>1, <2>1 DEF PriceInv, PriceSound
<1>. QED BY <1>1, PriceInvariance, PTL
=============================================================================
