---------------------------- MODULE MCPlanVersions ----------------------------
(* PlanVersions and CommissionPricing on a small instance.  What happens is  *)
(* one of two things, chosen at the start:                                   *)
(*   versions  requests number, activate and acknowledge the versions of a   *)
(*             plan;                                                         *)
(*   pricing   a placement of two contributors is calculated and paid while  *)
(*             the second version of the plan is activated.                  *)
EXTENDS CommissionPricing

CONSTANTS p1, p2, v1, v2, v3, a1, c1, c2, k1, k2

VARIABLE subject

(* v3 is a version of the other plan, if there is one. *)
MCPlanOf == [v \in Versions |-> IF v = v3 /\ p2 \in Plans THEN p2 ELSE p1]

MCContributors == <<c1, c2>>
MCProducerOf == [c \in {c1, c2} |-> a1]
MCSplitOf == [c \in {c1, c2} |-> IF c = c1 THEN 1 ELSE 3]

(* With v1 the two contributors reach different tiers, c1 exactly; with v2   *)
(* the desk cost is more than c1 is credited with.                           *)
MCRulesOf ==
  [v \in Versions |->
    IF v = v1
      THEN [rate_type |-> "gross_fee", base_rate |-> 1, desk_cost |-> 1,
            tiers |-> <<[threshold |-> 2, rate |-> 2], [threshold |-> 5, rate |-> 3]>>]
      ELSE [rate_type |-> "net_fee_income", base_rate |-> 4, desk_cost |-> 3,
            tiers |-> <<[threshold |-> 4, rate |-> 5]>>]]

MCInit ==
  /\ PricingInit
  /\ subject \in {"versions", "pricing"}
  /\ IF subject = "versions"
       THEN Init /\ window = FALSE
       ELSE /\ plans = {p1}
            /\ version = [v \in Versions |-> [status |-> "Draft",
                                              num |-> IF v = v1 THEN 1 ELSE 2]]
            /\ assigned \in {{}, {<<v1, a1>>}, {<<v2, a1>>}}
            /\ acks = {}
            /\ audited = [va \in Versions \X Producers |-> 0]
            /\ req = [q \in Requests |-> Idle]

(* One request at a time activates a version; k1 calculates, and k2 pays;
   the producer looks at the portal once. *)
ActivateNext ==
  \E q \in Requests : /\ \A p \in Requests \ {q} : At(p, "idle")
                      /\ \/ \E v \in Versions : ActivateRequest(q, p1, v) /\ req'[q].draft
                         \/ Activate(q)

CalcNext == \/ Calculate(k1) \/ FailCalculation(k1) \/ Pay(k2) \/ WindowCloses
            \/ shown = None /\ getTierProgressForProducer(a1)

MCNext ==
  /\ UNCHANGED subject
  /\ \/ subject = "versions" /\ Next /\ UNCHANGED pricing
     \/ subject = "pricing" /\ ActivateNext /\ UNCHANGED pricing
     \/ subject = "pricing" /\ CalcNext /\ UNCHANGED vars

MCSpec == MCInit /\ [][MCNext]_<<vars, pricing, subject>>

MCTypeOK == TypeOK /\ PricingTypeOK

MCSymmetry == UNION {Permutations(Requests), Permutations(Rows), Permutations(Bills)}
=============================================================================
