SPECIFICATION MCSpec
CONSTANTS
  p1 = p1
  p2 = p2
  v1 = v1
  v2 = v2
  v3 = v3
  a1 = a1
  c1 = c1
  c2 = c2
  k1 = k1
  k2 = k2
  Plans = {p1}
  Versions = {v1, v2}
  Producers = {a1}
  PlanOf <- MCPlanOf
  Requests = {q1, q2, q3}
  None = None
  Failures = TRUE
  Contributors <- MCContributors
  ProducerOf <- MCProducerOf
  SplitOf <- MCSplitOf
  Whole = 4
  FeeAmount = 2
  CompensationBase = 2
  RulesOf <- MCRulesOf
  Bills = {b1, b2}
  Rows = {r1, r2}
  Calcs = {k1, k2}
SYMMETRY MCSymmetry
INVARIANTS MCTypeOK VersionsSound PriceSound
PROPERTIES ActivationKeepsPlan
