SPECIFICATION MCSpec
CONSTANTS
  p1 = p1
  r1 = r1
  e1 = e1
  e2 = e2
  e3 = e3
  q1 = q1
  q2 = q2
  q3 = q3
  d1 = d1
  d2 = d2
  manager = manager
  executive = executive
  admin = admin
  c1 = c1
  c2 = c2
  a1 = a1
  a2 = a2
  a3 = a3
  Records = {r1}
  Placements = {p1}
  PlacementOf <- MCPlacementOf
  Exceptions = {e1, e2}
  RecordOf <- MCRecordOf
  Impact <- MCImpact
  Requests = {q1, q2}
  None = None
  Failures = FALSE
  Disputes = {d1}
  DisputedRecord <- MCDisputedRecord
  Pages = {admin}
  KindOf <- MCKindOf
  Calls = {}
  Posts = {}
  Claims = {a1}
  Entitled = {w1, w2}
  Counts = {3}
INVARIANT NetIsTotal
CHECK_DEADLOCK FALSE
