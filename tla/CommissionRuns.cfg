SPECIFICATION Spec
CONSTANTS
  Records = {r1, r2}
  p1 = p1
  p2 = p2
  Placements <- MCPlacements
  PlacementOf <- MCPlacementOf
  Runs = {n1}
  Requests = {q1, q2}
  None = None
SYMMETRY MCSymmetry
INVARIANTS ApprovedRunReviewed
