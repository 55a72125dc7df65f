SPECIFICATION MCSpec
CONSTANTS
  p1 = p1
  r1 = r1
  q1 = q1
  a = a
  Records = {r1, r2}
  Placements = {p1}
  PlacementOf <- MCPlacementOf
  Runs = {n1}
  Requests = {q1, q2}
  None = None
  Numbers = {a}
  Issues <- MCIssues
  Feeds <- MCFeeds
  Period = {1, 9}
  MaxGap = 5
  Rows = {d1, d2, d3}
  Scenes <- MCScenes
  Reports = {g1, g2}
  Visits = {v1}
  Gaps = {f1, f2}
  PageCalls = {d1, d2, d3}
  MaxReports = 2
SYMMETRY MCSymmetry
INVARIANTS MCTypeOK ReportTells ApprovalSound ExportSound
PROPERTIES GateHolds Irrevocable
CHECK_DEADLOCK FALSE
