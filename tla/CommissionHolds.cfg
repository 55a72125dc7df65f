SPECIFICATION MCSpec
CONSTANTS
  p1 = p1
  r1 = r1
  r2 = r2
  i1 = i1
  i2 = i2
  ph1 = ph1
  q1 = q1
  q2 = q2
  Records = {r1, r2}
  Placements = {p1}
  PlacementOf <- MCPlacementOf
  Phases = {ph1}
  PhasesOf <- MCPhasesOf
  PhaseOf <- MCPhaseOf
  Invoices = {i1, i2}
  InvoiceOf <- MCInvoiceOf
  BilledTo <- MCBilledTo
  Targets = {"Paid", "Disputed", "Issued"}
  Requests = {q1, q2}
  None = None
  Imports = TRUE
  Failures = TRUE
SYMMETRY MCSymmetry
INVARIANTS TypeOK HoldsSound SerialReleases
PROPERTIES OutcomeFinal
CHECK_DEADLOCK FALSE
