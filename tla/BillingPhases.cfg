CONSTANTS
  p1 = p1  p2 = p2  c1 = c1  c2 = c2  c3 = c3  i1 = i1  i2 = i2
  r1 = r1  r2 = r2  q1 = q1  q2 = q2  b1 = b1  b2 = b2
  None = None
  Absent = Absent  Deleted = Deleted
  Placements = {p1, p2}
  Contributors = {c1, c2, c3}
  Dates = {1, 2}
  Spans = {1, 2}
  Splits = {1, 2}
  Whole = 2
  Tolerance = 0
  Bodies <- MCBodies
  Scenes <- MCScenes
  MaxEvents = 3
  Requests = {q1, q2}
  Phases <- MCPhases
  Invoices = {i1, i2}
  Records = {r1, r2}
  Bills = {b1, b2}
  a1 = a1  x1 = x1  e1 = e1  e2 = e2  e3 = e3
  Processes = {a1}
  DbModules = {"commission-records", "draw-balance"}
  Tolerant = {"draw-balance"}
  Fields = {"net_payable"}
  Cells = {x1}
  Encryptors = {e1, e2}
  Seals = {q1, q2}
  Unset = Unset
  Ttl = 2
  LastTick = 3
  MaxDrawn = 2
  s1 = s1  s2 = s2
  Deals = {p1, p2}
  Shares = {s1, s2}
  DealOf <- MCDealOf
  Readers = {x1}
  ReaderRoles = {"FinanceAdmin", "Manager", "HR", "Producer"}
  Credits = {c1, c2}
  Lines = {r1, r2}
  LineOf <- MCLineOf
  PlaceOf <- MCPlaceOf
  ClientOf <- MCClientOf
  ProducerOf <- MCProducerOf
  NetOf <- MCNetOf
  MaxExceptions = 2
  MaxChanges = 2
  Items = {b1, b2, c1}
  EditSlots = {q1, q2}
  MaxEdits = 3
SPECIFICATION MCSpec
SYMMETRY Symmetry
INVARIANTS MCTypeOK TablesAgree KeysSound ReadsSound SumsAgree PagesTell
CHECK_DEADLOCK FALSE
