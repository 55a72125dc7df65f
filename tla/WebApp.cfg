CONSTANTS
  k1 = k1  k2 = k2  k3 = k3  u1 = u1  u2 = u2  c1 = c1  c2 = c2  pk1 = pk1  pk2 = pk2
  t1 = t1  t2 = t2  q1 = q1  q2 = q2  r1 = r1  r2 = r2  s1 = s1  s2 = s2  s3 = s3
  v1 = v1  v2 = v2  v3 = v3
  Keys = {k1, k2, k3}
  Users = {u1, u2}
  Members = {u1}
  Challenges = {c1, c2}
  Passkeys = {pk1, pk2}
  Tokens = {t1, t2}
  Calls = {q1, q2}
  MaxCount = 2
  None = None
  SessionScenes <- MCSessionScenes
  Clients = {"client"}
  Window = 4
  MaxRequests = 2
  Second = 3
  MaxTime = 10
  MaxSame = 3
  Rows = {r1, r2}
  Posts = {s1, s2}
  Personas = {u1, u2}
  Probes = {s1, s2, s3}
  Attempts = {s1, s2}
  MaxChanges = 2
  Selections = {pk1, pk2}
  SelectCalls = {k1, k2, k3}
  MaxSelects = 3
  Days = {1, 2, 3, 4, 5, 6}
  MonthOf <- MCMonthOf
  MAX_BUCKETS = 2
  Deployers = {k1, k2}
  Images = {v1, v2, v3}
  GoodImages = {v1, v2}
  FirstImage = v1
  Types = 2
  MaxDeploys = 2
SPECIFICATION Spec
INVARIANTS TypeOK SessionsSound LimiterSound PagesServed ScreensTell RolloutSound
PROPERTIES ScreenSettles FailureAtBoundary
CHECK_DEADLOCK FALSE
