SPECIFICATION MCSpec
CONSTANTS
  t1 = t1
  t2 = t2
  k1 = k1
  k3 = k3
  Tasks = {t1, t2}
  Tokens = {k1, k3}
  TaskOf <- MCTaskOf
  SimTokens = {k1}
  Polls = 2
  MaxAttempts = 2
  None = None
INVARIANTS MCTypeOK ClaimsExclusive
PROPERTIES LivesAsPromised ForecastOnce PageSettles
CHECK_DEADLOCK FALSE
