CONSTANTS
  None = None
  o = o
  h1 = h1
  h2 = h2
  k1 = k1
  k2 = k2
  c1 = c1
  c2 = c2
  Holds = {o, h1, h2}
  Old = {o}
  Keys = {k1, k2}
  Callers = {c1, c2}
  Amounts = {1, 2}
  Charges = {1}
  Deployments <- MCDeployments
  OldAmount = 2
  Limit = 4
  Pages <- MCPages
  BatchSize = 2
  RetryAttempts = 1
  MaxDefects = 1
  MaxFailures = 2
SPECIFICATION Spec
INVARIANT OneHoldPerKey
PROPERTIES PassIsExact RepairIsSound EveryReserveIsProjected
CHECK_DEADLOCK FALSE
