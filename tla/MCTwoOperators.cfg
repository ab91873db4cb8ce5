SPECIFICATION Spec
CONSTANTS
  h1 = h1
  h2 = h2
  Holds = {h1, h2}
  Amount <- Amounts
  Tokens <- OneToken
  Source <- AllInline
  PoolLimit = 3
  CreditLimit = 2
  Costs = {1}
  TokenUse = {1}
  Callers = {c1, c2}
  Reapers = {r1}
  RetainFlag = TRUE
  Faults = {}
  MaxFaults = 0
  MaxCrashes = 0
SYMMETRY Symmetry
INVARIANTS
  RetentionGivenBackOnce
CHECK_DEADLOCK FALSE
