SPECIFICATION Spec
CONSTANTS
  h1 = h1
  h2 = h2
  Holds = {h1, h2}
  Amount <- Amounts
  Tokens <- OneToken
  Source <- OneOfEach
  PoolLimit = 3
  CreditLimit = 2
  Costs = {1, 3}
  TokenUse = {0}
  Callers = {c1, c2}
  Reapers = {r1, r2}
  RetainFlag = TRUE
  Faults = {"exhaust", "timeout", "owe", "late", "retain", "reclaim"}
  MaxFaults = 2
  MaxCrashes = 1
SYMMETRY Symmetry
INVARIANTS
  Accounts
  ResolverLearnsWhoWon
PROPERTIES
  RetainedIsNotReclaimed
  ImplementsLedger
CHECK_DEADLOCK FALSE
