SPECIFICATION Spec
CONSTANTS
  h1 = h1
  h2 = h2
  Holds = {h2}
  Amount <- Amounts
  Tokens <- NoTokens
  Source <- AllExternal
  PoolLimit = 1
  CreditLimit = 3
  Costs = {0, 1}
  TokenUse = {0}
  Callers = {c1, c2}
  Reapers = {r1}
  RetainFlag = FALSE
  Faults = {}
  MaxFaults = 0
  MaxCrashes = 0
SYMMETRY Symmetry
INVARIANTS
  CaptureLearnsWhoWon
CHECK_DEADLOCK FALSE
