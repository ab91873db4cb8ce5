SPECIFICATION Spec
CONSTANTS
  h1 = h1
  h2 = h2
  Holds = {h1}
  Amount <- Amounts
  Tokens <- NoTokens
  Source <- AllInline
  PoolLimit = 2
  CreditLimit = 3
  Costs = {1}
  TokenUse = {0}
  Callers = {c1}
  Reapers = {r1}
  RetainFlag = FALSE
  Faults = {"timeout"}
  MaxFaults = 1
  MaxCrashes = 0
SYMMETRY Symmetry
INVARIANTS
  ObservedChargeIsDurable
CHECK_DEADLOCK FALSE
