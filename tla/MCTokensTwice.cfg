SPECIFICATION Spec
CONSTANTS
  h1 = h1
  h2 = h2
  Holds = {h1, h2}
  Amount <- Amounts
  Tokens <- OneToken
  Source <- AllInline
  PoolLimit = 3
  CreditLimit = 2
  Costs = {1}
  TokenUse = {0}
  Callers = {c1}
  Reapers = {r1}
  RetainFlag = FALSE
  Faults = {"release"}
  MaxFaults = 1
  MaxCrashes = 0
SYMMETRY Symmetry
INVARIANTS
  LiveTokensStayDebited
CHECK_DEADLOCK FALSE
