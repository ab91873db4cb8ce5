SPECIFICATION FairSpec
CONSTANTS
  h1 = h1
  h2 = h2
  Holds = {h1, h2}
  Amount <- Amounts
  Tokens <- NoTokens
  Source <- OneOfEach
  PoolLimit = 2
  CreditLimit = 3
  Costs = {1, 3}
  TokenUse = {0}
  Callers = {c1, c2}
  Reapers = {r1}
  RetainFlag = TRUE
  Faults = {"exhaust", "release", "mark", "retain"}
  MaxFaults = 2
  MaxCrashes = 0
INVARIANT
  ObservedSpendIsKept
PROPERTIES
  ExpiredHoldsEnd
  OwedIsBooked
CHECK_DEADLOCK FALSE
