CONSTANTS
  big = big
  small = small
  Requests = {r1, r2}
  Setters = {s1, s2}
  GrantIds = {g1}
  Chain <- MCChain
  Cost <- MCCost
  QuotaOf <- MCQuotaOf
  Tokens = 1
  Actuals = {1, 3}
  TokensUsed = {0, 2}
  Bases = {1, 3}
  Totals = {1, 2}
  GrantAmount = 1
  PoolLimit = 3
  LastPeriod = 2
  Privileged = FALSE
  RETENTION = 1
  MaxAdmin = 2
  MaxFaults = 1
  Overlaps = FALSE
SPECIFICATION Spec
SYMMETRY Symmetry
INVARIANTS SealedAsAcked NeverUndercounted
PROPERTY AdmittedFits
CHECK_DEADLOCK FALSE
