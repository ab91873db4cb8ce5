SPECIFICATION Spec
CONSTANTS
  LastPeriod = 1
  Threads = {t1, t2}
  Figures = {1}
  Rates = {1, 2}
  Requests = {r1}
  GrantIds = {g1}
  Amounts = {1}
  Costs = {1}
  Overlaps = {"clear"}
  MaxJobs = 3
  MaxSpend = 1
  MaxAttempts = 1
SYMMETRY Symmetry
INVARIANTS
  LimitIdentity
CHECK_DEADLOCK FALSE
