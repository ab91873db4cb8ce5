SPECIFICATION Spec
CONSTANTS
  LastPeriod = 1
  Threads = {t1, t2}
  Figures = {1}
  Rates = {1, 2}
  Requests = {}
  GrantIds = {}
  Amounts = {}
  Costs = {}
  Overlaps = {"rate"}
  MaxJobs = 5
  MaxSpend = 1
  MaxAttempts = 1
INVARIANTS
  LimitIdentity
CHECK_DEADLOCK FALSE
