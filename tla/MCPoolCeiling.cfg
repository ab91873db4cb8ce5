SPECIFICATION Spec
CONSTANTS
  LastPeriod = 2
  Threads = {t1, t2}
  Figures = {1}
  Rates = {1, 2}
  Requests = {r1}
  GrantIds = {g1, g2}
  Amounts = {1}
  Costs = {1}
  Overlaps = {}
  MaxJobs = 3
  MaxSpend = 1
  MaxAttempts = 1
SYMMETRY Symmetry
INVARIANTS
  RowAddsUp
  GrantsAddUp
PROPERTIES
  SpendIsKept
CHECK_DEADLOCK FALSE
