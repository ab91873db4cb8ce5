CONSTANTS
  r1 = r1
  r2 = r2
  Requests = {r1, r2}
  RoutesOf <- OneStream
  Targets <- MCTargets
  Enforced = TRUE
  FailuresOf <- Timeouts
  MaxMints = 1
SPECIFICATION Spec
INVARIANT ReturnedMeansNoWork
CHECK_DEADLOCK FALSE
