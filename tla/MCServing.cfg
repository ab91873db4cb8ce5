CONSTANTS
  r1 = r1
  r2 = r2
  Requests = {r1, r2}
  RoutesOf <- MCRoutesOf
  Targets <- MCTargets
  Enforced = TRUE
  FailuresOf <- MCFailuresOf
  MaxMints = 2
SPECIFICATION FairSpec
INVARIANTS WorkIsNotForgotten WrittenOnce
PROPERTIES SeenTokenStays EveryHoldEnds
CHECK_DEADLOCK FALSE
