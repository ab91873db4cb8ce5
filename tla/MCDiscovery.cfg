CONSTANTS
  None = None
  p1 = p1
  p2 = p2
  w1 = w1
  w2 = w2
  o1 = o1
  o2 = o2
  Profiles = {p1, p2}
  Aliases = {"sonnet", "opus"}
  Builds <- MCBuilds
  RateRows = {"tier"}
  Shapes <- MCShapes
  Offered <- MCOffered
  WorkerOf <- MCWorkerOf
  Known = {p1, p2}
  Wishes <- MCWishes
  PricedKeys = {"tier"}
  Invocations = {"sync"}
  Workers = {w1, w2}
  Operators = {o1}
  Traffic = {"t"}
  ProbeLimit = 2
  MaxStamps = 2
  MaxMoves = 1
  MaxRestarts = 1
SPECIFICATION FairSpec
INVARIANTS ServedAsVerified
PROPERTIES WithdrawnIsNotActivated NamesNeverMove EveryWorkerServes
CHECK_DEADLOCK FALSE
