SPECIFICATION JobsSpec
CONSTANTS
  h1 = h1
  h2 = h2
  Holds = {h1, h2}
  Amount <- Amounts
  Limit = 2
  Costs = {1}
  Callers = {c1, c2}
  Reconcilers = {r1}
  Prompt = TRUE
  Faults = {"commit", "status", "credit", "marker"}
  MaxFaults = 1
  MaxCrashes = 1
INVARIANTS
  DebitsAddUp
  DebitIsRecoverable
PROPERTIES
  ImplementsProtocol
  DebitsReturn
CHECK_DEADLOCK FALSE
