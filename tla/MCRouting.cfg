SPECIFICATION Spec
CONSTANTS
  w1 = w1
  w2 = w2
  r1 = r1
  opus = opus
  mini = mini
  fable = fable
  Workers = {w1, w2}
  Requests = {r1}
  At <- MCAt
  Models = {opus, mini, fable}
  Speaks = {opus, fable}
  Gated = {fable}
  ScopeOf <- MCScopeOf
  Bounded = {"us"}
  Policies <- MCPolicies
  Overrides <- MCOverrides
  Asked <- MCAsked
  Pins <- MCPins
  None = None
  Unknown = Unknown
  CacheTTL = 2
  StaleRetry = 1
  Warm = {fable}
  MaxEdits = 2
  MaxOutages = 1
  MaxChanges = 2
PROPERTY PolicyIsRecent AdmittedIsAllowed
