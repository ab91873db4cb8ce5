SPECIFICATION Spec
CONSTANTS
  Users = {a, b}
  Root = a
  Legacy = {b}
  Tenants = {d, t}
  DEFAULT_ORG = d
  ADMIN_OWNED = admin_owned
  Keys = {k}
  Tickets = {x}
  Signatures = {s}
  Principals = {q}
  SignedAt = 1
  SKEW = 1
  NONCE_TTL = 2
  Procs = {p1, p2}
  MAX_ACTIVE_KEYS_PER_USER = 1
  MaxOps = 2
  MaxClock = 3
  Overlaps = FALSE
  NoRow = NoRow
  NoKey = NoKey
  None = None
PROPERTY TombstonesAreFinal
CHECK_DEADLOCK FALSE
