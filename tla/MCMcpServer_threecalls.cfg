SPECIFICATION Spec
CONSTANTS
  r1 = r1
  r2 = r2
  r3 = r3
  c1 = c1
  c2 = c2
  alice = alice
  bob = bob
  NULL = NULL
  DbRoles <- MCDbRoles
  Reqs = {r1, r2, r3}
  Callers <- OneAdmin
  SubClaim <- OwnSub
  UserIds = {"a", "b"}
  Conns = {c1, c2}
  RowCounts = {1}
  TableNames = {}
  AuditLimit = 1
  MaxCrashes = 0
  RATE_LIMIT_RPM = 2
  WINDOW = 0
  MAX_ROWS = 2
  Queries <- OneQuery
  MaxTime = 1
SYMMETRY CallSymmetry
INVARIANTS AuditLogComplete RunningWithinQuota RateLimitIsPersonal
