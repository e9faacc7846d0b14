SPECIFICATION Spec
CONSTANTS
  r1 = r1
  r2 = r2
  r3 = r3
  c1 = c1
  c2 = c2
  alice = alice
  bob = bob
  NULL = NULL
  DbRoles <- MCDbRoles
  Reqs = {r1, r2}
  Callers <- AdminAndAnalyst
  SubClaim <- OwnSub
  UserIds = {"a", "b"}
  Conns = {c1, c2}
  RowCounts = {0, 1}
  TableNames = {"audit_logs"}
  AuditLimit = 2
  MaxCrashes = 1
  RATE_LIMIT_RPM = 5
  WINDOW = 1
  MAX_ROWS = 2
  Queries <- TwoQueries
  MaxTime = 0
SYMMETRY CallSymmetry
INVARIANT AllQueriesAudited
