SPECIFICATION Spec
CONSTANTS
  DbRoles <- MCDbRoles
  RoleSets <- SomeRoleSets
  Queries <- ShapeQueries
  UserIds = {u1, u2}
  RATE_LIMIT_RPM = 2
  WINDOW = 1
  MAX_ROWS = 2
  MaxTime = 2
SYMMETRY UserSymmetry
INVARIANTS TypeOK RateBound RefusedOnlyWhenFull WindowIsRecentHistory DenialMatchesListing FlatQueriesBounded
PROPERTY ImplementsRateLimit
