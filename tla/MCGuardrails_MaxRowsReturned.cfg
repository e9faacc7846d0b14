SPECIFICATION Spec
CONSTANTS
  DbRoles <- MCDbRoles
  RoleSets <- SomeRoleSets
  Queries <- ShapeQueries
  UserIds = {u1}
  RATE_LIMIT_RPM = 1
  WINDOW = 1
  MAX_ROWS = 2
  MaxTime = 0
INVARIANT MaxRowsReturned
