SPECIFICATION Spec
CONSTANTS
  NULL = NULL
  DbRoles <- MCDbRoles
  RoleSets <- AllRoleSets
  Calls <- MCCalls
INVARIANTS HiddenIsReported ReadonlySeesNoSensitive HigherRoleSeesMore  DescribeAgrees
