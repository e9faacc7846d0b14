SPECIFICATION Spec
CONSTANTS
  NULL = NULL
  DbRoles <- MCDbRoles
  RoleSets <- AllRoleSets
  Calls <- MCCalls
INVARIANT MaskingTotal
