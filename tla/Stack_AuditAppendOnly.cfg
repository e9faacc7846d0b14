SPECIFICATION Spec
CONSTANTS
  Seeders = {"compose", "manual"}
  StartRaces = TRUE
  RotatesInUse = FALSE
  MaxOps = 3
  MaxEntries = 1
PROPERTY AuditAppendOnly
CHECK_DEADLOCK FALSE
