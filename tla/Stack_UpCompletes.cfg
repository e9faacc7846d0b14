SPECIFICATION FairSpec
CONSTANTS
  Seeders = {"compose", "manual"}
  StartRaces = FALSE
  RotatesInUse = TRUE
  MaxOps = 3
  MaxEntries = 1
PROPERTY UpCompletes
CHECK_DEADLOCK FALSE
