SPECIFICATION FairSpec
CONSTANTS
  Seeders = {"compose", "manual"}
  StartRaces = TRUE
  RotatesInUse = FALSE
  MaxOps = 5
  MaxEntries = 1
INVARIANTS TypeOK SeedSettles PrintedLoginsWork PasswordsAgree
PROPERTY RerunRepairs
CHECK_DEADLOCK FALSE
