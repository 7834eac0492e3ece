SPECIFICATION FairSpec
CHECK_DEADLOCK FALSE
CONSTANTS
  Procs = {p1, p2}
  NumTenants = 2
  NumVersions = 2
  Shaky = {p2}
  Stoppable = {p2}
  MaxStarts = 2
  MaxChanges = 1
INVARIANTS TypeOK CleanExitMeansMigrated
PROPERTY HealthyTenantsGetMigrated
