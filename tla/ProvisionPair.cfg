SPECIFICATION Spec
CONSTANTS
    Provisioners = {p1, p2}
    NumTenants = 2
    NumVersioned = 2
    Faults = {"create", "script", "seed", "lost", "query", "edited"}
    MaxStarts = 2
    MaxChanges = 1
INVARIANTS TypeOK MigratedHasVersions CleanExitCoversAll
PROPERTY TenantKeepsLog
CHECK_DEADLOCK FALSE
