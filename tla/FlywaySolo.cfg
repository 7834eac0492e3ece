SPECIFICATION Spec
CONSTANTS
    Runners = {r1}
    NumVersioned = 2
    NumRepeatable = 1
    NumStmts = 2
    Editions = 3
    Rerunnable = {2, 3}
    Wiping = {3}
    Late = {2}
    Commands = {"migrate", "status", "validate", "reset"}
    Faults = {"stmt", "psql", "crash"}
    MaxStarts = 3
INVARIANTS UpToDateSeedIsIntact
CHECK_DEADLOCK FALSE
