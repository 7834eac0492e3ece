SPECIFICATION Spec
CONSTANTS
    Runners = {r1, r2}
    NumVersioned = 2
    NumRepeatable = 1
    NumStmts = 2
    Editions = 2
    Rerunnable = {2, 3}
    Wiping = {3}
    Late = {2}
    Commands = {"migrate", "validate", "reset"}
    Faults = {"stmt", "query", "crash"}
    MaxStarts = 3
INVARIANTS TypeOK OneRowPerScript AppliedInOrder RecordedMeansApplied
PROPERTIES SuccessfulMigrateIsComplete ValidatePassIsTrue KeepsLog
CHECK_DEADLOCK FALSE
