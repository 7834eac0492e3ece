SPECIFICATION Spec
CHECK_DEADLOCK FALSE
CONSTANTS
  Lines = {l1, l2}
  Rules = {r1}
  NumAllocs = 3
  MaxRuns = 3
  OldBeside = TRUE
INVARIANTS TypeOK OneActivePerLine ConfirmedIsApproved DisabledIsOff
PROPERTY MigrationKeepsDecisions
