SPECIFICATION Spec
CHECK_DEADLOCK FALSE
CONSTANTS
  NumPaths = 2
  MaxFiles = 2
  MaxWords = 4
  NumCells = 5
  MaxLines = 3
INVARIANTS VerdictIsExact AuditNeverFlatters
