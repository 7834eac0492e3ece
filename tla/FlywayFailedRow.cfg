SPECIFICATION Spec
CONSTANTS
    Runners = {r1}
    NumVersioned = 2
    NumRepeatable = 1
    NumStmts = 2
    Editions = 2
    Rerunnable = {2, 3}
    Wiping = {3}
    Late = {}
    Commands = {"migrate"}
    Faults = {"stmt"}
    MaxStarts = 3
PROPERTIES AppliedGetsRecorded
CHECK_DEADLOCK FALSE
