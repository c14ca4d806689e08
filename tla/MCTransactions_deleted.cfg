CONSTANTS
    Savers = {w1}
    Kinds = {TRUE}
    Threshold = 2
    MaxIncidents = 2
    MaxSaves = 3
    MaxOps = 1
SPECIFICATION Spec
CHECK_DEADLOCK FALSE
INVARIANTS
    DeletedCheckIsResolved
