CONSTANTS
    Pairs = {p1, p2}
    NoFile = NoFile
    Requests = {q1}
    MaxOps = 4
    MaxShifts = 1
    MaxRefusals = 2
    MaxLosses = 1
SPECIFICATION FairSpec
CHECK_DEADLOCK FALSE
INVARIANTS
    SettingsMatchCaddy
    RollbackPairHasServed
PROPERTIES
    UnsafeRedirectIsLifted
