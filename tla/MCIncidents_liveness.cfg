CONSTANTS
    Checks = {c1}
    Primary = primary
    Runs = {r1}
    Addresses = {a1}
    Thresholds = {2}
    HistoryWindow = 2
    MaxIncidents = 5
    MaxOps = 1
    MaxShifts = 2
SPECIFICATION FairSpec
CHECK_DEADLOCK FALSE
PROPERTIES
    OutageIsReported
    RecoveryCloses
