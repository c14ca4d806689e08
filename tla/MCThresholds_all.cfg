CONSTANTS
    a = a
    b = b
    t1 = t1
    t2 = t2
    temperature = temperature
    toner = toner
    None = None
    Index = Index
    Battery = Battery
    Sources <- MCSources
    Thresholds <- MCThresholds
    Quantities <- MCQuantities
    Values <- MCValues
    Normal = 1
    Limits <- MCLimits
    Start <- MCStart
    MaxOps = 1
    MaxShifts = 2
    MaxLost = 1
SPECIFICATION FairSpec
CHECK_DEADLOCK FALSE
INVARIANTS
    IncidentMatchesThreshold
    CriticalIsAnnounced
PROPERTIES
    CurrentLevelIsReported
    ClosedForCause
