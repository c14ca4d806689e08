CONSTANTS
    s1 = s1
    t1 = t1
    t2 = t2
    Targets <- TwoObjects
    Sites = {s1}
    SiteOf <- SameSite
    NoTarget = NoTarget
    Singles = {q1}
    MaxOps = 1
    MaxShifts = 1
SPECIFICATION EntryFairSpec
CHECK_DEADLOCK FALSE
INVARIANTS
    TypeOK
    OnlyOrphansOverlap
    OneProbePerObject
    QueueIsOutstandingWork
    StopDrains
    SiblingsFollowTheirEntry
PROPERTIES
    DueIsChecked
    CallersEnd
