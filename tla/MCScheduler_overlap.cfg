CONSTANTS
    s1 = s1
    t1 = t1
    t2 = t2
    Targets <- TwoObjects
    Sites = {s1}
    SiteOf <- SameSite
    NoTarget = NoTarget
    Singles = {}
    MaxOps = 1
    MaxShifts = 0
SPECIFICATION Spec
CHECK_DEADLOCK FALSE
INVARIANTS
    PassesNeverOverlap
