CONSTANTS
    Checks = {c1}
    Primary = primary
    Runs = {r1}
    Addresses = {a1, a2}
    Thresholds = {1, 2}
    HistoryWindow = 2
    MaxIncidents = 4
    MaxOps = 2
    MaxShifts = 2
SPECIFICATION Spec
SYMMETRY SameAddresses
CHECK_DEADLOCK FALSE
INVARIANTS
    TypeOK
    AtMostOneOpen
    OpenIncidentIsWatched
    LettersPaired
    OutageExcludesUnstable
PROPERTIES
    OpenedByOwnSeries
    ResolvedForCause
    KeepsPromise
