CONSTANTS
    Savers = {w1, w2}
    Kinds = {TRUE, FALSE}
    Threshold = 2
    MaxIncidents = 3
    MaxSaves = 3
    MaxOps = 2
SPECIFICATION FairSpec
CHECK_DEADLOCK FALSE
INVARIANTS
    LettersInOrder
    SequentialSavesShareIncident
    DeletedObjectIsResolved
PROPERTIES
    OpeningIsOfOneVersion
    TransactionsEnd
