CONSTANTS
    anna = anna
    boris = boris
    shop = shop
    depot = depot
    gate = gate
    door = door
    Admins <- MCAdmins
    SiteNames <- MCSites
    TargetNames <- MCNames
    Suitable = {"network"}
    Kinds = {"network", "printer"}
    Parts = {"metric", "threshold"}
    MaxSubmits = 2
    MaxLogins = 2
    MaxJobs = 2
    Start <- MCStart
    Uploads <- MCUploads
SPECIFICATION Spec
CHECK_DEADLOCK FALSE
INVARIANTS
    EntryOfSite
    PageMeansRow
PROPERTIES
    QuietBackupRestores
