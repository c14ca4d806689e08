CONSTANTS
    anna = anna
    boris = boris
    vera = vera
    r1 = r1
    r2 = r2
    m1 = m1
    m2 = m2
    d1 = d1
    d2 = d2
    phone = phone
    outage = outage
    Device = Device
    NoUser = NoUser
    Users <- MCUsers
    Administrators <- MCAdministrators
    Viewers = {}
    Requests <- MCRequests
    Messages <- MCMessages
    Deletions <- MCDeletions
    Endpoints <- MCEndpoints
    Events <- MCEvents
    First <- MCFirst
    MaxAttempts = 1
    MaxOps = 4
    MaxTurns = 2
    Start <- MCStart
SPECIFICATION Spec
CHECK_DEADLOCK FALSE
INVARIANTS
    AdminRemains
    BadgeIsTrue
PROPERTIES
    DeletedByAgreement
    LostDeviceIsTold
