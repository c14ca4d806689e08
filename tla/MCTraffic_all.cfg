CONSTANTS
    Addresses = {router, switch}
    Names = {eth0, vlan1}
    NoName = NoName
    None = None
    Modulus = 2
    Speed = 2
    MaxOctets = 2
    MaxUptime = 2
    MaxBoots = 1
    MaxAdmin = 2
SYMMETRY Symmetry
SPECIFICATION MCSpec
CHECK_DEADLOCK FALSE
INVARIANTS
    DifferencesWithinOneLife
    RateNotOverstated
    MonitoredAsChosen
