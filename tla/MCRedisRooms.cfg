CONSTANTS
    m1 = m1
    m2 = m2
    g1 = g1
    g2 = g2
    Owner = Owner
    Nobody = Nobody
    Error = Error
    Managers = {m1,m2}
    Guests = {g1,g2}
    Reach <- ReachOf
    MaxFaults = 1
SPECIFICATION FairSpec
INVARIANTS
    TypeOK
    RequestsMatchAskers
    CountedRoomsAreFed
PROPERTIES
    CallsReturn
    ProxiedRoomsEnd
CHECK_DEADLOCK FALSE
