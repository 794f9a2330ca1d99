CONSTANTS
    c1 = c1
    c2 = c2
    s1 = s1
    s2 = s2
    u1 = u1
    None = None
    Conns = {c1, c2}
    Senders = {s1, s2}
    Users = {u1}
    RingSize = 2
    MaxMsgs = 3
SPECIFICATION Spec
SYMMETRY Symmetry
INVARIANTS
    TypeOK
    MembersKeepRoomAlive
    NoGapNoRepeat
    PeersAgree
PROPERTIES
    HubSpec
    NoWriteAfterLeave
CHECK_DEADLOCK FALSE
