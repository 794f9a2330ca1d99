CONSTANTS
    a1 = a1
    a2 = a2
    g1 = g1
    g2 = g2
    Nobody = Nobody
    Sessions = {a1, a2}
    Guests = {g1, g2}
SPECIFICATION FairSpec
INVARIANTS
    TypeOK
    AnswerGoesToAsker
    RoomOutlivesMembers
    FinishedIsStopped
PROPERTIES
    FinishedRoomEnds
    RegistryAnswers
CHECK_DEADLOCK FALSE
