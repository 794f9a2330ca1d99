CONSTANTS
    Proxied = {p1, p2}
    MaxTyped = 4
SPECIFICATION FairSpec
INVARIANTS
    TypeOK
    NoCutAtWork
    InputOnceInOrder
PROPERTIES
    CloseReturns
    IdleIsCut
CHECK_DEADLOCK FALSE
