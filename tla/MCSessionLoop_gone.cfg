CONSTANTS
    Proxied = {p1}
    MaxTyped = 0
SPECIFICATION FairSpec
PROPERTIES
    GoneUserIsLetGo
CHECK_DEADLOCK FALSE
