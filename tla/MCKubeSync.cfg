CONSTANTS
    Objects = {pod, ns}
    QueueCap = 2
    BatchSize = 1
    Slots = {x1, x2}
    Retries = 2
    MaxVersion = 2
    MaxErrors = 2
    Relists = TRUE
SPECIFICATION FairSpec
INVARIANTS
    TypeOK
    UndisturbedIsCurrent
PROPERTIES
    LivingObjectsConverge
CHECK_DEADLOCK FALSE
