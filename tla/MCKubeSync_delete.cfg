CONSTANTS
    Objects = {pod}
    QueueCap = 2
    BatchSize = 2
    Slots = {x1, x2}
    Retries = 3
    MaxVersion = 1
    MaxErrors = 0
    Relists = FALSE
SPECIFICATION FairSpec
PROPERTIES
    DeletesAreWritten
CHECK_DEADLOCK FALSE
