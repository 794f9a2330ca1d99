CONSTANTS
    MaxTyped = 2
    MaxOutput = 2
    MaxPieces = 3
    PlainChunks = TRUE
    Tasks = {"kill", "lock"}
    GoesDeaf = TRUE
SPECIFICATION FairSpec
INVARIANTS
    TypeOK
    StreamsInOrder
PROPERTY
    EndTakesBridgeDown
CHECK_DEADLOCK FALSE
