CONSTANTS
    MaxTyped = 1
    MaxOutput = 1
    MaxPieces = 2
    PlainChunks = FALSE
    Tasks = {"kill"}
    GoesDeaf = FALSE
SPECIFICATION FairSpec
PROPERTIES
    TerminateEnds
CHECK_DEADLOCK FALSE
