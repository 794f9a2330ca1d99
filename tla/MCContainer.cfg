CONSTANTS
    WinCap = 2
    MaxTyped = 3
    MaxPrinted = 2
    MaxSizes = 4
    ExecMayFail = TRUE
SPECIFICATION FairSpec
INVARIANTS
    TypeOK
    InputThenExit
    OutputThenEnd
PROPERTIES
    EndIsNoticed
    WaitersWake
CHECK_DEADLOCK FALSE
