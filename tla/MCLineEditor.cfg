CONSTANTS
    Prompt <- PromptOf
    Typed = {"a", " "}
    Pasted = {"p", "^"}
    Control = {"^"}
    Widths = {2, 3, 4}
    MaxLineLength = 2
    HistorySize = 2
    Rows = 2
    MaxKeys = 2
SPECIFICATION Spec
INVARIANTS
    TypeOK
    ScreenShowsLine
    LinesAreAsEntered
CHECK_DEADLOCK FALSE
