CONSTANTS
    Pods = {1, 2, 3, 4, 5, 6}
    Nil = 0
    AtFirst = {1, 2, 3, 4, 5}
    Rank <- RankOf
    Inactive = {2, 3}
    Keys = {"", "odd", "one", "none"}
    Finds <- FindsOf
    NoKey = ""
    Sizes = {0, 1, 2}
    DefaultLimit = 2
SPECIFICATION MenuSpec
INVARIANTS
    MenuTypeOK
    PageIsOfSearch
    FlagsTellTheEnds
PROPERTY
    NumbersMeanRows
CHECK_DEADLOCK FALSE
