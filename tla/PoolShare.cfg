CONSTANTS
    main = main
    live = live
    w1 = w1
    w2 = w2
    NoBranch = NoBranch
    Names <- Branches
    Workers = {w1, w2}
    Settings <- Sharing
    Repeats = FALSE
    MaxRetries = 2
    MaxIDs = 6
SPECIFICATION Spec
INVARIANTS
    TipsReadable
    TipsReachable
    NoDuplicateRows
    DataPresent
PROPERTIES
    AppliesToTip
    HistoryKept
CHECK_DEADLOCK FALSE
SYMMETRY Symmetry
