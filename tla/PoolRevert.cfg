CONSTANTS
    main = main
    live = live
    w1 = w1
    w2 = w2
    NoBranch = NoBranch
    Names <- Branches
    Workers = {w1, w2}
    Settings <- Reverting
    Repeats = FALSE
    MaxRetries = 2
    MaxIDs = 6
SPECIFICATION FairSpec
INVARIANTS
    TypeOK
    TipsReadable
PROPERTIES
    AppliesToTip
    OpsReturn
CHECK_DEADLOCK FALSE
