CONSTANTS
    main = main
    live = live
    w1 = w1
    w2 = w2
    NoBranch = NoBranch
    Names <- Branches
    Workers = {w1}
    Settings <- Deleting
    Repeats = FALSE
    MaxRetries = 1
    MaxIDs = 6
SPECIFICATION Spec
INVARIANT TipsReadable
CHECK_DEADLOCK FALSE
