CONSTANTS
    w1 = w1
    w2 = w2
    Files <- SmallFiles
    Workers = {w1, w2}
    Cancels = TRUE
SPECIFICATION Spec
INVARIANTS
    InOrder
    DoneStopsReading
PROPERTIES
    PullReturns
    NoLeak
CHECK_DEADLOCK FALSE
