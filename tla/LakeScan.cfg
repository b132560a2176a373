CONSTANTS
    t1 = t1
    t2 = t2
    Trunks = {t1, t2}
    Pools <- MCPools
    Preds <- MCPreds
    Stride = 2
    Threshold = 2
    MaxFaults = 1
SPECIFICATION FairSpec
INVARIANTS
    TrunksSorted
    QueryExact
    ObjectsWellFormed
    NoOverlapAfterPass
PROPERTIES
    DeletesExactly
    RowsKept
    Ends
CHECK_DEADLOCK FALSE
