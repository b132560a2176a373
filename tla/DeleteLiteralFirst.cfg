CONSTANTS
    t1 = t1
    t2 = t2
    Trunks = {t1, t2}
    Pools <- MCPools
    Preds <- LiteralPreds
    Stride = 2
    Threshold = 2
    MaxFaults = 0
SPECIFICATION Spec
PROPERTY DeletesExactly
CHECK_DEADLOCK FALSE
