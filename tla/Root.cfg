CONSTANTS
    n1 = n1  n2 = n2  n3 = n3  i1 = i1  i2 = i2  p1 = p1  p2 = p2  p3 = p3
    NoVal = NoVal
    Keys = {n1, n2, n3}
    Vals = {i1, i2}
    Ops <- MCOps
    Procs = {p1, p2}
    MaxFaults = 2
    MaxLists = 1
SPECIFICATION Spec
INVARIANTS
    ListedComplete
    OneName
    NoOrphans
PROPERTIES
    PoolsKept
CHECK_DEADLOCK FALSE
SYMMETRY Symmetry
