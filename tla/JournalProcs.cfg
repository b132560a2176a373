CONSTANTS
    k1 = k1  k2 = k2  v1 = v1  v2 = v2  p1 = p1  p2 = p2  t1 = t1  t2 = t2
    NoVal = NoVal
    Keys <- MCKeys
    Vals <- MCVals
    Ops <- MCOps
    Stores = {p1, p2}
    Threads = {t1, t2}
    StoreOf <- MCStoreOf
    Faulty = {p1}
    Engine = "file"
    MaxRetries = 2
    SnapEvery = 1
    IDRange = 1024
    MaxLog = 3
SPECIFICATION Spec
INVARIANTS
    LabelsNotAhead
    CommitsValid
    HeadNearEnd
PROPERTIES
    ReadsFresh
    Implements
