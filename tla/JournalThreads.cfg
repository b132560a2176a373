CONSTANTS
    k1 = k1  k2 = k2  v1 = v1  v2 = v2  p1 = p1  p2 = p2  t1 = t1  t2 = t2
    NoVal = NoVal
    Keys <- MCKeys
    Vals <- MCVals
    Ops <- MCLookupOps
    Stores = {p1}
    Threads = {t1, t2}
    StoreOf <- MCShared
    Faulty = {}
    Engine = "file"
    MaxRetries = 2
    SnapEvery = 1
    IDRange = 1024
    MaxLog = 2
SPECIFICATION FairSpec
PROPERTIES
    OpsReturn
    HeadCatchesUp
