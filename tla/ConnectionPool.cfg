SPECIFICATION FairSpec
CONSTANTS
    Threads = {t1, t2, t3, t4}
    Nesting = {t1, t2}
    PoolSize = 2
    MaxOps = 2
    MaxFaults = 1
    t1 = t1
    t2 = t2
    t3 = t3
    t4 = t4
INVARIANT PoolIsShared
INVARIANT WedgeIsNested
PROPERTY OperationEnds
CHECK_DEADLOCK FALSE
