CONSTANTS
    p1 = p1
    p2 = p2
    p3 = p3
    Pages <- ThreePages
    Boot = Boot
    NoThread = NoThread
    PoolCap = 4
    MaxTid = 5
SPECIFICATION FairSpec
INVARIANTS OneHome ContextIntegrity DestroyedAfterFirstYield ArgumentMissedOnlyInWindow
PROPERTIES WaitingThreadRuns DeadThreadFreed
CHECK_DEADLOCK FALSE
