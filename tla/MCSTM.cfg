SPECIFICATION Spec
CONSTANTS
    t1 = t1
    t2 = t2
    x = x
    y = y
    v0 = v0
    v1 = v1
    Threads <- TwoThreads
    TVars <- Both
    Values <- TwoValues
    InitVal = v0
    Program <- ReadWrite
    MaxUpdates = 2
    MaxLog = 2
INVARIANTS
    NoLeakedLock
    Serializable
    WatchQueuesExact
    NoLostWakeup
CHECK_DEADLOCK FALSE
