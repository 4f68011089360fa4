SPECIFICATION FairSpec
CONSTANTS
    t1 = t1
    t2 = t2
    x = x
    y = y
    v0 = v0
    v1 = v1
    Threads <- TwoThreads
    TVars <- Both
    Values <- TwoValues
    InitVal = v0
    Program <- WaitWake
    MaxUpdates = 1
    MaxLog = 2
PROPERTIES
    CallReturns
    ChangeWakes
CHECK_DEADLOCK FALSE
