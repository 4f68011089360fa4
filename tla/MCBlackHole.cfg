SPECIFICATION FairSpec
CONSTANTS
    c1 = c1
    c2 = c2
    t1 = t1
    t2 = t2
    t3 = t3
    NoThread = NoThread
    Caps = {c1, c2}
    Threads = {t1, t2, t3}
    Start <- MCStart
    Wants <- MCWants
    Needs <- MCNeeds
    Eager = {1}
    MaxAPs = 2
    MaxMsgs = 3
    MaxQueues = 3
    MaxEvents = 2
INVARIANTS
    TypeOK
    OwnerEvaluates
    OrphansFound
    APStackOnce
PROPERTIES
    Finishes
CHECK_DEADLOCK FALSE
