SPECIFICATION FairSpec
CONSTANTS
    c1 = c1
    c2 = c2
    t1 = t1
    t2 = t2
    t3 = t3
    v0 = v0
    v1 = v1
    Caps = {c1, c2}
    Threads = {t1, t2, t3}
    Home <- MCHome
    Values = {v0}
    Unit = Unit
    ForeignValues = {v1}
    NoThread = NoThread
    Free = Free
    Empty = Empty
    Pending = Pending
    Done = Done
    Failed = Failed
    Interrupted = Interrupted
    MaxEntries = 4
    MaxCalls = 4
    MaxThrows = 2
INVARIANTS
    QueueExact
PROPERTIES
    AtomicFIFO
    DoneReturns
CHECK_DEADLOCK FALSE
