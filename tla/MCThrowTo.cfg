SPECIFICATION FairSpec
CONSTANTS
    c1 = c1 c2 = c2
    t1 = t1 t2 = t2 t3 = t3
    Caps = {c1, c2}
    Threads = {t1, t2, t3}
    Start <- MCStart
    NoThread = NoThread
    Does <- MCDoes
    MaxThrows = 2
    MaxMigrations = 1
INVARIANTS
    TypeOK
    NeverLost
    NoLostWakeup
    Prompt
    NoLockCycle
    OnlyLocksDelay
PROPERTIES
    RaisedInForce
    KillThreadAnswered
CHECK_DEADLOCK FALSE
