SPECIFICATION FairSpec
CONSTANTS
    w1 = w1
    w2 = w2
    w3 = w3
    b1 = b1
    b2 = b2
    u1 = u1
    u2 = u2
    NoTask = NoTask
    NoThread = NoThread
    NCaps = 2
    Workers = {w1, w2}
    Callers = {b1}
    Unbound = {u1}
    Pinned = {}
    MaxSpareWorkers = 1
    Does = {"fork", "migrate", "collect", "perform_gc"}
INVARIANTS
    RunsAtHome
    NothingStranded
PROPERTIES
    SyncCompletes
