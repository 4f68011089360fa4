SPECIFICATION Spec
CONSTANTS
    w1 = w1
    w2 = w2
    w3 = w3
    b1 = b1
    b2 = b2
    u1 = u1
    u2 = u2
    NoTask = NoTask
    NoThread = NoThread
    NCaps = 2
    Workers = {w1, w2}
    Callers = {b1}
    Unbound = {u1, u2}
    Pinned = {u2}
    MaxSpareWorkers = 1
    Does = {"fork", "block", "ccall", "migrate"}
SYMMETRY Symmetry
INVARIANTS
    OneOwner
    
    NothingStranded
    ThreadsInOnePlace
