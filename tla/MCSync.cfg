SPECIFICATION FairSpec
CONSTANTS
    p1 = p1
    marker = marker
    NCaps = 2
    Pausers = {p1}
    Marker = marker
    NoTask = NoTask
    UseNonmoving = TRUE
    MajorWhilePausing = FALSE
INVARIANTS
    
    MarkMissesNothing

    
CHECK_DEADLOCK FALSE
