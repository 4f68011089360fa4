SPECIFICATION FairSpec
CONSTANTS
    p1 = p1
    marker = marker
    NCaps = 2
    Pausers = {p1}
    Marker = marker
    NoTask = NoTask
    UseNonmoving = TRUE
    MajorWhilePausing = TRUE
PROPERTIES
    PauseReturns
CHECK_DEADLOCK FALSE
