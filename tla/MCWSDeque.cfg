SPECIFICATION FairSpec
CONSTANTS
    p1 = p1
    p2 = p2
    Thieves <- MCThieves
    Size = 2
    SBMax = 2
    MaxPushes = 4
INVARIANTS
    TypeOK
    ExactlyOnce
    StealCandidate
PROPERTIES
    Linearizable
    StealReturns
    PushedBecomesVisible
