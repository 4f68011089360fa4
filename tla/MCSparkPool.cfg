SPECIFICATION Spec
CONSTANTS
    heap1 = heap1
    static1 = static1
    Closures <- MCClosures
    Static <- MCStatic
    NoClosure = NoClosure
    NCaps = 2
    Size = 4
    MaxSparks = 5
    FullPoolAtGC = FALSE
INVARIANTS
    SparkCountInvariant
PROPERTIES
    PruneKeepsWorthwhile
VIEW View
