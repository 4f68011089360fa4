SPECIFICATION Spec
CONSTANTS
    heap1 = heap1
    static1 = static1
    Closures <- MCClosures
    Static <- MCStatic
    NoClosure = NoClosure
    NCaps = 2
    Size = 2
    MaxSparks = 3
    FullPoolAtGC = TRUE
INVARIANTS
    SparkCountInvariant
