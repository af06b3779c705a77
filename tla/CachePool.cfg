SPECIFICATION CacheSpec
CONSTANTS
    Keys = {k1, k2}
    Threads = {t1, t2}
    Coroutines = {}
    L1_MAXSIZE = 1
    TTL = 3
    PROMOTE = 2
SYMMETRY Symmetry
INVARIANTS
    L1Bounded
    CachedAgeBounded
    SingleFlight
