CONSTANTS
    Workers = {w1, w2, w3}
    TTL = 5
    REFRESH = 2
    Faults = {"redis", "upstream", "late", "restart", "offline"}
    MaxFaults = 2
SPECIFICATION FairMirrorSpec
INVARIANTS
    OneFetcher
    StalenessBounded
PROPERTIES
    StalenessRecovers
