CONSTANTS
    Locks = {l1, l2, l3, l4}
    NoLock = NoLock
    Offline = {l4}
    TTL = 2
    Workers = {w1, w2}
    RENEW_EVERY = 1
    Faults = {"crash", "stall", "redis", "offline"}
SPECIFICATION FairCryptoSpec
INVARIANTS
    OneConnectionInCalm
    LeaderHoldsKey
PROPERTIES
    AlwaysALeaderAgain
