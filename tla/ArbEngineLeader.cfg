CONSTANTS
    Locks = {l1, l2, l3}
    NoLock = NoLock
    Offline = {l3}
    TTL = 3
    GUNICORN_WORKERS = 1
    Workers = {w1, w2}
    Engines = {e1, e2}
    NoEngine = NoEngine
    REFRESH_EVERY = 1
    Faults = {"crash", "engine", "spawn", "scan", "stall", "redis", "offline"}
SPECIFICATION FairArbSpec
INVARIANTS
    OneEngineUnlessBlind
    NoStaleLease
PROPERTIES
    OnlyOwnerTouches
    AlwaysAnEngineAgain
