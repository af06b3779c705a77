CONSTANTS
    Locks = {l1, l2, l3, l4}
    NoLock = NoLock
    Offline = {l4}
    TTL = 4
SPECIFICATION FairCallsSpec
INVARIANTS
    LeaseHeld
PROPERTIES
    OnlyOwnerTouchesKey
    ImplementsLease
    OrphanLeaseEnds
