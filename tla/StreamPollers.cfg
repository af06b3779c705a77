SPECIFICATION FairPollersSpec
CONSTANTS
    Clients = {c1}
    Keys = {k1, k2}
    Tasks = {t1, t2}
    NoTask = NoTask
    ByeKey = ByeKey
    theSlug = theSlug
    Slugs = {theSlug}
    SlugOf <- OneSlug
    QUEUE_MAXSIZE = 2
    MAX_CLIENTS = 1
    MAX_SUBS_PER_CLIENT = 2
    DROPPED_THRESHOLD = 1
    DROPPED_WINDOW = 0
    MaxVersion = 2
    Volatile = {k1}
INVARIANTS
    NeverDrops
PROPERTIES
    ResolvedOnce
    SubscriberCatchesUp

