SPECIFICATION HubSpec
CONSTANTS
    Clients = {c1, c2}
    Keys = {k1}
    Tasks = {t1, t2, t3}
    NoTask = NoTask
    ByeKey = ByeKey
    QUEUE_MAXSIZE = 2
    MAX_CLIENTS = 2
    MAX_SUBS_PER_CLIENT = 2
    DROPPED_THRESHOLD = 2
    DROPPED_WINDOW = 0
    MaxVersion = 3
    Volatile = {k1}
SYMMETRY Symmetry
INVARIANTS
    RefCounted
    OnePollerPerKey
    SubscriptionsAgree
    NoMissedUpdate
PROPERTIES
    NeverBackwards
    ImplementsFeed
