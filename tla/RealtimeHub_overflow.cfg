SPECIFICATION HubSpec
CONSTANTS
    Clients = {c1}
    Keys = {k1, k2}
    Tasks = {t1, t2}
    NoTask = NoTask
    ByeKey = ByeKey
    QUEUE_MAXSIZE = 1
    MAX_CLIENTS = 1
    MAX_SUBS_PER_CLIENT = 2
    DROPPED_THRESHOLD = 2
    DROPPED_WINDOW = 1
    MaxVersion = 2
    Volatile = {k1, k2}
SYMMETRY Symmetry
INVARIANTS
    SlowClientsClosed
