SPECIFICATION ScheduledStreamSpec
CONSTANTS
    Clients = {c1, c2}
    Keys = {k1}
    Tasks = {t1, t2}
    NoTask = NoTask
    ByeKey = ByeKey
    QUEUE_MAXSIZE = 2
    MAX_CLIENTS = 2
    MAX_SUBS_PER_CLIENT = 2
    DROPPED_THRESHOLD = 1
    DROPPED_WINDOW = 0
    MaxVersion = 1
    Volatile = {k1}
INVARIANTS
    NoTraceLeft
PROPERTIES
    DisconnectCleansUp
    ReleasedPollersStop
