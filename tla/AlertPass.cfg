SPECIFICATION AlertSpec
CONSTANTS
    CrossRules = {x}
    LevelRules = {}
    Passes = {p1, p2}
    COOLDOWN = 2
    MAX_PER_MINUTE = 1
    MAX_MISSING = 3
INVARIANTS
    Accounted
    SilencedByEvent
PROPERTIES
    OneEventPerCrossing
