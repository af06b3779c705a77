SPECIFICATION FairClobSpec
CONSTANTS
    Tokens = {a, b, c}
    Priced = {a}
    MAX_SUBS = 2
    Off = Off
INVARIANTS
    OnlyWanted
    InStep
PROPERTIES
    Converges
    GhostsFade
