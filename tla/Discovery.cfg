SPECIFICATION FairDiscoverySpec
CONSTANTS
    Threads = {loop, here, there}
    Loops = {loop}
    Together = {loop, here}
    K_PAGES = 2
    P_PAGES = 3
    LOOP_PAGES = 1
    REQUEST_PAGES = 2
    SWEEP_EVERY = 2
    Matches <- ThreeMatches
    Arbs <- TwoArbs
    MAX_PRICED_CANDIDATES = 2
    Empty = Empty
    Torn = Torn
    NoFile = NoFile
    NoCopy = NoCopy
    MAX_REQUESTS = 1
    MAX_CRASHES = 1
INVARIANTS
    StoreWhole
PROPERTIES
    KeepsEverything
    EveryArbRecorded
