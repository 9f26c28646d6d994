SPECIFICATION FairPoolSpec
CONSTANTS
    Keys = {k1, k2}
    PoolSize = 2
    Sizes = {1}
    MaxHandles = 2
    MaxWorkers = 2
CHECK_DEADLOCK FALSE
INVARIANTS
    PoolSafe
PROPERTIES
    FillGoesOn
