SPECIFICATION QueueSpec
CONSTANTS
    Keys = {k1, k2}
    Specs <- MCSpecs
    maxSchedulingAttempts = 2
    baseBackoffDuration = 1
    maxBackoffDuration = 1
    MaxClock = 5
SYMMETRY Symmetry
INVARIANTS
    QueueSafe
PROPERTIES
    NothingLost
