SPECIFICATION FairSchedulerSpec
CONSTANTS
    Keys = {k1, k2}
    Specs <- OneTier
    maxSchedulingAttempts = 2
    baseBackoffDuration = 1
    maxBackoffDuration = 2
    MaxClock = 40
    NumReserve = 1
    MaxEvents = 3
CHECK_DEADLOCK FALSE

    
PROPERTIES
    
    SchedulerProgress
