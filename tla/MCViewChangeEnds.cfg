SPECIFICATION TimelySpec
CONSTANTS
    N = 4
    Quorum = 3
    Hash <- MCHash
    GUARD_MODE = FALSE
    NumOfDSGuard = 2
    MaxEpoch = 1
    MaxCounter = 3
    MaxCrashes = 1
PROPERTIES
    EpochEnds
CHECK_DEADLOCK FALSE
