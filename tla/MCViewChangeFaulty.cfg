SPECIFICATION TimelySpec
CONSTANTS
    N = 5
    Quorum = 3
    Hash <- MCHash
    GUARD_MODE = FALSE
    NumOfDSGuard = 2
    MaxEpoch = 1
    MaxCounter = 2
    MaxCrashes = 2
INVARIANTS
    FaultyLeaderEjected
CHECK_DEADLOCK FALSE
