SPECIFICATION Spec
CONSTANTS
    N = 3
    Quorum = 2
    Hash <- MCHash
    GUARD_MODE = FALSE
    NumOfDSGuard = 2
    MaxEpoch = 1
    MaxCounter = 1
    MaxCrashes = 0
INVARIANTS
    TypeOK
    LeaderIndexConsistent
    
PROPERTIES
    NewLeaderDiffers
CHECK_DEADLOCK FALSE
