SPECIFICATION FairSpec
CONSTANTS
    N = 3
    INCRDB = 2
    MaxBlock = 7
    Quiet = {6}
    MaxCrashes = 1
    MaxFailures = 0
PROPERTIES RecoveryEnds
CHECK_DEADLOCK FALSE
