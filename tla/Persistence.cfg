SPECIFICATION FairSpec
CONSTANTS
    N = 3
    INCRDB = 2
    MaxBlock = 7
    Quiet = {6}
    MaxCrashes = 2
    MaxFailures = 1
INVARIANTS
    TypeOK
    
    DirectoryCurrent
    
    FlagTellsUnfinished
PROPERTIES
    
    FinishedEpochsKept
    FetchEnds
CHECK_DEADLOCK FALSE
