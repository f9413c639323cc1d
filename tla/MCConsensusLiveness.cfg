SPECIFICATION FairSpec
CONSTANTS
    N = 4
    LeaderID = 0
    TOLERANCE = 667
    NumOfSubsets = 1
    SufficientCommits = 4
    Verdicts = {"valid"}
    Faulty = {}
    MaxCommits = 2
PROPERTIES
    AllDone
CHECK_DEADLOCK FALSE
