SPECIFICATION Spec
CONSTANTS
    N = 4
    LeaderID = 0
    TOLERANCE = 500
    NumOfSubsets = 2
    SufficientCommits = 4
    Verdicts = {"valid", "error"}
    Faulty = {1}
    MaxCommits = 2
INVARIANTS
    
    CommitsCounted
    
    SecretPerMessage

    
CHECK_DEADLOCK FALSE
