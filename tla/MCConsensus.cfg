SPECIFICATION Spec
CONSTANTS
    N = 4
    LeaderID = 0
    TOLERANCE = 667
    NumOfSubsets = 1
    SufficientCommits = 4
    Verdicts = {"valid", "missing", "silent"}
    Faulty = {}
    MaxCommits = 2
INVARIANTS
    TypeOK
    CosignedByQuorum
    Agreement
    LeaderNeverRejected
PROPERTIES
    ImplementsCoSigning
CHECK_DEADLOCK FALSE
