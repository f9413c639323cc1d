SPECIFICATION FairSpec
CONSTANTS
    Commits = 6
    Quorum = 5
    Sufficient = 6

PROPERTY SufficientStartsSubsets
CHECK_DEADLOCK FALSE
