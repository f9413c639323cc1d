SPECIFICATION FairSpec
CONSTANTS
    Commits = 6
    Quorum = 5
    Sufficient = 6
INVARIANT TypeOK
PROPERTIES StartExcludesHandler QuorumStartsSubsets
CHECK_DEADLOCK FALSE
