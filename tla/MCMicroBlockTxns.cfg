SPECIFICATION Spec
CONSTANTS
    Nodes = {"m", "n"}
    Leader <- MCLeader
    Txns = {1, 2, 3, 4}
    Sender <- MCSender
    Nonce <- MCNonce
    Price <- MCPrice
    Limit <- MCLimit
    Used <- MCUsed
    Valid <- MCValid
    Packets <- MCPackets
    LateAllow = 1
    GasLimit = 2
    Tolerance = 50
    MaxTimeouts = 1
    Cuts <- MCCuts
    MaxReplies = 1
INVARIANTS
    TypeOK
    PoolsConsistent
    SelectionExecutable
    
    NothingExecutableLeft
    
    AcceptedExecutable
    FetchedOrSuperseded
CHECK_DEADLOCK FALSE
