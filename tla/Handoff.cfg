CONSTANTS
    Conns = {1,2,3}
    IDs = {1,2}
    LoginOkID1 <- CollidingIDs
    Links = {l1,l2}
    NumShards = 2
    ShardFor <- ShardPerID
    HandoffTTL = 1
    NoHandoff = NoHandoff
    NoConn = NoConn
    Idle = Idle
    MaxPuts = 1
    MaxTime = 3
SPECIFICATION FairSpec
INVARIANTS
    TypeOK
    SingleUse
    LiveIsStored
PROPERTIES
    ExpiredIsCollected
CHECK_DEADLOCK FALSE
