CONSTANTS
    Users = {u1}
    SessionIDs = {c1,c2}
    ServerIDs = {0,1}
    Workers = {w1,w2}
    SemSlots = 2
    Credentials <- AllCredentials
    Reserved = Reserved
    NoSession = NoSession
    NoUser = NoUser
    NoConn = NoConn
    Unlocked = Unlocked
SPECIFICATION Spec
SYMMETRY ConnSymmetry
INVARIANTS
    OneClientPerUser
CHECK_DEADLOCK FALSE
