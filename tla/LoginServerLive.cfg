CONSTANTS
    Users = {u1,u2}
    SessionIDs = {c1}
    ServerIDs = {0}
    Workers = {w1,w2}
    SemSlots = 1
    Credentials <- SomeCredentials
    Reserved = Reserved
    NoSession = NoSession
    NoUser = NoUser
    NoConn = NoConn
    Unlocked = Unlocked
SPECIFICATION FairSpec
INVARIANTS
    IdentityAuthenticated
PROPERTIES
    LoginFinishes
    DroppedCloses
CHECK_DEADLOCK FALSE
