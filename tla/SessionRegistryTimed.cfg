CONSTANTS
    Users = {u1,u2}
    SessionIDs = {c1}
    ServerIDs = {0,1}
    Reserved = Reserved
    NoSession = NoSession
    PendingWindow = 2
    RejectionWindow = 3
    MaxTime = 7
SPECIFICATION Spec
PROPERTIES
    ImplementsRegistry
CHECK_DEADLOCK FALSE
