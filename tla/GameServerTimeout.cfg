CONSTANTS
    Users = {u1}
    SessionIDs = {c1}
    ServerIDs = {0,1}
    Reserved = Reserved
    NoSession = NoSession
    Links = {l1,l2}
    NoLink = NoLink
    Listable = {0,1}
    NumShards = 2
    ShardOf <- SpreadShards
    NoLogout = NoLogout
SPECIFICATION Spec
SYMMETRY LinkSymmetry
INVARIANTS
    ServerGoneAfterClose
CHECK_DEADLOCK FALSE
