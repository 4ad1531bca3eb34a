CONSTANTS
    Users = {u1}
    SessionIDs = {c1}
    ServerIDs = {0,1}
    Reserved = Reserved
    NoSession = NoSession
    Links = {l1,l2}
    NoLink = NoLink
    Listable = {0,1}
    NumShards = 2
    ShardOf <- SpreadShards
    NoLogout = NoLogout
    Reports = {1}
    CharCounts = {1}
    Half = 2
    ByteSize = 2
    NoCounts = NoCounts
SPECIFICATION ListSpec
SYMMETRY LinkSymmetry
INVARIANTS
    ListTypeOK
    ClosedServerIsCleared
    ListIsTruthful
    UnlistedIsBlank
PROPERTIES
    LogoutSparesNewLogin
    ReportKeepsOthers
CHECK_DEADLOCK FALSE
