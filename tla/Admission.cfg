CONSTANTS
    IPs = {a}
    Callers = {k1,k2}
    Logins = {k1,k2}
    LoginOf <- OneToOne
    Limit = 1
    Window = 2
    Shards = {s1}
    ShardFor <- OneShard
    NoEntry = NoEntry
    NoCall = NoCall
    MaxTime = 4
    Names = {n}
    Passwords = {p,q}
    NoRow = NoRow
    NoLogin = NoLogin
SPECIFICATION AdmissionSpec
SYMMETRY CallerSymmetry
INVARIANTS
    AdmissionTypeOK
    LimitPerWindow
    OnePassword
PROPERTIES
    WindowsApart
CHECK_DEADLOCK FALSE
