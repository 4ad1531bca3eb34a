CONSTANTS
    IPs = {a,lo}
    Loopback = {lo}
    Callers = {k1,k2}
    MaxAttempts = 2
    BanDuration = 1
    ProcessZone = 2
    SessionZone = 1
    NoBan = NoBan
    NoIP = NoIP
    MaxTime = 5
SPECIFICATION Spec
SYMMETRY CallerSymmetry
INVARIANTS
    TypeOK
    MemoryCoversTable
    BanStored
PROPERTIES
    BanServed
CHECK_DEADLOCK FALSE
