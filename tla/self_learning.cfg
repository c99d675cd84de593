SPECIFICATION LiveSpec
CONSTANTS
    Faces = {a, b, c}
    Keys = {k1}
    NoEntry = NoEntry
    P2P = {a, c}
    AdHoc = {}
    Barred = {}
    Askers = {a, b}
    RemovableFaces = {b}
    Local = {a}
    Static = {}
    MaxJobs = 2
INVARIANTS
    TypeOK
PROPERTIES
    RoutesFollowPackets
    Settled
CHECK_DEADLOCK FALSE
