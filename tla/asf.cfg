SPECIFICATION LiveSpec
CONSTANTS
    b = b
    c = c
    Faces = {a, b, c}
    Keys = {k1}
    NoEntry = NoEntry
    NoInfo = NoInfo
    NoNamespace = NoNamespace
    NoTimer = NoTimer
    P2P = {a, b}
    AdHoc = {}
    Barred = {}
    Askers = {a, b}
    RemovableFaces = {c}
    Order <- OrderBC
    MaxSilent = 0
    Interval = 1
    Life = 2
    FirstProbes = {0, 1}
INVARIANTS
    TypeOK
    ProbeChain
PROPERTIES
    TriedAgain
CHECK_DEADLOCK FALSE
