SPECIFICATION Spec
CONSTANTS
    a = a
    b = b
    c = c
    n1 = n1
    n2 = n2
    Faces <- AB
    Local = {}
    P2P <- AB
    AdHoc = {}
    NoFace = NoFace
    NoRecord = NoRecord
    NoEntry = NoEntry
    Nonces = {n1, n2}
    Lifetimes = {2}
    Keys <- OneKey
    Interests <- PlainInterests
    DataPackets <- OneData
    MaxAge = 2
    RetxInitial = 1
    RetxMax = 2
    ResendClearsNack = FALSE
    Fib <- RoutesBA
    StrategyOf <- AllBestRoute
    CentralPit = FALSE
    PitLimit = 1
    ReductionDelay = 1
    MarksPerTick = 0
    UnsolicitedPolicy = "drop-all"
    RemovableFaces = {a}
    NackReasons = {"congestion", "no-route"}
SYMMETRY NonceSymmetry
VIEW ForgetSent
INVARIANT ResponseTimeDefined
