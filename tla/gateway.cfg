SPECIFICATION GatewayLiveSpec
CONSTANTS
    a = a
    b = b
    c = c
    n1 = n1
    n2 = n2
    Faces <- AB
    Local = {a}
    P2P = {a}
    AdHoc = {b}
    NoFace = NoFace
    NoRecord = NoRecord
    NoEntry = NoEntry
    Nonces = {n1}
    Lifetimes = {1}
    Keys <- GatewayKeys
    Interests <- GatewayInterests
    DataPackets <- GatewayData
    MaxAge = 1
    RetxInitial = 1
    RetxMax = 1
    ResendClearsNack = FALSE
    Fib <- RoutesBA
    StrategyOf <- AllFirstBestRoute
    CentralPit = TRUE
    PitLimit = 2
    ReductionDelay = 1
    MarksPerTick = 1
    UnsolicitedPolicy = "drop-all"
    RemovableFaces = {b}
    NackReasons = {"duplicate"}
INVARIANTS
    PitBound
    GateBound
PROPERTIES
    Drained
    Reduced
