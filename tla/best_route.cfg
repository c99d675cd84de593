SPECIFICATION Spec
CONSTANTS
    a = a
    b = b
    c = c
    n1 = n1
    n2 = n2
    Faces <- ABC
    Local = {}
    P2P <- ABC
    AdHoc = {}
    NoFace = NoFace
    NoRecord = NoRecord
    NoEntry = NoEntry
    Nonces = {n1, n2}
    Lifetimes = {1, 2}
    Keys <- OneKey
    Interests <- PlainInterests
    DataPackets <- OneData
    MaxAge = 2
    RetxInitial = 1
    RetxMax = 2
    ResendClearsNack = FALSE
    Fib <- RoutesABC
    StrategyOf <- AllBestRoute
    CentralPit = FALSE
    PitLimit = 1
    ReductionDelay = 1
    MarksPerTick = 0
    UnsolicitedPolicy = "drop-all"
    RemovableFaces = {}
    NackReasons = {"congestion", "no-route"}
SYMMETRY NonceSymmetry
VIEW ForgetSent
INVARIANTS
    TypeOK
    InRecordNonceUnique
    NoReflection
    TimerCoversDownstreams
    SomeoneWaits
PROPERTIES
    FlowBalance
    NackBalance
    NoLoopForward
    OutNonceRetired
    RetransmissionPaced
