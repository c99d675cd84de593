SPECIFICATION Spec
CONSTANTS
    a = a
    b = b
    c = c
    n1 = n1
    n2 = n2
    Faces <- ABC
    Local = {a}
    P2P = {a, c}
    AdHoc = {}
    NoFace = NoFace
    NoRecord = NoRecord
    NoEntry = NoEntry
    Nonces = {n1}
    Lifetimes = {1}
    Keys <- MatchingKeys
    Interests <- PlainInterests
    DataPackets <- MatchingData
    MaxAge = 1
    RetxInitial = 1
    RetxMax = 1
    ResendClearsNack = TRUE
    Fib <- RoutesABC
    StrategyOf <- MulticastAndRandom
    CentralPit = FALSE
    PitLimit = 1
    ReductionDelay = 0
    MarksPerTick = 1
    UnsolicitedPolicy = "admit-local"
    RemovableFaces = {c}
    NackReasons = {"duplicate"}
VIEW ForgetSent
CONSTRAINT AtMostTwoPending
INVARIANTS
    NoDanglingFace
    LocalhostDownstreams
PROPERTIES
    KeepsPromise
    FlowBalance
    NackBalance
    OutNonceRetired
    ScopeKept
