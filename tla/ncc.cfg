SPECIFICATION Spec
CONSTANTS
    a = a
    b = b
    c = c
    Faces = {a, b, c}
    Keys = {k1}
    NoEntry = NoEntry
    NoInfo = NoInfo
    NoFace = NoFace
    NoTimer = NoTimer
    Parent = Parent
    ParentIn = TRUE
    P2P = {c}
    AdHoc = {}
    Barred = {}
    Askers = {a, b}
    RemovableFaces = {b}
    Order <- OrderBC
    Gains = {b}
    MinPrediction = 4
    MaxPrediction = 5
    InitialPrediction = 4
    DownPart = 4
    UpPart = 2
    MaxStray = 1
INVARIANTS
    TypeOK
    UpstreamsCounted
    PropagationGoesOn
CHECK_DEADLOCK FALSE
