SPECIFICATION Spec
SYMMETRY KeySymmetry
CONSTANTS
    Faces = {a, b, c}
    Keys = {k1, k2}
    NoEntry = NoEntry
    NoFace = NoFace
    NoTimer = NoTimer
    P2P = {b}
    AdHoc = {}
    Barred = {}
    Askers = {a, b}
    RemovableFaces = {b}
    Hops = {b, c}
INVARIANTS
    TypeOK
    RtoHasDownstream
    EveryHopTried
CHECK_DEADLOCK FALSE
