SPECIFICATION Spec
CONSTANTS
    Faces = {b, c}
    Keys = {k1, k2}
    NoEntry = NoEntry
    P2P = {b, c}
    AdHoc = {}
    Barred = {}
    Askers = {b}
    RemovableFaces = {}
    Local = {}
    Static = {}
    MaxJobs = 2
SYMMETRY KeySymmetry
PROPERTY RouteWhenNacked
CHECK_DEADLOCK FALSE
