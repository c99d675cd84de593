SPECIFICATION Spec
CONSTANTS
    a = a
    b = b
    k1 = k1
    k2 = k2
    Faces = {a, b}
    Fib <- TwoHops
    Keys = {k1, k2}
    NoInfo = NoInfo
    NoName = NoName
    NoTimer = NoTimer
    TaggedHops = {0}
    StackHops = {}
    Whole = 20000
    ChangeNum = 3
    ChangeDen = 100
    RemovableFaces = {}
    MaxCount = 2
    MaxFaceNumber = 3
    MaxShare = 20060
SYMMETRY NameSymmetry
CHECK_DEADLOCK FALSE
PROPERTY CongestionEnds
