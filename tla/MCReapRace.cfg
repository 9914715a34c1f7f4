SPECIFICATION Spec
CONSTANTS
    UIDs = {u1, u2}
    NoUID = NoUID
    Gens = {0, 1, 2, 3, 4, 5}
    Sources = {}
    NoSource = NoSource
    Nodes = {n1}
    NoNode = NoNode
    StorageNode = s
    Specs <- Created
    Workers = {w1, w2}
    Foreign = Foreign
    Calls <- CreateReap
    Faults = {}
    StartReady = FALSE
    MaxStray = 1
SYMMETRY Symmetric
INVARIANT ReapsNothingReported
CHECK_DEADLOCK FALSE
