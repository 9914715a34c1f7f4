SPECIFICATION Spec
CONSTANTS
    UIDs = {u1}
    NoUID = NoUID
    Gens = {0, 1, 2, 3, 4, 5, 6, 7, 8}
    Sources = {}
    NoSource = NoSource
    Nodes = {s, n1}
    NoNode = NoNode
    StorageNode = s
    Specs <- LocalAttached
    Workers = {w1, w2}
    Foreign = Foreign
    Calls <- Publishing
    Faults = {}
    StartReady = TRUE
    MaxStray = 1
SYMMETRY Symmetric
INVARIANT GrantsStand
CHECK_DEADLOCK FALSE
