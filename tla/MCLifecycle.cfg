SPECIFICATION Spec
CONSTANTS
    UIDs = {u1, u2}
    NoUID = NoUID
    Gens = {0, 1, 2, 3, 4}
    Sources = {}
    NoSource = NoSource
    Nodes = {n1}
    NoNode = NoNode
    StorageNode = s
    Specs <- CreatedAndImported
    Workers = {w1, w2}
    Foreign = Foreign
    Calls <- CreateDeleteReap
    Faults = {}
    StartReady = FALSE
    MaxStray = 1
SYMMETRY Symmetric
INVARIANTS TypeOK NothingOrphaned ReapsOnlyUnreported
PROPERTY DestroysOnlyRetired
CHECK_DEADLOCK FALSE
