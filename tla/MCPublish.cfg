SPECIFICATION Spec
CONSTANTS
    UIDs = {u1}
    NoUID = NoUID
    Gens = {0, 1, 2, 3, 4, 5, 6, 7, 8, 9, 10}
    Sources = {}
    NoSource = NoSource
    Nodes = {s, n1}
    NoNode = NoNode
    StorageNode = s
    Specs <- Published
    Workers = {w1, w2}
    Foreign = Foreign
    Calls <- PublishAll
    Faults = {"reboot"}
    StartReady = TRUE
    MaxStray = 1
SYMMETRY Symmetric
CONSTRAINT Explored
INVARIANTS NoUnrecordedGrant GrantsStand SingleNodeExclusive
CHECK_DEADLOCK FALSE
