SPECIFICATION FairSpec
CONSTANTS
    UIDs = {u1}
    NoUID = NoUID
    Gens = {0, 1, 2, 3}
    Sources = {}
    NoSource = NoSource
    Nodes = {n1}
    NoNode = NoNode
    StorageNode = s
    Specs <- Imports
    Workers = {w1, w2}
    Foreign = Foreign
    Calls <- CreateDelete
    Faults = {}
    StartReady = FALSE
    MaxStray = 1
PROPERTY DeletionCompletes
CHECK_DEADLOCK FALSE
