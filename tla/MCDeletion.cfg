SPECIFICATION FairSpec
CONSTANTS
    UIDs = {u1}
    NoUID = NoUID
    Gens = {0, 1, 2, 3, 4}
    Sources = {}
    NoSource = NoSource
    Nodes = {n1}
    NoNode = NoNode
    StorageNode = s
    Specs <- Created
    Workers = {w1, w2}
    Foreign = Foreign
    Calls <- CreateDelete
    Faults = {"restart"}
    StartReady = FALSE
    MaxStray = 1
PROPERTY DeletionCompletes
