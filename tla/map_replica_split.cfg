CONSTANTS
    t1 = t1
    Thread = {t1}
    NodeId <- Nodes
    Capacity = 2
    Initial <- Empty
    InsertVals = {4, 6}
    RemoveVals = {}
    ContainsVals = {}
    GetVals = {}
    MaxCalls = 3
    NoNode <- Nowhere
    NoThread = NoThread

SPECIFICATION LogSpec
INVARIANTS ReplicaEqual
