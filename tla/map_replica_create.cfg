CONSTANTS
    t1 = t1
    t2 = t2
    Thread = {t1, t2}
    NodeId <- Nodes
    Capacity = 3
    Initial <- Empty
    InsertVals = {4}
    RemoveVals = {}
    ContainsVals = {}
    GetVals = {}
    MaxCalls = 1
    NoNode <- Nowhere
    NoThread = NoThread

SPECIFICATION LogSpec
INVARIANTS ReplicaEqual
