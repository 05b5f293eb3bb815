CONSTANTS
    t1 = t1
    t2 = t2
    Thread = {t1, t2}
    NodeId <- Nodes
    Capacity = 3
    Initial <- OneNode
    InsertVals = {3,7}
    RemoveVals = {3, 4, 9}
    ContainsVals = {}
    GetVals = {}
    MaxCalls = 3
    NoNode <- Nowhere
    NoThread = NoThread

SPECIFICATION LogSpec
SYMMETRY Threads
INVARIANTS ReplicaFollows
