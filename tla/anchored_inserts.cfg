CONSTANTS
    t1 = t1
    t2 = t2
    t3 = t3
    Thread = {t1, t2, t3}
    NodeId <- Nodes
    Capacity = 2
    Initial <- OneNode
    InsertVals = {2, 3, 4, 6}
    RemoveVals = {}
    ContainsVals = {}
    GetVals = {}
    MaxCalls = 2
    NoNode <- Nowhere
    NoThread = NoThread

SPECIFICATION HistorySpec
SYMMETRY Threads
INVARIANTS Reachable
PROPERTIES Linearizable
