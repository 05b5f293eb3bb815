CONSTANTS
    t1 = t1
    t2 = t2
    t3 = t3
    Thread = {t1, t2, t3}
    NodeId <- Nodes
    Capacity = 2
    Initial <- One
    InsertVals = {6, 7, 9}
    RemoveVals = {}
    ContainsVals = {}
    GetVals = {}
    MaxCalls = 1
    NoNode <- Nowhere
    NoThread = NoThread

SPECIFICATION Spec
INVARIANTS InsertedIsFound
