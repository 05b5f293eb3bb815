CONSTANTS
    t1 = t1
    t2 = t2
    Thread = {t1, t2}
    NodeId <- Nodes
    Capacity = 9
    Initial <- Anchored
    InsertVals = {0, 5, 11, 12}
    RemoveVals = {0, 5}
    ContainsVals = {5}
    GetVals = {5}
    MaxCalls = 3
    NoNode <- Nowhere
    NoThread = NoThread

SPECIFICATION HistorySpec
SYMMETRY Threads
INVARIANTS KeysSettle RefStable
PROPERTIES Linearizable
