CONSTANTS
    t1 = t1
    t2 = t2
    Thread = {t1, t2}
    NodeId <- Nodes
    Capacity = 3
    Initial <- FourNodes
    InsertVals = {2, 8}
    RemoveVals = {3, 6, 9}
    ContainsVals = {}
    GetVals = {}
    MaxCalls = 2
    Removals <- Trimmed
    NoNode <- Nowhere
    NoThread = NoThread

SPECIFICATION RemoveRangeSpec
SYMMETRY Threads
INVARIANTS Reachable
PROPERTIES RemovesTheRange
