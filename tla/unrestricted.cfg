CONSTANTS
    t1 = t1
    t2 = t2
    Thread = {t1, t2}
    NodeId <- Nodes
    Capacity = 2
    Initial <- One
    InsertVals = {3, 6}
    RemoveVals = {4, 6}
    ContainsVals = {4}
    GetVals = {6}
    MaxCalls = 2
    NoNode <- Nowhere
    NoThread = NoThread

SPECIFICATION FairSpec
INVARIANTS TypeOK OneKeyPerNode NodeBounded EntryStays
PROPERTIES OperationsReturn
