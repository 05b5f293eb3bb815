CONSTANTS
    t1 = t1
    Front = Front
    Back = Back
    Thread = {t1, Front, Back}
    NodeId <- Nodes
    Capacity = 2
    Initial <- TwoWalked
    InsertVals = {2, 6}
    RemoveVals = {1, 5}
    ContainsVals = {}
    GetVals = {}
    MaxCalls = 2
    MaxSteps = 4
    Ranges <- Walks
    NoNode <- Nowhere
    NoThread = NoThread

SPECIFICATION IterSpec
INVARIANTS InOrder Complete KeepsToRange HoldsOneNode
