CONSTANTS
    t1 = t1
    t2 = t2
    Thread = {t1, t2}
    Keys = {1, 2}
    Values = {1, 2, 3}
    Discriminators = {1, 2, 3}
    MaxPairs = 3
SPECIFICATION Spec
SYMMETRY Threads
INVARIANTS KeysTogether GetYieldsKey
PROPERTY ActsAsMultiMap
