CONSTANTS
    Keys = {1, 2, 3, 4}
    Values = {"a", "b"}
    Absent = "absent"
    Capacities = {2}
    DefaultCapacity = 3

SPECIFICATION Spec
INVARIANTS TreeOK ReadsAgree MergesAgree IteratesInOrder CursorForesees
PROPERTIES BehavesAsMap
