CONSTANT Value = {1, 2, 3, 4, 5, 6, 7}
SPECIFICATION Spec
INVARIANTS StrictlySorted SkipsWhatIsOutside
PROPERTY ActsAsSet
