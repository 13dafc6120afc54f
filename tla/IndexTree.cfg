\* Three levels; two threads change three pages and look them up.
SPECIFICATION Spec
CONSTANTS
    Threads = {t1, t2}
    LEVEL_CNT = 3
    Indices = {0, 1}
    Pages <- MCPages
    Descriptors = {d1}
    Levels = {l1, l2, l3, l4}
    Root = Root
    Null = Null
SYMMETRY Symmetry
INVARIANTS
    TreeSound
PROPERTIES
    KeepsIndex
CHECK_DEADLOCK FALSE
