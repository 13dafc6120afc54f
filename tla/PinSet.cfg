SPECIFICATION Spec
CONSTANTS
    Fake = Fake
    Null = Null
    Blocks = {b1, b2, b3}
    ALLOC_CNT = 2
    Objects = {o1, o2}
    Guards = {g1, g2}
    CAPACITY = 2
    MaxNest = 3
SYMMETRY PinSymmetry
CHECK_DEADLOCK FALSE
INVARIANTS
    PinnedStaysLive
    PinsExact
    NodesSound
    FailsOnlyOnRepeats
