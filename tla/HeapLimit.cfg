SPECIFICATION Spec
CONSTANTS
    Threads = {t1, t2}
    LargeObjects = {o1, o2, o3, o4}
    None = None
    small_size = 16
    large_size = 8000
    StartLimit = 8192
    MaxLimit = 16384
    MaxNest = 2
    INCREMENTAL = TRUE
    Kinds = {"pool", "large"}
    ConstructorsThrow = TRUE
INVARIANTS
    HeapSizeExact
    OvershootBounded
    DeadlockNeedsLaunch
CHECK_DEADLOCK FALSE
SYMMETRY Symmetry
