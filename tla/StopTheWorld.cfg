SPECIFICATION Spec
CONSTANTS
    t1 = t1
    t2 = t2
    t3 = t3
    Threads = {t1, t2, t3}
    None = None
    BUF_SIZE = 2
    MAX_THREAD_NUM = 3
    MaxDepth = 1
SYMMETRY Symmetry
INVARIANTS
    TypeOK
    WorldIsStopped
    StackEndsFound
    CleanBetweenCycles
    LockHoldersRun
    NoNestedHandler
PROPERTIES
    StopsTheWorld
