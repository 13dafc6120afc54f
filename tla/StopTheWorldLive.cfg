SPECIFICATION FairSpec
CONSTANTS
    t1 = t1
    t2 = t2
    t3 = t3
    Threads = {t1, t2}
    None = None
    BUF_SIZE = 1
    MAX_THREAD_NUM = 2
    MaxDepth = 2
PROPERTIES
    CollectionEnds
    ThreadsResume
\* A cycle that gets stuck is for CollectionEnds to find; StopTheWorld.cfg
\* checks deadlock.
CHECK_DEADLOCK FALSE
