SPECIFICATION FairSpec
CONSTANTS
    MaxThreads = 3
    MaxTasks = 4
    MaxRuns = 2
INVARIANTS
    SharesPartitionTasks
PROPERTIES
    RunsEveryTask
    RunReturns
    PoolStops
CHECK_DEADLOCK FALSE
