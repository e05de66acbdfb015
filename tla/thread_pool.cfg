\* Five jobs for a pool of at most three threads, created two at a time.
SPECIFICATION PoolSpec
CONSTANTS
    j1 = j1
    j2 = j2
    j3 = j3
    j4 = j4
    j5 = j5
    NoJob = NoJob
    Job <- FiveJobs
    MaxThreads = 4
    Batch = 2
INVARIANTS FreeListExact RefusesOnlyWhenBusy
PROPERTIES IsJobPool
