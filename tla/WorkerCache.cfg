SPECIFICATION FairSpec
CONSTANTS
    w1 = w1
    w2 = w2
    Workers <- TwoWorkers
    CacheProc = CacheProc
    Processes <- AllProcesses
    Names = {1, 2}
    SizeLimit = 3
    SegmentBytes = 2
    MaxAttempts = 2
    MaxTasks = 3
CHECK_DEADLOCK FALSE
INVARIANTS TypeOK KeyNamesSegment IndexesAgree SizeAccounted NoSegmentLeaked PipesInStep
PROPERTIES LeastUsedFirst PersistentWorkerEnds
