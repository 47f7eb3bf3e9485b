SPECIFICATION FairSpec
CONSTANTS
    Apps = {app1}
    f = f
    o = o
    Data = {f, o}
    MaxTasks = 3
    Signatures <- OneRead
    Copies = {1}
    MainAccesses <- SomeAccesses
    MaxVersions = 3
CHECK_DEADLOCK FALSE
INVARIANTS TypeOK ReadsFollowProgramOrder MainSeesLastWriter BarrierWaitsForAll CountIsExact GraphIsSymmetric
PROPERTIES ImplementsTaskGraph CallsReturn TasksFinish
