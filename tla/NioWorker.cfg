SPECIFICATION FairSpec
CONSTANTS
    a = a
    b = b
    c = c
    d = d
    e = e
    x = x
    y = y
    Jobs <- ThreeJobs
    Names <- SomeNames
    ParamsOf <- SomeParams
    Pool = 1
    MaxReceive = 1
    MaxSend = 1
    MaxRefused = 1
    MaxDemands = 2
CHECK_DEADLOCK FALSE
INVARIANTS TypeOK SlotsAccounted OneTransferPerDatum MissingCounted OneAnswerPerJob WholeFiles
PROPERTIES JobsAnswered WorkerStops
