SPECIFICATION Spec
CONSTANTS
    Workers = {w1, w2}
    MaxTasks = 2
    Operations = 1
    TransferChances = 2
    SubmissionChances = 2
    SchedulingChances = 2
    MaxFaults = 4
    Units = 1
    LimitOfTasks = 1
    NoWorker = NoWorker
SYMMETRY SymmetricWorkers
CHECK_DEADLOCK FALSE
INVARIANT FailureIsReported
