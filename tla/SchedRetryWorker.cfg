SPECIFICATION Spec
CONSTANTS
    Workers = {w1, w2}
    MaxTasks = 2
    Operations = 1
    TransferChances = 2
    SubmissionChances = 2
    SchedulingChances = 2
    MaxFaults = 2
    Units = 1
    LimitOfTasks = 2
    NoWorker = NoWorker
CHECK_DEADLOCK FALSE
PROPERTY RetryChangesWorker
