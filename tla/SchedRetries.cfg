SPECIFICATION Spec
CONSTANTS
    Workers = {w1, w2}
    MaxTasks = 3
    Operations = 1
    TransferChances = 2
    SubmissionChances = 2
    SchedulingChances = 2
    MaxFaults = 2
    Units = 2
    LimitOfTasks = 2
    NoWorker = NoWorker
SYMMETRY SymmetricWorkers
CHECK_DEADLOCK FALSE
INVARIANTS TypeOK ResourcesAccounted OneEndPerRun WaitersHaveRunners StartedBeforeUse DependenciesFirst NoTaskForgotten
