SPECIFICATION Spec
CONSTANTS
    Apps = {app1, app2}
    f = f
    o = o
    Data = {f, o}
    MaxTasks = 2
    Signatures <- OneReadOneDatum
    Copies = {1, 2}
    MainAccesses <- FileReads
    MaxVersions = 3
CHECK_DEADLOCK FALSE
SYMMETRY SymmetricApps
INVARIANTS ReadsAreGenerated
