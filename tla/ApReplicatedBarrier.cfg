SPECIFICATION Spec
CONSTANTS
    Apps = {app1}
    f = f
    o = o
    Data = {f, o}
    MaxTasks = 2
    Signatures <- OneReadOneDatum
    Copies = {1, 2}
    MainAccesses <- NoAccesses
    MaxVersions = 3
CHECK_DEADLOCK FALSE
INVARIANT BarrierWaitsForAll
