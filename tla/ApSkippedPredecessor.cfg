SPECIFICATION Spec
CONSTANTS
    Apps = {app1}
    f = f
    o = o
    Data = {f, o}
    MaxTasks = 3
    Signatures <- TwoReads
    Copies = {1}
    MainAccesses <- NoAccesses
    MaxVersions = 3
CHECK_DEADLOCK FALSE
INVARIANT ReadsAreGenerated
