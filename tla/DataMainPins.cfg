SPECIFICATION Spec
CONSTANTS
    Data = {1}
    Apps = {app1}
    Accesses = {a1, a2}
    MaxVersion = 3
    MaxPending = 1
SYMMETRY Identities
CHECK_DEADLOCK FALSE
INVARIANT DeletedFileIsRemoved
