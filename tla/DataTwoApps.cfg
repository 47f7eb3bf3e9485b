SPECIFICATION Spec
CONSTANTS
    Data = {1, 2}
    Apps = {app1, app2}
    Accesses = {a1, a2, a3}
    MaxVersion = 2
    MaxPending = 2
SYMMETRY Identities
CHECK_DEADLOCK FALSE
INVARIANTS TypeOK PendingVersionsKept SourceNotStolen NoDeletedLeftover DeletionCompletes ResultSearchTerminates NoBlockLeft
