SPECIFICATION LogSpec
CONSTANTS
    p1 = p1
    p2 = p2
    NoCaller = NoCaller
    s1 = s1
    pending = pending
    completed = completed
    low = low
    high = high
    Callers <- MCCallers
    Requests <- MCRequests
    Scopes <- MCScopes
    Statuses <- MCStatuses
    UpdateFields <- MCUpdateFields
    Times <- MCTimes
    Batches <- MCBatches
    MaxId = 3
    MaxVersion = 3
    MaxNotes = 1
INVARIANTS
    TxTypeOK
    LockOnlyInside
    AnswersDistinct
    LastWordStands
PROPERTIES
    ImplementsStore
    CallsReturn
