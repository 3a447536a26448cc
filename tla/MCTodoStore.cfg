SPECIFICATION Spec
CONSTANTS
    s1 = s1
    s2 = s2
    pending = pending
    completed = completed
    Scopes <- MCScopes
    Statuses <- MCStatuses
    UpdateFields <- MCUpdateFields
    Times <- MCTimes
    Batches <- MCBatches
    MaxId = 4
    MaxVersion = 4
    MaxNotes = 2
SYMMETRY Symmetry
INVARIANTS
    TypeOK
    IdsAccountedFor
    ParentsPrecede
    OneCallPerVersion
    NotesAttached
    ReplyNamesTheCommit
PROPERTY
    EveryChangeIsStamped
