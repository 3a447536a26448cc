SPECIFICATION ListSpec
CONSTANTS
    s1 = s1
    Scopes <- MCScopes
    Statuses <- MCStatuses
    UpdateFields <- MCUpdateFields
    Times <- MCTimes
    Batches <- MCBatches
    ListArgs <- MCListArgs
    NoteLimits <- MCNoteLimits
    DefaultLimit = 1
    MaxLimit = 2
    Base = 3
    MaxId = 3
    MaxVersion = 3
    MaxNotes = 2
INVARIANTS
    ListTypeOK
    QuietListingIsExact
    ListSeedsFeed
    NotesReadOnce
