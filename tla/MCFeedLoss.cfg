SPECIFICATION FeedSpec
CONSTANTS
    c1 = c1
    s1 = s1
    s2 = s2
    pending = pending
    completed = completed
    Clients <- MCClients
    Adopters <- NoAdopters
    ScopeOf <- MCScopeOf
    Scopes <- MCScopes
    Statuses <- MCStatuses
    UpdateFields <- MCUpdateFields
    Times <- MCTimes
    Batches <- MCBatches
    Limits <- MCLimits
    Base = 3
    MaxId = 4
    MaxVersion = 3
    MaxNotes = 0
INVARIANTS
 NothingLost
