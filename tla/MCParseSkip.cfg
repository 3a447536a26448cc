SPECIFICATION OutlineSpec
CONSTANTS
    Texts <- MCTexts
    Scopes <- MCScopes
    Statuses <- MCStatuses
    UpdateFields <- NoUpdates
    Times <- MCTimes
    Batches <- MCBatches
INVARIANTS
    NoTaskDropped
