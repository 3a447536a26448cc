SPECIFICATION ToolsSpec
CONSTANTS
    Texts <- MCTexts
    Calls <- MCCalls
    UpdateArgs <- MCUpdateArgs
    DeleteArgs <- MCDeleteArgs
    NoteTexts <- MCNoteTexts
    MaxTodoNotes = 1
    Scopes <- MCScopes
    Statuses <- MCStatuses
    UpdateFields <- NoUpdates
    Times <- MCTimes
    Batches <- MCBatches
    Second = 2
    IsoFirst <- MCIsoFirst
    IsoLast = 150
    Half = 1024
    Millisecond = 6
    Minute = 24
    Hour = 72
    Day = 216
INVARIANTS
    ToolsTypeOK
    LoopFindsAnchors
    OutlineKept
    RefusedForCause
    RelativeDueIsTrue
    EchoHarmless
PROPERTIES
    DeleteNamesItsScope
