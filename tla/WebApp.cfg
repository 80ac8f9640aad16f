SPECIFICATION Spec
CONSTANTS
    Slots = {s1}
    MaxChanges = 1
    Asks = {r1, r2}
    MaxTokens = 3
INVARIANTS
    TypeOK
    QuietIsCurrent
    SessionEndsForAReason
    DraftsAreTheUsers
    FilledOnceAddedOnce
    AddedIsTold
    SavedWhereShown
PROPERTIES SessionSettles
CHECK_DEADLOCK FALSE
