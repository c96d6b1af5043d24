SPECIFICATION Spec
CONSTANTS
    Files <- MCFiles
    Chunk = 2
    MaxBytes = 7
    TabWidth = 4
CHECK_DEADLOCK FALSE
INVARIANTS LoadsWholeAndValid RefusedForItsFault LinesMakeTheText PositionIsRight CaretsLineUp
PROPERTIES EveryCallReturns
