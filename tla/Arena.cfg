SPECIFICATION BufSpec
CONSTANTS
    Hdr = 2
    MaxChunk = 8
    SizeMax = 63
    AlignMax = 2
    Chunks = {1, 2}
    FirstChunk = 4
    Sizes <- MCSizes
    Aligns <- MCAligns
    Limits = {0, 17}
    MaxLive = 2
    MaxMarks = 2
    DefaultCap = 2
    Caps <- MCCaps
    Appends <- MCAppends
    MaxLen = 4
CHECK_DEADLOCK FALSE
INVARIANTS TypeOK BlocksApart ChunksAccountedFor MarksHold BufferHolds
PROPERTIES WithinBudget RefusalIsHarmless FailureIsRemembered
