\* One process at a time: kills, retries and every failing call.
SPECIFICATION FairSpec
CONSTANTS
    Writers = {w1}
    Inodes = {i1, i2, i3}
    NoInode = NoInode
    OldText <- MCOldText
    NewText <- MCNewText
    Hole = "hole"
    MaxRetries = 3
INVARIANT TypeOK
PROPERTIES ReplaceIsAtomic EveryCallEnds
CHECK_DEADLOCK FALSE
