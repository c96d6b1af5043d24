\* Two runs of doot fmt over the same tree, each in one call of fs_write_file.
SPECIFICATION Spec
CONSTANTS
    Writers = {w1, w2}
    Inodes = {i1, i2, i3}
    NoInode = NoInode
    OldText <- MCOldText
    NewText <- MCNewText
    Hole = "hole"
    MaxRetries = 0
INVARIANT IntactAtRest
CHECK_DEADLOCK FALSE
