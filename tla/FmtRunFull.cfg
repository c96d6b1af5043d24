SPECIFICATION Spec
CONSTANTS
    DiagLimit = 3
    Nodes <- MCNodes
    Dirs <- MCDirs
    Kids <- MCKids
    Dot <- MCDot
    DoExt <- MCDoExt
    Args <- MCArgs
    MaxFaults = 2
    MaxRuns = 2
PROPERTY BrokenLeftAlone
CHECK_DEADLOCK FALSE
