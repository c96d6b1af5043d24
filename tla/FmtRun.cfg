SPECIFICATION FairSpec
CONSTANTS
    DiagLimit = 3
    Nodes <- MCNodes
    Dirs <- MCDirs
    Kids <- MCKids
    Dot <- MCDot
    DoExt <- MCDoExt
    Args <- MCArgs
    MaxFaults = 2
    MaxRuns = 2
INVARIANTS TypeOK ExitTellsTheTree ReportIsTrue
PROPERTIES BrokenRewrittenOnlyWhenFull EveryRunEnds
CHECK_DEADLOCK FALSE
