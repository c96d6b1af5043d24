SPECIFICATION Spec
CONSTANTS
    Sources <- MCSources
    MaxDepth = 3
CHECK_DEADLOCK FALSE
PROPERTIES EveryParseEnds
