SPECIFICATION Spec
CONSTANTS
    Sources <- MCSources
    MaxDepth = 3
CHECK_DEADLOCK FALSE
INVARIANTS TypeOK CleanBetweenDeclarations SilentMeansClosed SeparateStatements SameNest
PROPERTIES RecoveryIsReported EndsOrStaysAtBound
