SPECIFICATION Spec
CONSTANTS
    Texts <- MCTexts
    MaxDepth = 4
INVARIANTS TypeOK CallsBounded
PROPERTIES NothingLost LineStructure UnclosedIsReported TokensConform
