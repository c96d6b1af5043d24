SPECIFICATION Spec
CONSTANTS
    FMT_WRAP_COLUMN = 12
    Values = {}
    Conditions = {}
    Literals <- Greetings
    Units = {}
INVARIANTS KeptOrSettled
