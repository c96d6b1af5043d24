SPECIFICATION Spec
CONSTANTS
    FMT_WRAP_COLUMN = 12
    Values <- Comparisons
    Conditions = {}
    Literals = {}
    Units = {}
INVARIANTS MeaningKept
