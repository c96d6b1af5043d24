SPECIFICATION Spec
CONSTANTS
    FMT_WRAP_COLUMN = 12
    Values <- MCValues
    Conditions <- MCConditions
    Literals <- MCLiterals
    Units <- MCUnits
INVARIANTS ExactParentheses PageKeptWhenSpaced CommentsStay SettledAtOnce
