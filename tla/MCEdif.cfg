SPECIFICATION Spec
CONSTANTS
    Designs <- MCDesigns
    Plain <- MCPlain
    GenName <- MCGenName
    TopOption = ""
    NoGndVcc = FALSE
    KeepMode = TRUE
    MaxNames = 8
INVARIANTS OneNameEach DefinedFirst BestNameWins
CHECK_DEADLOCK FALSE
