SPECIFICATION FairSpec
CONSTANTS
    Texts = {a}
    MaxLog = 5
    MaxGroup = 2
    NumberOfLines = 2
    MaxLines = 3
    Mark = Mark
INVARIANTS
    TypeOK
    ShowsPieceOfLog
PROPERTIES
    NeverGoesBack
    CatchesUp
CHECK_DEADLOCK FALSE
