SPECIFICATION Spec
CONSTANTS
    Texts = {a, b}
    MaxLog = 3
    MaxGroup = 1
    NumberOfLines = 2
    MaxLines = 5
    Mark = Mark
INVARIANT NoLineTwice
CHECK_DEADLOCK FALSE
