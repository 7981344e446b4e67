SPECIFICATION Spec

CONSTANTS
    p1 = p1
    p2 = p2
    Proc = {p1}
    MaxVersion = 3
    MayDowngrade = TRUE
    MayBreak = FALSE
    MaxFiles = 3

PROPERTIES
    OnlyOldFilesGo

CHECK_DEADLOCK FALSE
