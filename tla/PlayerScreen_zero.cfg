SPECIFICATION Spec

CONSTANTS
    NFiles = 2
    Length <- OddLengths
    MaxQueue = 3
    MayFail = FALSE
    Prompt = TRUE
    Torn = FALSE
    MasksStart = FALSE
    AutoNext = TRUE
    WaitPreload = FALSE
    MayRefuse = FALSE
    Resume <- AnyResume
    Seekable = {}
    MaxInputs = 3

PROPERTIES
    OpeningKeepsPosition

CHECK_DEADLOCK FALSE
