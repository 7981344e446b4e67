SPECIFICATION PlaybackSpec

CONSTANTS
    NFiles = 2
    Length <- OddLengths
    MaxQueue = 3
    MayFail = TRUE
    Prompt = TRUE
    Torn = FALSE
    MasksStart = TRUE
    AutoNext = TRUE
    WaitPreload = FALSE
    MayRefuse = FALSE
    Resume <- AnyResume
    Seekable = {0, 2, 3}
    MaxInputs = 3
    Enabled = {"intro", "credits"}
    MaxSaves = 1
    Pieces = 4
    Needed = 2
    Ahead = 3
    Budget = 3
    Grace = 1

INVARIANTS
    TypeOK
    WaitSafe

PROPERTIES
    SkipSafe
    EndHandsOverOnceSeen
    OnlyFinishedStartsOver
    ErrorIsOfThisFile
    OpeningKeepsPosition
    HandedOverIsFinished

CHECK_DEADLOCK FALSE
