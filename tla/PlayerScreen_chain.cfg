SPECIFICATION FairSpec

CONSTANTS
    NFiles = 3
    Length <- SameLength
    MaxQueue = 3
    MayFail = TRUE
    Prompt = TRUE
    Torn = TRUE
    MasksStart = TRUE
    AutoNext = TRUE
    WaitPreload = TRUE
    MayRefuse = TRUE
    Resume <- MiddleWatched
    Seekable = {}
    MaxInputs = 3

INVARIANTS
    NoStaleWait

PROPERTIES
    ReachesLastEnd

CHECK_DEADLOCK FALSE
