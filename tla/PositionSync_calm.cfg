SPECIFICATION Spec

CONSTANTS
    f1 = f1
    f2 = f2
    home = home
    away = away
    t1 = t1
    t2 = t2
    None = None
    File = {f1, f2}
    Episode <- MCEpisode
    EpisodeOf <- ShowFiles
    IsShow = TRUE
    Server = {home}
    Tracks <- AllTrack
    Task = {t1}
    MaxPos = 2
    Tolerance = 0
    TrackOnly = FALSE
    MaxPlays = 2
    MaxMoves = 2
    MaxToggles = 0
    MayOverlap = FALSE
    MayLose = FALSE
    BoundBefore = TRUE
    MaySwitch = FALSE

INVARIANTS
    TypeOK
    OnlyOthersTakenIn
    OwnInv
    ResumesWhereOtherLeft

CHECK_DEADLOCK FALSE
