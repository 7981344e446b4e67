SPECIFICATION Spec

CONSTANTS
    f1 = f1
    f2 = f2
    home = home
    away = away
    t1 = t1
    t2 = t2
    None = None
    File = {f1}
    Episode <- MCEpisode
    EpisodeOf <- ShowFiles
    IsShow = TRUE
    Server = {home, away}
    Tracks <- HomeTracks
    Task = {t1}
    MaxPos = 1
    Tolerance = 0
    TrackOnly = FALSE
    MaxPlays = 1
    MaxMoves = 1
    MaxToggles = 2
    MayOverlap = TRUE
    MayLose = TRUE
    BoundBefore = TRUE
    MaySwitch = TRUE

INVARIANTS
    NothingFromUntracked

CHECK_DEADLOCK FALSE
