SPECIFICATION FairSpec

CONSTANTS
    f1 = f1
    f2 = f2
    home = home
    away = away
    t1 = t1
    t2 = t2
    None = None
    File = {f1}
    Episode <- MCEpisode
    EpisodeOf <- ShowFiles
    IsShow = TRUE
    Server = {home}
    Tracks <- AllTrack
    Task = {t1, t2}
    MaxPos = 1
    Tolerance = 0
    TrackOnly = FALSE
    MaxPlays = 2
    MaxMoves = 0
    MaxToggles = 0
    MayOverlap = TRUE
    MayLose = TRUE
    BoundBefore = TRUE
    MaySwitch = FALSE

PROPERTIES
    PassesConverge

CHECK_DEADLOCK FALSE
