SPECIFICATION KeptSpec

CONSTANTS
    t1 = t1
    t2 = t2
    c1 = c1
    planned = planned
    small = small
    large = large
    a = a
    b = b
    None = None
    Title = {t1, t2}
    Card = {c1}
    Status = {Watching, planned}
    Watching = Watching
    MayFail = TRUE
    MaxSeq = 3
    MaxNow = 1
    Page = {p}
    Path = {a, b}
    Size = {small, large}
    Image <- Posters
    Length <- PosterLength
    Budget = 2
    MaxAge = 1
    MaxClock = 2
    Grace = 0
    Task = {k1, k2}
    Ui = ui
    blank = blank
    odd = odd
    good = good
    home = home
    open = open
    own = own
    key = key
    en = en
    uk = uk
    Values <- KeptValues
    Initial <- KeptInitial
    NoParserKey = blank
    Unset <- KeptUnset
    Odd = {odd}
    Preset <- KeptPreset
    Language = {en, uk}
    Os = uk
    Route <- KeptRoute
    Buttons = {"torr"}
    MaxFaults = 1

CONSTRAINT OneWindow

INVARIANTS
    TypeOK
    NoTies
    StoreWithinBudget

PROPERTIES
    ListsSurvive
    RestartKeepsOrder
    EvictsTheExcess
    ColdestGoFirst
    BootTidies
    SettingsSafe

CHECK_DEADLOCK FALSE
