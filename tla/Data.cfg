SPECIFICATION DataSpec

CONSTANTS
    p1 = p1
    p2 = p2
    Proc = {p1, p2}
    MaxVersion = 2
    MayDowngrade = TRUE
    MayBreak = TRUE
    MaxFiles = 3
    Key = {k1}
    NoKey = NoKey
    Malformed = Malformed
    Language = {en, ru}
    Net = {direct, proxied}
    Subject = {a, b}
    Row = {r1, r2}
    None = None
    Shelf = {l1, l2}
    Local = {l2}
    Tab = {movies, tv}
    Total = 4
    EmptyPage = {3}
    Request = {t1, t2}
    custom = custom
    quad = quad
    system = system
    near = near
    far = far
    sinkhole = sinkhole

CONSTRAINT Few
SYMMETRY Interchangeable

INVARIANTS
    TypeOK
    OpenIsMigrated
    PageIsCurrent
    GridIsInOrder
    RequestIsRouted

CHECK_DEADLOCK FALSE
