SPECIFICATION AppSpec

CONSTANTS
    Titles = {m1, m2}
    Releases = {r1, r2}
    None = None
    Tv = TRUE
    Pages = {"discover"}
    Editable = {"torrserver"}
    MaxStack = 4
    Field = {f1, f2}
    Texts = {x, y, z}
    Blank = x
    TouchAndBack = FALSE
    MaxQueue = 2

SYMMETRY Interchangeable
CONSTRAINT Focused

INVARIANTS
    TypeOK
    FlowSafe

PROPERTIES
    KeyboardSafe
    FocusSafe

CHECK_DEADLOCK FALSE
