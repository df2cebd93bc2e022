CONSTANTS
    t1 = t1
    t2 = t2
    c1 = c1
    c2 = c2
    n1 = n1
    Tabs = {t1, t2}
    Calls = {c1, c2}
    Pages = {Home}
    Home = Home
    Internal = Internal
    Notes = {n1}
    Statuses = {"none", "open"}
    MaxEvents = 5
    None = None
SPECIFICATION Spec
SYMMETRY Symmetric
CONSTRAINT Undisturbed
INVARIANTS
    TypeOK
    ModesKept
    ModeAgrees
    NothingLeftBehind
    PinsFresh
PROPERTIES
    DraftKept
\* The system stops when MaxEvents have happened and all is done.
CHECK_DEADLOCK FALSE
