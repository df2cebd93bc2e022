CONSTANTS
    a = a
    b = b
    t1 = t1
    t2 = t2
    g1 = g1
    g2 = g2
    Names = {a, b}
    Tabs = {t1, t2}
    Groups = {g1, g2}
    Hosts <- MCHosts
    Limits <- MCLimits
    Custom = Custom
    None = None
SPECIFICATION Spec
SYMMETRY Symmetric
CONSTRAINTS
    Undisturbed
    OneStrays
INVARIANTS
    TypeOK
    TabLimit
    GroupsFound
    ActiveIsTracked
PROPERTIES
    ClosedIsGone
