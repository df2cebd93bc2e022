CONSTANTS
    deep = deep
    site = site
    sub = sub
    dom = dom
    subdom = subdom
    Navigations = {n1, n2, n3, deep}
    HostOf <- MCHostOf
    Hosts = {site, sub}
    Domains = {dom, subdom}
    NoDomain = NoDomain
    Parents <- MCParents
    Labels <- MCLabels
    RuleSets <- MCRuleSets
    Timeout = 4
    MaxLag = 1
    MaxTime = 3
    MaxSwaps = 1
SPECIFICATION Spec
INVARIANTS
    TypeOK
    CapWithoutReturns
    LedgerMatchesSlots
    NeverEarly
    StatusTellsTheWait
SYMMETRY Interchangeable
CHECK_DEADLOCK FALSE
