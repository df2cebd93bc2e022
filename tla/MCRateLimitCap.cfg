CONSTANTS
    deep = deep
    site = site
    sub = sub
    dom = dom
    subdom = subdom
    Navigations = {1, 2, 3, 4, 5, 6, 7}
    HostOf <- MCHostOf
    Hosts = {site}
    Domains = {dom}
    NoDomain = NoDomain
    Parents <- MCParents
    Labels <- MCLabels
    RuleSets <- OneRuleSet
    Timeout = 4
    MaxLag = 0
    MaxTime = 0
    MaxSwaps = 0
SPECIFICATION Spec
INVARIANT SlidingWindowCap
CONSTRAINT StartedInOrder
CHECK_DEADLOCK FALSE
