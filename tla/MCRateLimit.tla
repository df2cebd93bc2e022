---------------------------- MODULE MCRateLimit ----------------------------
EXTENDS RateLimit
CONSTANTS deep, site, sub, dom, subdom

\* `sub` is a host below the domain `dom`; one rule set has a rule for it.
MCHostOf == [n \in Navigations |-> IF n = deep THEN sub ELSE site]
MCParents == [h \in Hosts |-> IF h = sub THEN {dom, subdom} ELSE {dom}]
MCLabels == [d \in Domains |-> IF d = subdom THEN 2 ELSE 1]

Limit(m, w) == [max |-> m, window |-> w]
TwoPerWindow == [d \in {dom} |-> Limit(2, 2)]
OnePerLong == [d \in {dom, subdom} |-> IF d = dom THEN Limit(1, 3) ELSE Limit(0, 2)]

MCRuleSets == {TwoPerWindow, OnePerLong}
OneRuleSet == {TwoPerWindow}

Interchangeable == Permutations(Navigations \ {deep})

\* Interchangeable calls 1..n start in the order of their numbers.
StartedInOrder ==
    \A n \in Navigations \ {1} : pc[n] # "idle" => pc[n - 1] # "idle"
=============================================================================
