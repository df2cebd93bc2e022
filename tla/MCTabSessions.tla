---------------------------- MODULE MCTabSessions ----------------------------
EXTENDS TabSessions, TLC
CONSTANTS a, b, t1, t2, g1, g2

Shop == <<"shop">>
MyShop == <<"my", "shop">>
MCHosts == {Shop, MyShop}
MCLimits == Shop :> 1 @@ MyShop :> 1
\* Bound: once ownership was disturbed only ActiveIsTracked says anything.
Undisturbed == ~disturbed
\* Bound: of the two tabs one may be astray; with both astray none counts.
OneStrays == Cardinality(strayed) <= 1
Symmetric == Permutations(Tabs) \union Permutations(Groups) \union Permutations(Names)
==============================================================================
