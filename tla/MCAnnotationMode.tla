------------------------- MODULE MCAnnotationMode -------------------------
EXTENDS AnnotationMode, TLC
CONSTANTS t1, t2, c1, c2, n1

\* Bound: once disturbed only DraftKept says anything.
Undisturbed == ~disturbed
Symmetric == Permutations(Tabs) \union Permutations(Calls)
==============================================================================
