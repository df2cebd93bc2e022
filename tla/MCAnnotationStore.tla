------------------------- MODULE MCAnnotationStore -------------------------
EXTENDS AnnotationStore, TLC
CONSTANTS c1, c2

\* No property says more once the store was disturbed.
Undisturbed == ~disturbed
Symmetric == Permutations(Calls)
==============================================================================
