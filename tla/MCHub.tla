------------------------------- MODULE MCHub -------------------------------
EXTENDS Hub
CONSTANTS c1, c2, a1, k1, k2, k3, b1, b2, s

MCBrowserOf == [k \in Conns |-> IF k = k3 THEN b2 ELSE b1]
\* Two page calls that address one tab under different names, and a long poll.
MCSessionName == [c \in Calls |-> IF c = c1 THEN Unnamed ELSE Default]
=============================================================================
