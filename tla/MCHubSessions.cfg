CONSTANTS
    c1 = c1
    c2 = c2
    a1 = a1
    k1 = k1
    k2 = k2
    k3 = k3
    b1 = b1
    b2 = b2
    s = s
    Calls = {c1, c2, a1}
    NoCall = NoCall
    Conns = {k1}
    NoConn = NoConn
    Browsers = {b1}
    BrowserOf <- MCBrowserOf
    Speaks = {b1}
    Sessions = {s}
    Default = s
    Unnamed = Unnamed
    SessionName <- MCSessionName
    Independent = {a1}
    MaxSeq = 3
    MaxRestarts = 0
SPECIFICATION Spec
INVARIANTS
    TypeOK
    SessionMutex
    NoStrandedSession
PROPERTIES
    ImplementsRpc
CHECK_DEADLOCK FALSE
