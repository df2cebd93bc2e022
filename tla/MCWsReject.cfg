CONSTANTS
    Urls = {u1}
    NoUrl = NoUrl
    Sockets = {s1, s2, probe}
    NoSocket = NoSocket
    Probe = probe
    MaxPending = 2
SPECIFICATION Spec
INVARIANT OnlyRivalsReject
