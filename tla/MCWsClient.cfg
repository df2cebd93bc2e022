CONSTANTS
    Urls = {u1, u2}
    NoUrl = NoUrl
    Sockets = {s1, s2, probe}
    NoSocket = NoSocket
    Probe = probe
    MaxPending = 2
SPECIFICATION LiveSpec
INVARIANTS
    TypeOK
    OneLink
    LastWordStands
PROPERTIES
    RejectedBacksOff
    KeepsTrying
CONSTRAINT Undisturbed
