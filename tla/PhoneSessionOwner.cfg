SPECIFICATION Spec
CONSTANTS
    Ids = {p1}
    Sockets = {s1, s2}
    NoSocket = NoSocket
    MaxStrikes = 2
    MaxEpoch = 2
PROPERTY
    OnlyTheOwnerDetaches
