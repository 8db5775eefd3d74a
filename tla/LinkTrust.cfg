SPECIFICATION LinkSpec
CONSTANTS
    Phone = p1
    Others = {}
    Sockets = {s1, s2}
    NoSocket = NoSocket
    NoPairing = NoPairing
    MaxStrikes = 1
    MaxEpoch = 3
    MaxTroubles = 2
    MaxLoads = 1
PROPERTY
    TrustedCredsAreKept
CHECK_DEADLOCK FALSE
