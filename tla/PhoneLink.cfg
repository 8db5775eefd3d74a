SPECIFICATION LinkSpec
CONSTANTS
    Phone = p1
    Others = {}
    Sockets = {s1, s2}
    NoSocket = NoSocket
    NoPairing = NoPairing
    MaxStrikes = 1
    MaxEpoch = 4
    MaxTroubles = 3
    MaxLoads = 1
INVARIANTS
    LinkTypeOK
    AcceptedOnBothSides
    SidesAgree

PROPERTY
    HelloIsAnswered
CHECK_DEADLOCK FALSE
