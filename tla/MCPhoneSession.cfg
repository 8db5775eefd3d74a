SPECIFICATION FairSpec
CONSTANTS
    Ids = {p1}
    Sockets = {s1, s2}
    NoSocket = NoSocket
    MaxStrikes = 2
    MaxEpoch = 2
INVARIANTS
    OnlyAcceptedPhonesAreLive
    RevocationHolds
    AttachedTaskWillDetach
PROPERTIES
    AcceptanceIsKept
    DeadLinkIsReleased
