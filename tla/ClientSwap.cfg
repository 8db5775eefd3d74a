SPECIFICATION ClientSpec
CONSTANTS
    Pairings = {A, B}
    NoPairing = NoPairing
    MaxMics = 3
    MaxLoads = 1
    OtherTab = FALSE
INVARIANT
    OrphansAreReleased
CHECK_DEADLOCK FALSE
