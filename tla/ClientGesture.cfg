SPECIFICATION ClientSpec
CONSTANTS
    Pairings = {A, B}
    NoPairing = NoPairing
    MaxMics = 3
    MaxLoads = 1
    OtherTab = FALSE
INVARIANT
    MicNeedsAGesture
CHECK_DEADLOCK FALSE
