SPECIFICATION ClientSpec
CONSTANTS
    Pairings = {A, B}
    NoPairing = NoPairing
    MaxMics = 1
    MaxLoads = 1
    OtherTab = TRUE
PROPERTY
    OnlyRefusedCredsGo
CHECK_DEADLOCK FALSE
