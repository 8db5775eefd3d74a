SPECIFICATION Spec
CONSTANTS
    Stages <- MCStages
    AutomixGroups <- MCGroups
    Slots = {"s1"}
    Sent <- MCSent
    MaxPublishes = 2
    GenMod = 8
    Buses = {b1, b2}
    Captures = {c1, c2, c3, c4}
    NoCapture = NoCapture
    SeqMod = 8
    FirstWires = {4}
    Base = 16
    Reorder = 3
    LastPacket = 9
    Window <- MCWindow
    AdaptFloor = 1
    AdaptCeil = 3
    AdaptBump = 2
    AdaptShrinkAfter = 2
    Listeners = {"a"}
    RateOf <- MCRateOf
    DriftCadence = 2
    DriftStep = 1
    MaxTrim = 1
    Channels = 2
    RingSize = 8
    Target = 1
    HighWater = 1
    CaptureBlock = 2
    OutputBlock = 2
    MaxFrames = 6
    MaxZeros = 3
    Specs <- MCSpecs
    MaxInputs = 3
    Pairings = {q1, q2}
    NoPairing = NoPairing
    MaxMics = 3
    MaxLoads = 1
    OtherTab = FALSE
INVARIANTS
    TypesOK
    LiveDspIsSafe
    PhoneAudioIsSafe
    RingIsSafe
    SourcesAreSafe
    PageIsHonest
PROPERTIES
    NothingHangs
    OnlyRefusedCredsGo
CHECK_DEADLOCK FALSE
