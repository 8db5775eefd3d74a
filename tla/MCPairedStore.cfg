SPECIFICATION FairSpec
CONSTANTS
    Ids = {d1, d2}
    MaxTime = 1
    TTL = 0
    NoDevice = NoDevice
INVARIANTS
    AnswersAreKept
    NothingLeftBehind
PROPERTIES
    UnreadableFileIsKept
    ImplementsTrustStore
    RevocationIsRetried
