SPECIFICATION RecorderSpec
CONSTANTS
    None = None
    Buses = {b1}
    Recs = {r1, r2}
    Stereo = {r1}
    RingFrames = 1
    Batch = 1
    Frames = 1
    CmdsPerBlock = 1
    MaxTaps = 1
INVARIANTS
    RecorderTypeOK
    RemoveFindsEngine
    StoppedIsComplete
    SkewIsReported
PROPERTY
    StopReturns
