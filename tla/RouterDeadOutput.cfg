SPECIFICATION FairSpec
CONSTANTS
    mic = mic
    app = app
    phone = phone
    speaker = speaker
    Buses = {"A1"}
    Mics = {mic}
    Loopbacks = {}
    Phones = {}
    Outputs = {speaker}
    Unsteady = {speaker}
    Contended = {}
    Recorded = {}
    Presets <- SavedPresets
    MaxInputs = 2
    None = None
PROPERTY
    DeadOutputRecovers
