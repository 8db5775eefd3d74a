SPECIFICATION Spec
CONSTANTS
    mic = mic
    app = app
    phone = phone
    speaker = speaker
    Buses = {"A1", "B1"}
    Mics = {mic}
    Loopbacks = {}
    Phones = {phone}
    Outputs = {speaker}
    Unsteady = {mic}
    Contended = {}
    Recorded = {"B1"}
    Presets <- SavedPresets
    MaxInputs = 1
    None = None
INVARIANT TypeOK
PROPERTY CommandsAreClean
