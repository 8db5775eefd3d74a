SPECIFICATION Spec
CONSTANTS
    mic = mic
    app = app
    phone = phone
    speaker = speaker
    Buses = {"A1"}
    Mics = {mic}
    Loopbacks = {}
    Phones = {phone}
    Outputs = {speaker}
    Unsteady = {mic, speaker}
    Contended = {speaker}
    Recorded = {}
    Presets <- SavedPresets
    MaxInputs = 2
    None = None
PROPERTY
    RestOfTheMixIsKept
