SPECIFICATION ConsoleSpec
CONSTANTS
    Levels = {0, 1}
    DefaultLevel = 0
    Absent = Absent
    Presets <- MCPresets
    HistoryCap = 1
    MaxEdits = 2
    MaxFlight = 1
PROPERTY
    RetoggleReverts
