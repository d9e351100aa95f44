\* Automatic bang-bang and manual heating with one limiter for all heaters,
\* two selectable plate sensors and two limits, under every command, and power
\* failing inside any save.
CONSTANTS
    h1 = h1
    s1 = s1
    p1 = p1
    p2 = p2
    Heaters = {h1}
    HeaterEnabled = {h1}
    HeaterMax <- OneFull
    PlateHeater = "ALL"
    ControlSensors = {s1}
    MinValid = 1
    PlateSensors = {p1, p2}
    Temps = {1, 2, 3, 4}
    NoReading = NoReading
    Cutoff = 4
    PlateHysteresis = 2
    MaxOutput = 2
    SampleGaps = {1}
    Modes = {"BANG_BANG"}
    FusionModes = {"MEAN"}
    Targets = {2}
    GainSets <- NoGains
    Hystereses = {1}
    Powers = {0, 2}
    Limits = {3, 4}
    Defaults <- BangFactory
    Blank = Blank
    MaxStored = 2
    StoredTargets = {2}
    OutOfRange = OutOfRange
    Found <- OtherFirmware
    TornSaves = TRUE
SPECIFICATION HistorySpec
INVARIANTS
    InhibitedWhileLatched
    NoWindupWhileInhibited
    PlateLimiterHolds
    SettingsDurable
PROPERTIES
    TripReleasedOnlyWhenCool
    BangBangStartsBelowBand
