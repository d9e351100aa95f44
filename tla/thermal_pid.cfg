\* PID control with an integral, a derivative and two sample gaps, and changes
\* to bang-bang control; power failing inside any save; the sampling loop runs,
\* so manual setpoints come back.
CONSTANTS
    h1 = h1
    h2 = h2
    s1 = s1
    s2 = s2
    p1 = p1
    p2 = p2
    Heaters <- BothHeaters
    HeaterEnabled = {h1}
    HeaterMax <- HalfAndFull
    PlateHeater = "ALL"
    ControlSensors = {s1}
    MinValid = 1
    PlateSensors = {p1}
    Temps = {1, 2, 3, 4}
    NoReading = NoReading
    Cutoff = 4
    PlateHysteresis = 2
    MaxOutput = 2
    SampleGaps = {1, 2}
    Modes = {"PID", "BANG_BANG"}
    FusionModes = {"MEAN"}
    Targets = {1, 2}
    GainSets <- PidGains
    Hystereses = {1, 2}
    Powers = {0, 2}
    Limits = {4}
    Defaults <- PidFactory
    Blank = Blank
    MaxStored = 2
    StoredTargets = {1, 2}
    OutOfRange = OutOfRange
    Found <- OtherFirmware
    TornSaves = TRUE
SPECIFICATION FairSpec
INVARIANTS
    TypeOK
PROPERTIES
    ManualSetpointRestored
