\* Two control sensors under all fusion modes, a limiter for one of the
\* two heaters, and power failing inside any save, which may leave a setpoint
\* above every limit and a target at the cutoff.  The one temperature inside
\* both bands is left to the other two thermal runs.
CONSTANTS
    h1 = h1
    h2 = h2
    s1 = s1
    s2 = s2
    p1 = p1
    p2 = p2
    Heaters <- BothHeaters
    HeaterEnabled <- BothHeaters
    HeaterMax <- HalfAndFull
    PlateHeater = h1
    ControlSensors = {s1, s2}
    MinValid = 2
    PlateSensors = {p1}
    Temps = {1, 3, 4}
    NoReading = NoReading
    Cutoff = 4
    PlateHysteresis = 2
    MaxOutput = 2
    SampleGaps = {1}
    Modes = {"PID", "BANG_BANG"}
    FusionModes = {"MEAN", "MINIMUM", "MAXIMUM"}
    Targets = {2}
    GainSets <- OneGain
    Hystereses = {1}
    Powers = {0, 2}
    Limits = {4}
    Defaults <- Factory
    Blank = Blank
    MaxStored = 3
    StoredTargets = {2, 4}
    OutOfRange = OutOfRange
    Found <- OtherFirmware
    TornSaves = TRUE
SPECIFICATION Spec
INVARIANTS
    HeatingOnlyWhenSafe
    PowerIsAccountedFor
