CONSTANTS
    Unprintable = {2}
    LineMax = 3
    WireMax = 10
    MaxLines = 3
    MaxStatus = 1
    MaxFaults = 3
    MaxResets = 1
SPECIFICATION Spec
INVARIANTS
    WholeLinesAreParsed
    WholeFramesAreAccepted
    MalformedFramesAreDiscarded
    SplicesNeedLostNewlines
CHECK_DEADLOCK FALSE
