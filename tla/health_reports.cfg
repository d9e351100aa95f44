\* One sensor of the Secondary, whose frames also show that the Secondary is
\* there; the limits in the order of the source.
CONSTANTS
    Remote = {"1"}
    Local = {}
    Timeout = 1
    CheckPeriod = 1
    Period = 2
    GsTimeout = 2
    MaxPause = 1
    MaxOverflow = 1
SPECIFICATION FairSpec
INVARIANTS
    ReportsAreCurrent
PROPERTIES
    GroundStationLearns
