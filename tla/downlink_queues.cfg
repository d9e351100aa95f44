\* Two levels of one sensor each; a system queue of two and an AIRDOS queue of
\* three records, each also short of bytes; two health reports of which a
\* limited datagram takes one.
CONSTANTS
    Limits = {0, 1}
    Target <- MCTarget
    PayloadMax = 5
    Keys = {pads, rtc}
    Slots = 3
    HealthLength = 2
    SystemLengths = {2, 4}
    SystemDepth = 2
    SystemBytes = 4
    Sensors = {first, second}
    AirdosDepth = 3
    AirdosBytes = 6
    AirdosLength <- MCAirdosLength
    Priority <- MCPriority
    MaxLevel = 2
    HighPercent = 50
    LowPercent = 34
    ReduceHold = 1
    RestoreHold = 2
    BatchWait = 1
    Timeout = 1
    first = first
    second = second
SPECIFICATION FairSpec
INVARIANTS
    QueuedAreSelected
    NothingFromAnEarlierSession
PROPERTIES
    RestoredOnlyWhenCalm
    EveryReportSent
