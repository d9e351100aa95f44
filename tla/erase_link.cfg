\* Two requests, two transmissions each, and one reset of either board.
CONSTANTS
    Storages = {"I", "B"}
    RequestTimeout = 2
    RetryPeriod = 1
    MaxAttempts = 2
    DedupeWindow = 2
    MaxPause = 1
    MaxRequests = 2
    MaxResets = 1
SPECIFICATION FairSpec
INVARIANTS
    AtMostOncePerBoot
    ResultIsTrue
PROPERTIES
    KeepsPromise
    EveryRequestAnswered
