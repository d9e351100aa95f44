\* One device of any of the four kinds, failing in every way until it settles.
CONSTANTS
    Kinds = {"max", "pads", "hids", "isds"}
    MaxErrors = 2
    RetryPeriod = 3
SPECIFICATION FairSpec
PROPERTIES
    OnlyARestartMisleads
    RecoversByItself
    DeadSensorBecomesFault
