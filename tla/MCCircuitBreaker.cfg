SPECIFICATION FairSpec
CONSTANTS
    t1 = t1
    t2 = t2
    t3 = t3
    NoTime = NoTime
    Threads <- MCThreads
    FailureThreshold = 2
    ResetTimeout = 2
    MaxTime = 4
    MaxFailures = 4
INVARIANTS
    ThresholdOpens
    OpenWasCounted
PROPERTIES
    OpenWindowHonoured
    CallsReturn
