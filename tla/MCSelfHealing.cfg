SPECIFICATION FairSpec
CONSTANTS
    t1 = t1
    t2 = t2
    NoKey = NoKey
    NoTime = NoTime
    NoRequest = NoRequest
    Threads <- MCThreads
    Requests <- MCRequests
    Attempts = 2
    TTL = 2
    FailureThreshold = 2
    ResetTimeout = 1
    MaxTime = 2
    MaxFailures = 3
    MaxReceived = 2
INVARIANTS
    TypeOK
    ExecutedOnlyWhenAllowed
    SequentialDuplicateSuppressed
    ExecutedRepliesAreTrue
PROPERTIES
    ImplementsGate
    EveryRequestAnswered
