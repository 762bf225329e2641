SPECIFICATION Spec
CONSTANTS
    t1 = t1
    t2 = t2
    Threads <- MCThreads
    Requests <- MCRequests
    MaxReceived = 3
    MaxEntries = 3
    Genesis = Genesis
    Torn = Torn
    Altered = Altered
    DamageKinds = {"edit", "delete"}
    NoRequest = NoRequest
    NoEntry = NoEntry
INVARIANTS
    AcknowledgedIsRecorded
    CountedRegressionsAreReal
    TagsAreRecorded
    TagsAgree
    NoFalseIntegrityAlarm
    AttestationCoversHead
SYMMETRY MCSymmetry
