SPECIFICATION Spec
CONSTANTS
    Files <- MCFiles
    Texts <- MCTexts
    Runs = {1, 2}
    CHUNK_SIZE = 3
    CHUNK_OVERLAP = 1
    Stride = 2
    Wrap = 2
    MaxTime = 2
    MaxEdits = 1
    MaxFailures = 1
INVARIANTS
    TypeOK
    UndisturbedRunsComplete
    GaugeNeverOverstates
CHECK_DEADLOCK FALSE
