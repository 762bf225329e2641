SPECIFICATION FairSpec
CONSTANTS
    r1 = r1
    r2 = r2
    Runs <- MCRuns
    FeastData <- MCFeastData
    Fallback <- MCFallback
    Psi <- MCPsi
    Scores <- MCScores
    Overlap = FALSE
    MaxOutside = 1
    NoTrust = NoTrust
    Nothing = Nothing
INVARIANTS
    TypeOK
    TrustIsOwn
    DriftedRunsNeverSucceed
PROPERTIES
    ImplementsPromotion
    RunsEnd
