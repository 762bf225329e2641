SPECIFICATION Spec
CONSTANTS
    r1 = r1
    r2 = r2
    Runs <- MCRuns
    FeastData <- MCFeastData
    Fallback <- MCFallback
    Psi <- MCPsi
    Scores <- MCScores
    Overlap = TRUE
    MaxOutside = 0
    NoTrust = NoTrust
    Nothing = Nothing
INVARIANT
    ChallengerPassed
