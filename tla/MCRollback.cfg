SPECIFICATION FairSpec
CONSTANTS
    Order <- MCOrder
    Runs <- MCRuns
    Text = Text
    MaxVersion = 3
    MaxChanges = 3
    MaxFailures = 1
INVARIANTS
    SubmittedIsJustified
PROPERTY
    DegradedIsFound
