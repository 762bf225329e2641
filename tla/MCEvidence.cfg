SPECIFICATION Spec
CONSTANTS
    Complete <- MCComplete
    Readings <- MCReadings
    Unreadable = Unreadable
    NoTrust = NoTrust
    MaxChanges = 3
INVARIANTS
    KnockoutsBlock
    CompliantIsDocumented
    OneCapPlanReaches
PROPERTIES
    WorseNeverScoresHigher
