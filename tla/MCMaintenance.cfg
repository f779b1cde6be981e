SPECIFICATION FairSpec
CONSTANTS
    snapshot = snapshot
    Manual <- MCManual
    Retain = 1
    PerDay = 2
    Capacity = 4
    Warn = 3
    Critical = 4
    MaxDay = 2
    MaxScript = 2
    MaxCopies = 1
    MaxFaults = 1
INVARIANTS
    TypeOK
    NewestSurvives
    ExpiredAreGone
    AuditLogIsTrue
    TornTakesTwo
PROPERTIES
    RetentionIsSafe
    CriticalIsAlerted
