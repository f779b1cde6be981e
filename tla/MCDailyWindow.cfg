SPECIFICATION Spec
CONSTANTS
    cron = cron
    command = command
    dress = dress
    gown = gown
    shirt = shirt
    Nobody = Nobody
    Runs <- MCRuns
    Manual <- MCManual
    Garments <- MCGarments
    Owned <- MCOwned
    Combos <- MCCombos
    Base <- MCBase
    Penalty = 20
    Window = 1
    PerOutfit = 2
    MaxCandidates = 3
    TopK = 2
    MaxRetries = 1
    MaxRuns = 3
    MaxFaults = 1
INVARIANTS
    PenaltySpansWindow
CHECK_DEADLOCK FALSE
