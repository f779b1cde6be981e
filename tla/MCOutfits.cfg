SPECIFICATION Spec
CONSTANTS
    navy = navy
    red = red
    none = none
    Ids <- MCIds
    Colors <- MCColors
    NoColor = none
    Target = 1
    Texts <- MCTexts
    Lists <- MCLists
    SeasonLists <- MCSeasonLists
    Prices <- MCPrices
    Budgets <- MCBudgets
    Starts <- MCStarts
    MaxCandidates = 3
    Canvas = 1024
    Gutter = 8
    MaxEdits = 2
INVARIANTS
    CandidatesAreTheOutfits
    ScoreInRange
    EveryPieceIsDrawn
PROPERTIES
    EditsActAsMeant
    ForgettingKeepsTheRest
CHECK_DEADLOCK FALSE
