CONSTANTS
    shot = shot
    order = order
    junk = junk
    broken = broken
    Files <- MCPoisonFiles
    Screenshots <- MCScreenshots
    Rank <- MCPoisonRank
    Entries <- MCPoisonEntries
    Rejected = {}
    Poison = {broken}
    NoFile = NoFile
    MaxFaults = 0
SPECIFICATION FairSpec
PROPERTY MalformedEmailHarmless
