CONSTANTS
    shot = shot
    order = order
    junk = junk
    broken = broken
    Files <- MCFiles
    Screenshots <- MCScreenshots
    Rank <- MCRank
    Entries <- MCEntries
    Rejected = {junk}
    Poison = {broken}
    NoFile = NoFile
    MaxFaults = 1
SPECIFICATION FairSpec
INVARIANTS
    TypeOK
    ProcessedIsAccounted
    BoundedDuplicates
    AuditTruthful
    NoSilentRows
    QuarantinedNotIngested
PROPERTIES
    EventuallyHandled
    ImplementsContract
