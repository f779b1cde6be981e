SPECIFICATION FairSpec
CONSTANTS
    bot = bot
    script = script
    again = again
    Procs <- MCProcs
    Bot = bot
    Latest = 3
    Size <- MCSize
    MaxFaults = 2
INVARIANTS
    TypeOK
    RecordedIsWhole
    OneApplies
PROPERTIES
    BotGetsToServe
    ImplementsContract
