SPECIFICATION Spec
CHECK_DEADLOCK FALSE
CONSTANTS
    op = op
    i1 = i1
    i2 = i2
    w = w
    n1 = n1
    u1 = u1
    u2 = u2
    p = p
    f1 = f1
    f2 = f2
    v1 = v1
    v2 = v2
    add = add
    list = list
    forget = forget
    hide = hide
    rename = rename
    overflow = overflow
    set = set
    setBad = setBad
    boot = boot
    blank = blank
    stranger = stranger
    NoItem = NoItem
    NoTask = NoTask
    Unset = Unset
    Operator = op
    Tasks <- MCTasks
    Wish <- MCWish
    Ids <- MCIds
    Wardrobe <- MCWardrobe
    Worn <- MCWorn
    Matching <- MCMatching
    Fields <- MCFields
    Values = {v1, v2}
    MaxIssued = 3
    MaxFaults = 1
INVARIANTS
    TypeOK
    AnswersAreTrue
    AuditFollowsChange
    OnlyTheItemMeant
    EmbeddingsMatchItems
    AddedOnce
PROPERTIES
    ImplementsContract
    CommandsAreAnswered
