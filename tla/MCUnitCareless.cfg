SPECIFICATION Spec
CONSTANTS
    Tags <- OneOfEach
    TypeA <- TypeATags
    Supported <- KnownTags
    ChipIds = {1, 2, 3, 4}
    MaxFaults = 1
    Careful = FALSE
    Commands = TRUE
    NoTag = NoTag
    NoChip = NoChip
INVARIANTS
    InsertedIsListed
    CrashNeedsChip
PROPERTIES
    FreshInsertionIsReal
    TypeARemovalIsReal
    ConnectIsHonest
