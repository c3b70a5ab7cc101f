SPECIFICATION FairSpec
CONSTANTS
    Tags <- MifareAndOther
    TypeA <- TypeATags
    Supported <- KnownTags
    ChipIds = {1, 2}
    MaxFaults = 0
    Careful = TRUE
    Commands = FALSE
    NoTag = NoTag
    NoChip = NoChip
PROPERTIES
    InsertionIsReal
