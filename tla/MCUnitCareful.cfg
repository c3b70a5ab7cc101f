SPECIFICATION FairSpec
CONSTANTS
    Tags <- MifareAndOther
    TypeA <- TypeATags
    Supported <- KnownTags
    ChipIds = {1, 2}
    MaxFaults = 2
    Careful = TRUE
    Commands = FALSE
    NoTag = NoTag
    NoChip = NoChip
INVARIANTS
    TypeOK
    SelectIsBounded
    ConnectedIsSelected
PROPERTIES
    TimeoutIsReal
    WaitsEnd
    RemovalIsNoticed
    ImplementsSlot
