SPECIFICATION SessionFairSpec
CONSTANTS
    Tags <- MifareAndDESFire
    TypeA <- MifareAndDESFire
    Supported <- MifareAndDESFire
    ChipIds = {1, 2, 3}
    MaxFaults = 1
    Careful = TRUE
    Commands = TRUE
    NoTag = NoTag
    NoChip = NoChip
    TargetOf <- MCTargetOf
INVARIANTS
    SessionTypeOK
    CommandsHaveDevice
    AnsweredByOwnCard
    IdentifierKnown
    OwnChecker
PROPERTIES
    ReselectRecovers
    CommandsReturn
