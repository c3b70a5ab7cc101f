SPECIFICATION Spec
CONSTANTS
    Uids = {old, new}
    UidLen = 4
    Asserts = TRUE
    MaxFaults = 2
    None = None
SYMMETRY Symmetric
INVARIANTS
    TypeOK
    NormalModeRestored
    SilenceEnds
PROPERTIES
    ChangeIsComplete
