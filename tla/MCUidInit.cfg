SPECIFICATION Spec
CONSTANTS
    Uids = {old, new}
    UidLen = 4
    Asserts = FALSE
    MaxFaults = 1
    None = None
SYMMETRY Symmetric
INVARIANTS
    RefreshNormalises
