SPECIFICATION Spec
CONSTANTS
    Providers = {p1, p2}
    Units = {u1, u2}
    Readers = {r1, r2}
    MaxAlive = 2
    Default = Default
    None = None
SYMMETRY Symmetric
CHECK_DEADLOCK FALSE
INVARIANTS
    TypeOK
    ClaimsHaveOwners
    ListsAllWhileDriven
    NamesAreUnique
    OneHandlePerReader
PROPERTY
    ImplementsLease
