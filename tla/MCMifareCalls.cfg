CONSTANTS
    k1 = k1  k2 = k2  b1 = b1  b2 = b2  s1 = s1  s2 = s2
    Blocks = {b1, b2}
    SectorOf <- MCSectorsOf
    Keys = {k1, k2}
    CardKey <- MCCardKey
    MaxValue = 1
    Rejected = {1}
    MaxFaults = 1
    None = None
    Threw = Threw
SPECIFICATION FairSpec
INVARIANT TypeOK
PROPERTIES EffectIsExact ReadIsCurrent AuthFailureRecovers CallsReturn ImplementsStore
