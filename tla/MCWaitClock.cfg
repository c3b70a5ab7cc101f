CONSTANTS
    Second = 5
    Limits = {0, 1, 5, 6, 8, 11}
    MaxTurn = 3
    Sleep = 1
    MaxSleep = 2
    Settings <- MCSettings
    MaxSettings = 2
    Horizon = 40
SPECIFICATION FairSpec
INVARIANTS TypeOK InsertionLimit LooksBeforeGivingUp RemovalLimit
PROPERTY LimitedCallsEnd
\* A behaviour is one call.
CHECK_DEADLOCK FALSE
