SPECIFICATION Spec
CONSTANTS
    Second = 5
    Limits = {0, 1, 6}
    MaxTurn = 3
    Sleep = 1
    MaxSleep = 2
    Settings <- MCSettings
    MaxSettings = 1
    Horizon = 12
INVARIANT ZeroNeverTimesOut
\* A behaviour is one call.
CHECK_DEADLOCK FALSE
