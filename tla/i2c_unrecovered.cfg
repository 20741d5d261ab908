SPECIFICATION BusSpec
CONSTANTS
    Strap = 104
    Length = 2
    SensorBytes = {0, 90}
    MaxRestarts = 2
    MaxTransfers = 2
INVARIANT
    Recovered
CHECK_DEADLOCK FALSE
