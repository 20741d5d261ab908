SPECIFICATION Spec
CONSTANTS
    Period = 2
    Wrap = 12
    MaxBusy = 3
    Tries = 2
    Observations = 1
    MaxSample = 5
    Nothing = Nothing
INVARIANTS
    WholeFrame
PROPERTY
    OnTime
CHECK_DEADLOCK FALSE
