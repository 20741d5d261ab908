SPECIFICATION FairFrameSpec
CONSTANTS
    EnterSamples = 2
    ExitSamples = 2
    Period = 4
    Inertia = 2
    SyncJump = 2
    Delays = {0, 1, 4, 8, 12, 16}
    Reads = {0, 4}
    MaxLost = 1
    NoOffset = NoOffset
    AgeLimit = 3
    MaxStep = 20
    Memory = 4
INVARIANTS
    FrameTypeOK
    TrustIsEarned
    FallbackIsTimely
    RecordsIncrease
PROPERTIES
    Debounced
    BackInStep
