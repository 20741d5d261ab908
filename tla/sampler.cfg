SPECIFICATION Spec
CONSTANTS
    Period = 4
    SampleTime = 3
    ConfigTime = 4
    Wrap = 32
    ZeroFrames = 3
    Cooldown = 5
    MaxUpsets = 4
INVARIANTS
    OnSchedule
    ZeroRunBounded
PROPERTY
    Recovers
