SPECIFICATION Spec
CONSTANTS
    CalSamples = 3
    WindowSamples = 2
    UpdateEvery = 2
    MaxFrame = 10
    NoFrame = NoFrame
INVARIANTS
    TypeOK
    BuffersUnbroken
    NothingSkipped
    ReadSinceError
    CalibratedSinceBreak
PROPERTY
    GravitySpaced
