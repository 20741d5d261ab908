SPECIFICATION Spec
CONSTANTS
    Length = 8
    MinSamples = 2
    Apart = 2
    Directions = {1, 2, 3}
    Weightless = Weightless
    MinPoses = 2
    MaxRuns = 2
    Nil = Nil
INVARIANTS
    PosesExact
    OneCalibration
