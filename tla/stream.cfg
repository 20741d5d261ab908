SPECIFICATION FairSpec
CONSTANTS
    Reader = {r1, r2}
    NoReader = NoReader
    NoFrame = NoFrame
    Flushing = {r1}
    Patient = {r2}
    Deaths = {"int", "kill", "icm"}
    CmdMax = 2
    RxMax = 2
    TxWrap = 2
    MaxSeq = 4
    MaxRestarts = 1
INVARIANTS
    TypeOK
    SingleReader
    SessionStream
    QuietWhenFree
    FreshFrames
PROPERTIES
    GapAccounted
    StartTakesEffect
    LockReleased
