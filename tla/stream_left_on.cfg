SPECIFICATION Spec
CONSTANTS
    Reader = {r1}
    NoReader = NoReader
    NoFrame = NoFrame
    Flushing = {r1}
    Patient = {}
    Deaths = {"int"}
    CmdMax = 2
    RxMax = 2
    TxWrap = 2
    MaxSeq = 4
    MaxRestarts = 0
INVARIANT
    NoStreamLeft
