SPECIFICATION FairSpec
CONSTANTS
    MaxGen = 2
    MaxQueue = 1
INVARIANTS
    TypeOK
    OneWorker
    WantedServed
    CleanSession
    TraceOpen
    NoMasterLeft
PROPERTIES
    CancelCompletes
    Reconnects
    CloseCompletes
