SPECIFICATION FairSpec
CONSTANTS
    MaxGen = 1
    MaxQueue = 1
PROPERTY
    StopCompletes
