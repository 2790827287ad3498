SPECIFICATION FairSpec
CONSTANTS
    MaxItems = 2
    NumDirs = 2
    Requests = 2
    MaxSize <- MCMaxSize
    HeaderSize = 2
    NumParts = 2
    PartSize = 2
    WakeUpSize = 3
    Capacity = 5
    FlushAbove = 2
    HkEvery = 2
    MaxDeaths = 1
INVARIANTS
    TypeOK
    Accounted
    WireInOrder
PROPERTIES
    Flushes
    HkDrains
CHECK_DEADLOCK FALSE
