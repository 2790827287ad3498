SPECIFICATION Spec
CONSTANTS
    MaxName = 3
    Limits = {1, 3}
    MaxDeaths = 1
INVARIANTS
    TypeOK
    NoLinkMissed
    AtMostTwice
    InCreationOrder
PROPERTIES
    ImplementsFeed
    EventuallyHandedOut
CHECK_DEADLOCK FALSE
