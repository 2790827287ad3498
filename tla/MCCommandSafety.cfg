SPECIFICATION Spec
CONSTANTS
    Writers = {"SIPd", "Monitord"}
    Commands = {"a", "b"}
    Malformed = {}
    MaxTime = 2
    MaxWrites = 3
    Crowded = FALSE
    Window = 1
    MaxDeaths = 1
INVARIANTS
    TypeOK
    ObeyedOnce
    ObeyedInOrder
CHECK_DEADLOCK FALSE
