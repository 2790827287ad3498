SPECIFICATION FairSpec
CONSTANTS
    Writers = {"SIPd", "Monitord"}
    Commands = {"a"}
    Malformed = {}
    MaxTime = 1
    MaxWrites = 3
    Crowded = TRUE
    Window = 1
    MaxDeaths = 0
PROPERTIES
    Answered
    
CHECK_DEADLOCK FALSE
