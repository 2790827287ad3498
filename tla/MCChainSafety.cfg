SPECIFICATION Spec
CONSTANTS
    MaxEvent = 2
    NumEvents = 2
    PanicQueueLength = 2
    Decimated = {}
    Mortal = {"Eventd", "Prioritizerd"}
    MaxDeaths = 1
INVARIANTS
    TypeOK
    
    
    
    UndecimatedKeepWaveforms
    CleanAtRest

    
CHECK_DEADLOCK FALSE
