SPECIFICATION Spec
CONSTANTS
    MaxEvent = 2
    NumEvents = 2
    PanicQueueLength = 2
    Decimated = {1}
    Mortal = {}
    MaxDeaths = 0
INVARIANTS
    UndecimatedKeepWaveforms
CHECK_DEADLOCK FALSE
