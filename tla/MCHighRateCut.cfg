SPECIFICATION Spec
CONSTANTS
    Comms = {comm1, comm2}
    Rates = {0, 2}
    Sizes = {3}
    Word = 1000
    Step = 2
    MaxNumber = 6
    MaxDeaths = 0
INVARIANT RateKept
CHECK_DEADLOCK FALSE
