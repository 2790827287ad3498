SPECIFICATION FairSpec
CONSTANTS
    Uplinked = {"NewRun"}
    Levels = {0, 1, 2}
    MaxUpsets = 1
    MaxQueue = 2
    SettlePeriods = 1
    WaitPeriods = 2
INVARIANTS
    TypeOK
    AcqdStaysDown
PROPERTIES
    AcqdRunsAgain
    LowSpaceRelieved
    CmddHears
CHECK_DEADLOCK FALSE
