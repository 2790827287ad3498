SPECIFICATION FairSpec
CONSTANTS
    Events = {1}
    Sips = {"SIPd", "Openportd"}
    Killable = {}
    MaxQueue = 0
    Margin = 0
INVARIANTS
    SipTouchReleased
PROPERTIES
    Drains
CHECK_DEADLOCK FALSE
