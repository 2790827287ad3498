SPECIFICATION Spec
CONSTANTS
    Events = {1}
    Sips = {"SIPd"}
    Killable = {"SIPd"}
    MaxQueue = 0
    Margin = 0
INVARIANTS
    SipTouchReleased
CHECK_DEADLOCK FALSE
