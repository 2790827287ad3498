SPECIFICATION Spec
CONSTANTS
    Events = {1}
    Sips = {"SIPd", "Openportd"}
    Killable = {"LOSd", "SIPd", "Openportd"}
    MaxQueue = 0
    Margin = 0
INVARIANTS
    HandoffInv
    NothingLostUnsent
    AtMostOnceEach
PROPERTIES
    ImplementsDelivery
CHECK_DEADLOCK FALSE
