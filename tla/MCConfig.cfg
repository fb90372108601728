SPECIFICATION MCSpec
CONSTANTS
    NO_TARIFF_NAME = "*_NO_TARIFF_*"
    Logins = {"u1"}
    Menus <- MCMenus
    Start0 <- MCStart
    PassiveCost = 1
    MaxRequests <- MCRequests
    MaxEvents <- MCEvents
    MaxTotal = 1
INVARIANTS
    
    PollMissesOnlySameSecond
    
CHECK_DEADLOCK FALSE
