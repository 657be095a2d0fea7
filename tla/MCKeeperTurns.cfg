SPECIFICATION FairSpec
CONSTANTS
    routed = routed
    unrouted = unrouted
    Positions = {routed, unrouted}
    Unroutable = {unrouted}
    Strategy <- GrowsAndLeaves
    LoanToValues = {20, 40}
    LiquidationThreshold = 75
    ProtectInterval = 0
    GrowInterval = 0
    MayHappen <- ClearedOrFlagged
    AdminMay = {"pause", "retire"}
    MaxFaults = 1
PROPERTIES
    GrowthReachesEveryone
    LeaveReachesEveryone
