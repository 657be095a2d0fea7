SPECIFICATION FairSpec
CONSTANTS
    routed = routed
    unrouted = unrouted
    Positions = {routed, unrouted}
    Unroutable = {unrouted}
    Strategy <- OnlyGuarded
    LoanToValues = {40, 60, 80}
    LiquidationThreshold = 75
    ProtectInterval = 1
    GrowInterval = 0
    MayHappen <- AnythingToOne
    AdminMay = {}
    MaxFaults = 2
INVARIANTS
    CallsAreAccountedFor
    DecidesAsTheProgramJudges
PROPERTIES
    EverybodySeenIsDecidedOn
    GuardReachesEveryone
