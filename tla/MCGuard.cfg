SPECIFICATION Spec
CONSTANTS
    BountyBps = 100
    BountyCap = 50
    SlippageBps = 500
    ProtectInterval = 1
    GrowInterval = 1
    ShareBps = 2000
    MinPositionUsd = 100
    MaxPositionUsd = 160000
    Configs <- RunningOnly
    Strategies <- TwoStrategies
    MaxLtv = 7000
    LiquidationThreshold = 7500
    BorrowFactor = 125
    Available = 200000
    LiquidationBonusBps = 500
    LiquidationHappens = FALSE
    StockUnit = 1
    UsdcUnit = 2
    DestinationUnit = 1
    UsdcPrice = 3
    One = 3
    StockPrices <- FineSwing
    DestinationPrices <- Drift
    Signals <- QuietOnly
    RouterRates = {9500, 10000}
    Unspent = {0}
    StockAmounts = {10}
    BorrowAmounts = {34000}
    RepayAmounts = {}
    MaxTime = 2
    MaxStock = 10
    MaxBorrowed = 60000
    MaxInterest = 0
    MaxGuardCount = 2
INVARIANTS
    TypeOK
    AnyFillReachesTheTarget
PROPERTIES
    GuardSettles
    BountyIsEarned
