SPECIFICATION Spec
CONSTANTS
    BountyBps = 100
    BountyCap = 2
    SlippageBps = 500
    ProtectInterval = 1
    GrowInterval = 2
    ShareBps = 2000
    MinPositionUsd = 100
    MaxPositionUsd = 2200
    Configs <- AdminConfigs
    Strategies <- OneStrategy
    MaxLtv = 7000
    LiquidationThreshold = 7500
    BorrowFactor = 100
    Available = 10000
    LiquidationBonusBps = 500
    LiquidationHappens = FALSE
    StockUnit = 1
    UsdcUnit = 1
    DestinationUnit = 1
    UsdcPrice = 1
    One = 1
    StockPrices <- Swing
    DestinationPrices <- Halves
    Signals <- QuietOnly
    RouterRates = {10000}
    Unspent = {0}
    StockAmounts = {5}
    BorrowAmounts = {250}
    RepayAmounts = {100, 200}
    MaxTime = 1
    MaxStock = 10
    MaxBorrowed = 500
    MaxInterest = 1
    MaxGuardCount = 1
INVARIANTS
    OwedIsNeverOverstated
PROPERTIES
    FeeIsOnProfitAtTheAgreedRate
    SunsetIsForever
