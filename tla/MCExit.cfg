SPECIFICATION Spec
CONSTANTS
    BountyBps = 100
    BountyCap = 2
    SlippageBps = 500
    ProtectInterval = 1
    GrowInterval = 2
    ShareBps = 2000
    MinPositionUsd = 100
    MaxPositionUsd = 1700
    Configs <- RunningOnly
    Strategies <- OneStrategy
    MaxLtv = 7000
    LiquidationThreshold = 7500
    BorrowFactor = 100
    Available = 10000
    LiquidationBonusBps = 500
    LiquidationHappens = TRUE
    StockUnit = 1
    UsdcUnit = 1
    DestinationUnit = 1
    UsdcPrice = 1
    One = 1
    StockPrices <- Collapse
    DestinationPrices <- Flat
    Signals <- LimitSignals
    RouterRates = {9500}
    Unspent = {0, 1}
    StockAmounts = {7}
    BorrowAmounts = {250}
    RepayAmounts = {300}
    MaxTime = 2
    MaxStock = 14
    MaxBorrowed = 500
    MaxInterest = 1
    MaxGuardCount = 1
INVARIANTS
    HandedBackIsEmpty
    LedgerBalances
    AwaitingSwapHasItsCash
    RescueIsNeverRefused
    RescueTakesAllItMay
PROPERTIES
    RiskOnlyRisesToTheTarget
    KeepsItsLifecycle
