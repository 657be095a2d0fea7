\* Three transactions on one position, the price free to move before each lands.
SPECIFICATION SizingSpec
CONSTANTS
    One = 100
    StockUnit = 10
    Usdc <- NearlyADollar
    Destination <- YieldToken
    Factor = 100
    MaxLtv = 5500
    Threshold = 6500
    Available = 1000000
    ShareBps = 1000
    SlippageBps = 100
    BountyBps = 100
    BountyCap = 50
    MinPositionUsd = 10
    MaxPositionUsd = 1000
    StockPrices <- Prices
    StockAmounts = {3, 150}
    RouterRates = {9900, 10000}
    MaxBuilt = 3
INVARIANTS
    SizingTypeOK
PROPERTIES
    OpensTheMarginCovers
    TopUpsTheMarginCovers
    GuardCallsFit
