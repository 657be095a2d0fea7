\* One open in up to three transactions, and nothing goes wrong but the wallet.
SPECIFICATION Spec
CONSTANTS
    MaxRequests = 1
    OpenPaths <- AllOpens
    ClosePaths <- Closes
    Life = 1
    Attempts = 1
    MaxHeight = 2
    MaxBuilds = 1
    MaxFaults = 0
    OthersMake = {"none", "held", "closed"}
INVARIANTS
    NothingWasSent
CHECK_DEADLOCK FALSE
