SPECIFICATION FairRescueSpec
CONSTANTS
    Clusters <- TwoClusters
    Home = "devnet"
    WithTable = {"devnet"}
    Endpoints <- ThreeEndpoints
    OfferedFor <- Offers
    ClusterOf <- Serves
    Roomy = {"named"}
    Large = {"rescue"}
    WalletReadsVersionOne = TRUE
    Cards = {c1, c2}
    MaxChoices = 1
    MaxMoves = 1
    MaxFaults = 1
INVARIANTS
    SaysWhatHappened
PROPERTIES
    AllComesHome
