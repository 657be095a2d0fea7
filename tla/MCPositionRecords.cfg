\* An open and a close, or two opens, made before their blockhash expires, the
\* opens of two transactions; two submits at once and one call that goes wrong;
\* and others who hand the position back.  Once everything is built and settled
\* nothing is left to do.
SPECIFICATION FairSpec
CONSTANTS
    MaxRequests = 2
    OpenPaths <- Opens
    ClosePaths <- Closes
    Life = 0
    Attempts = 1
    MaxHeight = 1
    MaxBuilds = 2
    MaxFaults = 1
    OthersMake = {"closed"}
INVARIANTS
    OpenRowsWentOut
    ClosedRowsWereHandedBack
    FailedRowsLackATransaction
    OpenedIsRecorded
PROPERTIES
    AbandonedNeverBegins
    BuildingEnds
    ClosedAccountsCloseTheirRows
CHECK_DEADLOCK FALSE
