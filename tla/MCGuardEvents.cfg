\* Three transactions, a page of two, two catch-ups at once and one fault.
SPECIFICATION FairSpec
CONSTANTS
    Readers = {cron, screen}
    Positions = {"p", "q"}
    Menu <- SomeOfEach
    Page = 2
    MaxTransactions = 3
    MaxFaults = 1
INVARIANTS
    RowsTellTheTruth
    NothingIsOvertakenUnread
PROPERTIES
    EveryActionIsStoredOrOvertaken
