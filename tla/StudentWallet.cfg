CONSTANTS
    Openings = {1}
    Changes <- SaleChanges
    Price = 1
    MaxTickets = 2
    MaxFaults = 1
    MaxEvents = 1
SPECIFICATION Spec
INVARIANTS
    TypeOK
    LedgerMatches
    EveryChangeCounts
CHECK_DEADLOCK FALSE
