CONSTANTS
    Last = 2
    Weight <- SaleWeight
    Needs <- SaleNeeds
    Key <- SaleKey
    MaxRetries = 2
    Cycles = {c1}
    MaxFailures = 0
SPECIFICATION FairSpec
PROPERTY EventuallyDelivered
CHECK_DEADLOCK FALSE
