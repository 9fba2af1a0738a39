CONSTANTS
    Last = 3
    Weight <- EditWeight
    Needs <- EditNeeds
    Key <- EditKey
    MaxRetries = 2
    Cycles = {c1}
    MaxFailures = 2
SPECIFICATION FairSpec
INVARIANTS
    TypeOK
    OnePerKey
PROPERTY EventuallyDelivered
CHECK_DEADLOCK FALSE
