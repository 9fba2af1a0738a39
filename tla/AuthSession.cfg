CONSTANTS
    ta = ta  c1 = c1  c2 = c2
    Tabs <- OneTab
    Calls <- TwoCalls
    TabOf <- TabOfBoth
    MaxPairs = 5
    MaxStarts = 2
    MaxLogins = 1
    MaxFaults = 1
SPECIFICATION FairSpec
INVARIANTS
    TypeOK
    OneSuccessorUnlessRaced
    LiveIsSaved
    ExpiredIsDead
PROPERTY CallsEnd
CHECK_DEADLOCK FALSE
