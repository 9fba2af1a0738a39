CONSTANTS
    ta = ta  tb = tb  a1 = a1  a2 = a2  b1 = b1
    Tabs <- TwoTabs
    Cycles <- ThreeCycles
    TabOf <- TabOfThree
    TTL = 3
    Isolated = FALSE
    MaxCloses = 2
SPECIFICATION FairSpec
INVARIANTS
    TypeOK
    OneTabOwnsUnlessDisturbed
    LeaseIsInTheLock
PROPERTY ReplayGoesOn
