CONSTANTS
    MaxTickets = 2
    MaxRows = 3
    MaxEdits = 1
    MaxFaults = 1
SPECIFICATION FairSpec
INVARIANTS
    TypeOK
    
    AppliedOnceUnlessDoubted
    
    OwnReservation
    ListedIsBacked
PROPERTY EventuallyServed
CHECK_DEADLOCK FALSE
