CONSTANTS
    r1 = r1  r2 = r2  r3 = r3  ana = ana  bea = bea  w1 = w1  w2 = w2
    Reservations <- Three
    Student <- TwoStudents
    Workers <- Pair
    Stock = 2
    Quantities = {1, 2}
    MaxTotal = 3
    MaxRequests = 5
    EditValues <- Edits
SPECIFICATION Spec
SYMMETRY Symmetry
INVARIANTS
    TypeOK
    ReservedIsHeld
    DepositSettledOnce
    SafeMatchesLedger
    OnePendingPerStudent
CHECK_DEADLOCK FALSE
