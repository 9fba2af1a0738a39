CONSTANTS
    r1 = r1  r2 = r2  r3 = r3  ana = ana  bea = bea  w1 = w1  w2 = w2
    Reservations <- Two
    Student <- SameStudent
    Workers <- Pair
    Stock = 3
    Quantities = {1, 2}
    MaxTotal = 3
    MaxRequests = 4
    EditValues <- Edits
SPECIFICATION Spec
PROPERTY CancelRestoresStock
CHECK_DEADLOCK FALSE
