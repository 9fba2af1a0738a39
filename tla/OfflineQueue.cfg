CONSTANTS
    Last = 2
    Weight <- ReservationWeight
    Needs <- ReservationNeeds
    Key <- ReservationKey
    MaxRetries = 2
    Cycles = {c1, c2}
    MaxFailures = 1
SYMMETRY Symmetry
SPECIFICATION Spec
 
PROPERTY DependenciesFirst
CHECK_DEADLOCK FALSE
