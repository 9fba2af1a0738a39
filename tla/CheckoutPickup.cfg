CONSTANTS
    MaxTickets = 2
    MaxRows = 3
    MaxEdits = 0
    MaxFaults = 0
SPECIFICATION Spec
INVARIANT PickupCompletes
CHECK_DEADLOCK FALSE
