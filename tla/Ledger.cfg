CONSTANTS
    Offered = {"sale", "payment", "audit", "list", "close", "open", "shut", "wallet", "migration"}
    MaxRequests = 3
    MaxStudents = 2
    MaxDays = 2
    MaxFaults = 1
    Months = {1, 2}
    Month <- OneDayMonths
SPECIFICATION Spec
INVARIANTS
    TypeOK
    NumbersFollow
    EntryHasPeriod
    LateOnlyUnderWay
    AuditsTakeOnce
    CircleHasMigration
CHECK_DEADLOCK FALSE
