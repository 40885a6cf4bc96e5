CONSTANTS
    s1 = s1
    s2 = s2
    Slots = {s1, s2}
    Near <- OneNear
    MaxOrders = 3
SPECIFICATION LiveSpec
INVARIANTS
    ProtectedUntilDecided
    NoSecondOrder
PROPERTY JournalDrains
CHECK_DEADLOCK FALSE
