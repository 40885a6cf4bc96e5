CONSTANTS
    Slots = 4
    Gap = 1
    Orders = {o1, o2}
    o1 = o1
    o2 = o2
    MaxSize = 2
    MaxShift = 1
    EmptyLimit = 2
    MaxEvents = 1
SPECIFICATION Spec
SYMMETRY Symmetry
INVARIANT OneSlotPerOrder
PROPERTIES LiveOrdersKeepTheirSlot SyncSettles
CHECK_DEADLOCK FALSE
