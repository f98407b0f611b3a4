CONSTANTS
    Workers = {w1, w2}
    Bookings = {b1, b2}
    Rooms = {r1, r2}
    LastDate = 1
    NoRoom = NoRoom
    Nobody = Nobody
    Block = Block
    MinAge = 1
    MaxTime = 1
    Faults = {}
SPECIFICATION Spec
SYMMETRY Symmetry
INVARIANTS
    TypeOK
    NoDoubleBooking
    ActiveBookingHoldsLocks
PROPERTIES
    RecoveryTakesOnlyStaleLocks
    ImplementsRoomInventory
CHECK_DEADLOCK FALSE
