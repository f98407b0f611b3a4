CONSTANTS
    Workers = {w1, w2}
    Bookings = {b1, b2}
    Rooms = {r1}
    LastDate = 2
    NoRoom = NoRoom
    Nobody = Nobody
    Block = Block
    MinAge = 1
    MaxTime = 0
    Faults = {"lost_ack", "assign_crash"}
SPECIFICATION Spec
SYMMETRY Symmetry
INVARIANTS
    NoPartialClaim
CHECK_DEADLOCK FALSE
