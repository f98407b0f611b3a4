CONSTANTS
    Clients = {c1, c2}
    Sweepers = {s1}
    Bookings = {b1, b2}
    RoomNights = {n1, n2}
    TTL = 1
    MaxTime = 2
    MaxFaults = 1
    SameBooking = FALSE
    Nobody = Nobody
SPECIFICATION Spec
SYMMETRY Symmetry
INVARIANTS
    TypeOK
    GrantedHoldProtects
CHECK_DEADLOCK FALSE
