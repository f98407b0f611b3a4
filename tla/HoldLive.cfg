CONSTANTS
    Clients = {c1}
    Sweepers = {s1}
    Bookings = {b1, b2}
    RoomNights = {n1, n2}
    TTL = 1
    MaxTime = 1
    MaxFaults = 1
    SameBooking = FALSE
    Nobody = Nobody
SPECIFICATION FairSpec
PROPERTIES
    HoldsEnd
CHECK_DEADLOCK FALSE
