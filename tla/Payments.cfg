CONSTANTS
    Payments = {q1, q2}
    Voids = {v1}
    MaxShifts = 2
    Window = 0
    Grace = 1
    Retention = 2
    CallTime = 1
    MaxTime = 2
    MaxFaults = 1
    NoPayment = NoPayment
SPECIFICATION Spec
SYMMETRY Symmetry
CHECK_DEADLOCK FALSE
INVARIANTS
    TypeOK
    DoubleSubmitPaysOnce
    ReplayedPaymentExists
    DrawerFollowsBooks
