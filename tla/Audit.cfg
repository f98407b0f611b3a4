CONSTANTS
    Handlers = {h1, h2}
    Bookings = {b1}
    InHouse = {}
    LastDay = 2
    MaxRuns = 2
    MaxFaults = 1
    MaxResumes = 1
    Slow = TRUE
SPECIFICATION Spec
SYMMETRY Symmetry
CHECK_DEADLOCK FALSE
INVARIANTS
    TypeOK
    RolledAfterAudit
    ClosedDayIsCharged
PROPERTIES
    SimulationChangesNothing
