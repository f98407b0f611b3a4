CONSTANTS
    Rows = {r1, r2}
    Handlers = {h1, h2}
    Importers = {i1, i2}
    MaxVersion = 2
    Changes = {"cancelled"}
    Stamps <- Ordered
    MaxRetries = 2
    MaxFaults = 1
    NoRow = NoRow
    NoHandler = NoHandler
SPECIFICATION Spec
SYMMETRY Symmetry
CHECK_DEADLOCK FALSE
INVARIANTS
    OneBooking
    CancellationHolds
