CONSTANTS
    Rows = {r1, r2}
    Handlers = {h1, h2}
    Importers = {i1}
    MaxVersion = 2
    Changes = {"confirmed", "modified"}
    Stamps <- OrderedOrSame
    MaxRetries = 2
    MaxFaults = 1
    NoRow = NoRow
    NoHandler = NoHandler
SPECIFICATION Spec
SYMMETRY Symmetry
CHECK_DEADLOCK FALSE
INVARIANTS
    TypeOK
    OneBooking
    LockProtectsRow
