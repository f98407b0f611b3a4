CONSTANTS
    Requests = {q1, q2, q3}
    Prints = {f1}
    Grace = 3
    Retention = 2
    Stall = 2
    CallTime = 3
    MaxTime = 5
    NoPrint = NoPrint
SPECIFICATION Spec
SYMMETRY Symmetry
INVARIANTS
    TypeOK
    NoDoubleCharge
    ChargeLeavesIntent
    AnswersAreTrue
CHECK_DEADLOCK FALSE
