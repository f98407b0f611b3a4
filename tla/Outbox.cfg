CONSTANTS
    Events = {e1}
    Workers = {w1, w2, w3}
    MaxAttempts = 2
    MaxCrashes = 2
    MaxRequeues = 1
    MaxTimeouts = 1
    NoEvent = NoEvent
SPECIFICATION FairSpec
INVARIANTS
    TypeOK
    ProcessedWasDelivered
    AttemptsAccountedFor
    DuplicatesNeedTimeouts
PROPERTIES
    SettledRowsStay
    EveryEventSettles
CHECK_DEADLOCK FALSE
