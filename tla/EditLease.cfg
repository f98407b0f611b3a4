CONSTANTS
    Views = {v1, v2}
    LeaseTime = 9
    Beat = 3
    CallTime = 2
    WriteTime = 3
    NoView = NoView
SPECIFICATION FairSpec
CHECK_DEADLOCK FALSE
INVARIANTS
    TypeOK
    WriteLandsUnderLease
PROPERTIES
    ImplementsLease
    AbandonedLeaseEnds
