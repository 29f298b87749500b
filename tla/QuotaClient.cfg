CONSTANTS
    Workers = {w1, w2}
    Limits = {1, 2, 3, 4}
    Attempts = 4
    MaxCalls = 4
    MaxLost = 1
SPECIFICATION FairSpec
INVARIANTS
    TypeOK
    WritesGrow
    ReportedCapacityHolds
    RetriesHaveCause
PROPERTIES
    Promise
    EveryCallReturns
CHECK_DEADLOCK FALSE
