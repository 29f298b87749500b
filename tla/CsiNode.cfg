CONSTANTS
    Workers <- MCWorkers
    Targets <- MCTargets
    Requests <- MCRequests
    Foreign <- MCForeign
    Locks <- MCLocks
    Null = Null
SPECIFICATION FairSpec
INVARIANTS
    TypeOK
    TargetsExclusive
    MapKeepsMemory
    RecordCoversMount
    AnswersHold
PROPERTIES
    RetryAccepted
    Promise
    EveryCallReturns
