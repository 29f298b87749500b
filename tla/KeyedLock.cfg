CONSTANTS
    Workers <- MCWorkers
    Keys <- MCKeys
    Plans <- MCPlans
    Locks <- MCLocks
    Null = Null
SPECIFICATION FairSpec
INVARIANTS
    TypeOK
    MutualExclusion
    NoLeak
PROPERTY EveryHandlerReturns
