CONSTANTS
    Workers = {w1, w2}
    ReplicaOf <- OneProcess
    Specs = {"a", "b", "c", "d"}
    Opts <- MCOpts
    ExpandTo = 2
    Rounds = 2
    MaxRequests = 3
    MaxLost = 1
    MaxReplaced = 1
    MaxAborted = 1
    MaxEdited = 1
SPECIFICATION FairSpec
INVARIANTS
    TypeOK
    OneVolumePerName
    DestroyedOnRequest
    VolumesConfigured
PROPERTY EveryRequestReturns
CHECK_DEADLOCK FALSE
