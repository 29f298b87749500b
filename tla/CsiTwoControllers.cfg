CONSTANTS
    Workers = {w1, w2}
    ReplicaOf <- TwoProcesses
    Specs = {"a", "b"}
    Opts <- MCOpts
    ExpandTo = 2
    Rounds = 3
    MaxRequests = 5
    MaxLost = 1
    MaxReplaced = 0
    MaxAborted = 0
    MaxEdited = 1
SPECIFICATION Behaviour
INVARIANTS
    VolumesSurvive
    DeletionIsClaimed
    DeletedIsGone
    ReturnedIsIntact
CHECK_DEADLOCK FALSE
