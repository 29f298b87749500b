CONSTANTS
    Workers = {w1, w2}
    ReplicaOf <- TwoProcesses
    Specs = {"a", "c"}
    Opts <- MCOpts
    ExpandTo = 2
    Rounds = 3
    MaxRequests = 2
    MaxLost = 0
    MaxReplaced = 0
    MaxAborted = 0
    MaxEdited = 0
SPECIFICATION Behaviour
INVARIANT OneVolumePerName
CHECK_DEADLOCK FALSE
