CONSTANTS
    Workers = {w1, w2}
    Keys = {"password", "token"}
    Passwords = {"password"}
    Tokens = {"token"}
    Requests <- MCRequests
    MaxCached = 1
    MaxRetries = 2
    MaxRequests = 3
    MaxFaults = 2
SPECIFICATION FairSpec
INVARIANTS
    TypeOK
    SentOnce
    CallsShare
PROPERTY EveryCallReturns
CHECK_DEADLOCK FALSE
