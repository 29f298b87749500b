CONSTANTS
    Workers = {w1, w2}
    ProcessOf <- OneProcess
    Accesses = {"new", "old"}
    RootOf <- MCRootOf
    ModesOf <- MCModesOf
    KeyLimit = 2
    PolicyAttempts = 2
    AclAttempts = 2
    MaxRequests = 2
    MaxFaults = 0
SPECIFICATION Spec
INVARIANT StatementsSurvive
SYMMETRY Symmetry
CHECK_DEADLOCK FALSE
