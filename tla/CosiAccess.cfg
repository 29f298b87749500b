CONSTANTS
    Workers = {w1, w2}
    ProcessOf <- TwoProcesses
    Accesses = {"new", "old"}
    RootOf <- MCRootOf
    ModesOf <- MCModesOf
    KeyLimit = 2
    PolicyAttempts = 2
    AclAttempts = 2
    MaxRequests = 3
    MaxFaults = 1
SPECIFICATION Spec
INVARIANTS
    TypeOK
    CredentialsWork
    RevokedIsGone
PROPERTY OthersUntouched
SYMMETRY Symmetry
CHECK_DEADLOCK FALSE
