CONSTANTS
    Workers = {w1, w2}
    Paths = {"home", "away"}
    Want = "home"
    Classes <- MCClasses
    Contexts = {"purge", "root"}
    PolicyAttempts = 2
    MaxRequests = 3
    MaxFaults = 1
SPECIFICATION Spec
INVARIANTS
    TypeOK
    ReadyIsConfigured
    DeletedIsGone
PROPERTIES
    GrantsSurvive
    OnlyTheNamed
SYMMETRY Symmetry
CHECK_DEADLOCK FALSE
