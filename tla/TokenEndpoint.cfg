SPECIFICATION Spec
CONSTANTS
    Requests = {r1, r2, r3}
    Clients = {web, cli}
    Codes = {c1}
    Families = {f1, f2}
    Tokens = {t1, t2, t3}
    None = None
    Faults = {"signing", "connection", "deadlock", "response"}
    Lifetimes = {1, 2}
    CodeLifetime = 1
    MaxClock = 2
SYMMETRY RowSymmetry
CHECK_DEADLOCK FALSE
INVARIANTS
    TypeOK
    ExactlyOneCurrentToken
    ClosedFamilyIsFullyRevoked
    RotationIsAChain
    OneDeliveredFamilyPerCode
    NoTokenOutlivesItsFamily
PROPERTIES
    KeepsPromise
