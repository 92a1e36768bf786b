SPECIFICATION Spec
CONSTANTS
    Handlers = {h1, h2}
    Requests = {q1, q2}
    Pushes = {p1}
    Users = {alice}
    Scopes = {"read", "write"}
    None = None
    Parameters <- Mixed
    RequiresConsent = TRUE
SYMMETRY RowSymmetry
CHECK_DEADLOCK FALSE
INVARIANTS
    TypeOK
    CodesAreConsented
    PushedRequestsOpenOnce
    PromptNoneIsSilent
