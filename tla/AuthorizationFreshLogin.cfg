SPECIFICATION Spec
CONSTANTS
    Handlers = {h1, h2}
    Requests = {q1, q2}
    Pushes = {}
    Users = {alice, bob}
    Scopes = {"read", "write"}
    None = None
    Parameters <- Fresh
    RequiresConsent = TRUE
SYMMETRY RowSymmetry
CHECK_DEADLOCK FALSE
INVARIANTS
    CodesAreAuthenticated
