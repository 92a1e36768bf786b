SPECIFICATION Spec
CONSTANTS
  Apps = {"portal"}
  Policies = {"staff"}
  Scopes = {"a", "b", "email"}
  SystemScopes = {"email"}
  Slugs = {"a", "b", "email"}
  KeyOrder <- Alphabetical
  Texts = {"t0", "t1"}
  Seconds = {"t1"}
  Default = "t0"
  Directories <- FullDirectories
  Established = {"portal", "staff"}
  Applies = {a1, a2, a3}
  Edits = {e1, e2}
SYMMETRY Requests
INVARIANTS TypeOK DriftHasACause
PROPERTIES RestrictedStaysRestricted OwnershipIsRespected NoLostUpdate
CHECK_DEADLOCK FALSE
