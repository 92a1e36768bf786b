SPECIFICATION Spec
CONSTANTS
  alice = alice
  g1 = g1
  g2 = g2
  h1 = h1
  google = google
  github = github
  Users = {alice, bob}
  Subjects = {g1, g2, h1}
  Providers = {google, github}
  ProviderOf <- MCProviderOf
  EmailOf <- MCEmailOf
  Enrolling = {alice}
  Requests = {r1, r2}
  Sessions = {s1, s2}
  None = None
SYMMETRY Alike
INVARIANTS TypeOK SessionsAreEarned
PROPERTY SocialLinksAreSafe
CHECK_DEADLOCK FALSE
