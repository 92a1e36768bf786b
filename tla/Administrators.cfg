SPECIFICATION Spec
CONSTANTS
  Admins = {alice, bob}
  Browsers = {b1}
  Requests = {r1, r2}
  Clis = {k1, k2}
  Sessions = {s1, s2}
  Links = {l1}
  Codes = {c1}
  AccessLifetime = 1
  None = None
SYMMETRY Alike
INVARIANTS TypeOK AccessFades ResetEndsSessions OwnerRemains
CHECK_DEADLOCK FALSE
