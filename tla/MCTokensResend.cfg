SPECIFICATION Spec
CONSTANTS
  Clients = {c1}
  Requests = {r1, r2}
  Secrets = {k1, k2}
  Permissions = {}
  NoSecret = NoSecret
  NoToken = NoToken
  Life = 2
  Second = 2
  Leeway = 2
  MaxTime = 3
SYMMETRY Symmetry
INVARIANT LoggedOut
CHECK_DEADLOCK FALSE
