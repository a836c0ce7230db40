SPECIFICATION Spec
CONSTANTS
  Clients = {c1}
  Requests = {r1, r2}
  Secrets = {k1, k2}
  Permissions = {}
  NoSecret = NoSecret
  NoToken = NoToken
  Life = 2
  Second = 1
  Leeway = 2
  MaxTime = 0
SYMMETRY Symmetry
INVARIANT HonouredUntilExpiry
CHECK_DEADLOCK FALSE
