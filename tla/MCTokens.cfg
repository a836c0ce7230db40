SPECIFICATION Spec
CONSTANTS
  Clients = {c1}
  Requests = {r1, r2}
  Secrets = {k1, k2}
  Permissions = {}
  NoSecret = NoSecret
  NoToken = NoToken
  Life = 1
  Second = 2
  Leeway = 3
  MaxTime = 2
SYMMETRY Symmetry
CONSTRAINT Few
INVARIANTS TypeOK LogOutIsFinal LeewayNeverExtends
PROPERTY SessionsKept
CHECK_DEADLOCK FALSE
