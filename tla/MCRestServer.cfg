SPECIFICATION Spec
CONSTANTS
  Requests = {r1, r2}
  Servers = {s1, s2}
  Orders = {o1, o2}
  Customers = {c1, c2}
  Nobody = Nobody
  Blank = Blank
  Name = Name
  Paths <- MCPaths
SYMMETRY Symmetry
INVARIANTS TypeOK NeverStale OneWasAskedFor OwnServerOwnPath
CHECK_DEADLOCK FALSE
