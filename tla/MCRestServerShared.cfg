SPECIFICATION Spec
CONSTANTS
  Requests = {r1, r2}
  Servers = {s1, s2}
  Orders = {o1, o2}
  Customers = {c1}
  Nobody = Nobody
  Blank = Blank
  Name = Name
  Paths <- OneOrNone
INVARIANT DeletesOnlyNamed
CHECK_DEADLOCK FALSE
