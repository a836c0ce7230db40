SPECIFICATION Spec
CONSTANTS
  Emails = {e1}
  Passwords = {w1, w2}
  Requests = {r1, r2, r3}
SYMMETRY Symmetry
INVARIANTS TypeOK OneRow CreatedStays SuperIsDeliberate SuperTokenDeserved
CHECK_DEADLOCK FALSE
