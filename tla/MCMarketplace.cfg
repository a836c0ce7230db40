SPECIFICATION ReadsSpec
CONSTANTS
  Requests = {1, 2, 3}
  Clients = {c1, c2}
  Founder = c1
  Known = {k1, k2}
  MaxProfiles = 1
  MaxWeight = 1
  Quantity = 2
  Scenes <- Three
  Readers = {q1}
  Views <- Looks
SYMMETRY Symmetry
INVARIANTS TypeOK CreatedStays InOnesOwnName OffersOwnBloqs DeletedIsGone  LikesLeaveTrace ReadsTypeOK MineIsMine ShownStays ListNeedsPictures
CHECK_DEADLOCK FALSE
