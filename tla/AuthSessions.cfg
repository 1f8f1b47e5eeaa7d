CONSTANTS
  root = root
  Users = {root, ann}
  Admins = {root}
  Requests = {r1, r2}
  AccessTTL = 1
  RefreshTTL = 2
  Sec = 2
  MaxPairs = 2
  MaxTime = 0
  OneUserMaxTime = 5
  NoToken = NoToken
  NoUser = NoUser
SPECIFICATION MCSpec
INVARIANTS
  TypeOK
  RevocationHolds
  RevokedNeverServed
  DeletedNeverServed
SYMMETRY Symmetry
CHECK_DEADLOCK FALSE
