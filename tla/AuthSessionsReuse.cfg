CONSTANTS
  root = root
  Users = {root}
  Admins = {root}
  Requests = {r1, r2}
  AccessTTL = 1
  RefreshTTL = 2
  Sec = 2
  MaxPairs = 3
  MaxTime = 0
  OneUserMaxTime = 0
  NoToken = NoToken
  NoUser = NoUser
SPECIFICATION MCSpec
INVARIANTS
  RefreshTokenUsedOnce
SYMMETRY Symmetry
CHECK_DEADLOCK FALSE
