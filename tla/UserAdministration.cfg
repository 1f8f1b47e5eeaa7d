CONSTANTS
  Users = {root, ann}
  SeededAdmin = root
  Permissions = {m}
  Requests = {r1, r2}
  Instances = {i1, i2}
  Undefined = Undefined
  MaxCommits = 3
SPECIFICATION FairSpec
INVARIANTS TypeOK AdministratorRemains AdminsMakeAdmins
PROPERTY StartsAgain
CHECK_DEADLOCK FALSE
