CONSTANTS
  Requests = {q1, q2}
  Callers = {c1, c2, c3}
  Processes = {p1, p2}
  Owners = {p1, p2}
  Users = {"ann"}
  Sockets = {s1, s2}
  RecordIds = {"i1", "i2"}
  Fields = {"f1", "f2"}
  RecordValues = {0, 1}
  None = None
  MaxSaves = 2
  MaxWarnings = 1
  MaxFaults = 1
  MaxSockets = 3
  MaxSends = 3
  MaxFrames = 1
  MaxTime = 3
  MaxRows = 2
  MaxAsked = 3
  MaxRuns = 2
  MaxTokens = 2
  MaxRequests = 2
  MaxChanges = 1
SPECIFICATION Spec
SYMMETRY Symmetry
INVARIANTS
  AnswersAreLogged
  TrailIsTrue
  ChartsAddUp
  ClientsKeepOrder
  UptimeIsOfItsProcess
  NotificationsAsSet
  TokensAreOfTheirUsers
  HeartbeatsAreFair
CHECK_DEADLOCK FALSE
