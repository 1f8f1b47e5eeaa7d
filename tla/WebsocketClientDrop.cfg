CONSTANTS
  MaxSockets = 2
  MaxSends = 1
  MaxReconnects = 1
SPECIFICATION Spec
INVARIANT NothingDropped
CHECK_DEADLOCK FALSE
