CONSTANTS
  MaxSockets = 3
  MaxSends = 4
  MaxReconnects = 3
SPECIFICATION Spec
INVARIANTS InOrderOnce OneConnection OrderlyDropsNothing CloseIsFinal StatusIsCurrent
CHECK_DEADLOCK FALSE
